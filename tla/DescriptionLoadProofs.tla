------------------------- MODULE DescriptionLoadProofs -------------------------
(***************************************************************************)
(* Safety of DescriptionLoad for any number of sheets and of pictures.     *)
(*                                                                         *)
(* No sheet touches the state of another, so the invariant is a statement  *)
(* about each sheet on its own: how far its load has come says which       *)
(* pictures have arrived and what is in fetchedImages, and that the URLs   *)
(* asked for so far were accepted.                                         *)
(***************************************************************************)
EXTENDS DescriptionLoad, FiniteSetTheorems, SequenceTheorems, TLAPS

(* Nothing is downloaded before the description has answered, or after it  *)
(* has answered nothing.                                                   *)
Untouched(s) ==
  /\ expected[s] = 0 /\ waiting[s] = {} /\ arrived[s] = {} /\ fetchedImages[s] = <<>>
  /\ fetchedCount[s] = 0 /\ groupCount[s] = 0

(* The first n pictures of a chain, in order. *)
First(n) == [i \in 1..n |-> i]

(* One picture of a chain is on its way, and those before it have arrived. *)
ChainOk(s) ==
  /\ stage[s] \in {"closed", "asked"} => Untouched(s)
  /\ stage[s] # "notified"
  /\ stage[s] = "downloading" =>
       \E i \in 1..Len(Chain(s)) : /\ expected[s] = Len(Chain(s))
                                   /\ waiting[s] = {i}
                                   /\ arrived[s] = 1..(i - 1)
                                   /\ fetchedImages[s] = First(i - 1)
                                   /\ stray[s] \cap 1..i = {}
  /\ stage[s] \in {"downloading", "loaded", "shown"} => stray[s] \subseteq 1..Len(Chain(s))
  /\ stage[s] \in {"loaded", "shown"} => /\ arrived[s] = 1..Len(Chain(s))
                                         /\ model[s] = First(Len(Chain(s)))
                                         /\ stray[s] = {}
  /\ stage[s] = "shown" => shows[s] = model[s]

(* The pictures that have arrived, each in its place among n. *)
Places(s, n) == [i \in 1..n |-> IF i \in arrived[s] THEN i ELSE 0]

(* The group counts the pictures on their way, and the others have been    *)
(* counted.                                                                *)
DecorOk(s) ==
  /\ stage[s] \in {"closed", "asked", "failed"} => Untouched(s)
  /\ stage[s] \in {"downloading", "notified", "loaded", "shown"} =>
       /\ stray[s] = {}
       /\ fetchedImages[s] = Places(s, expected[s])
       /\ IsFiniteSet(waiting[s])
       /\ groupCount[s] = Cardinality(waiting[s])
       /\ fetchedCount[s] + groupCount[s] = expected[s]
  /\ stage[s] = "notified" => groupCount[s] = 0
  /\ stage[s] \in {"loaded", "shown"} => model[s] = Places(s, expected[s])
  /\ stage[s] = "shown" => expected[s] >= 5 /\ shows[s] = Places(s, 5)

SheetOk(s) == IF Decor(s) THEN DecorOk(s) ELSE ChainOk(s)

IInv == TypeOK /\ (\A s \in Sheets : SheetOk(s)) /\ CrashHasItsCause

(* Types, spelled out for a step to keep. *)
LEMMA Types ==
  TypeOK <=>
    /\ presented \in Sheets \cup {NoSheet}
    /\ stage \in [Sheets -> Stage]
    /\ expected \in [Sheets -> Nat] /\ fetchedCount \in [Sheets -> Nat]
    /\ groupCount \in [Sheets -> Nat]
    /\ stray \in [Sheets -> SUBSET Nat]
    /\ waiting \in [Sheets -> SUBSET Nat] /\ arrived \in [Sheets -> SUBSET Nat]
    /\ fetchedImages \in [Sheets -> Seq(Nat)]
    /\ model \in [Sheets -> Seq(Nat)] /\ shows \in [Sheets -> Seq(Nat)]
    /\ crashed \in BOOLEAN
    /\ \A s \in Sheets : /\ waiting[s] \subseteq 1..expected[s]
                         /\ arrived[s] \subseteq 1..expected[s]
                         /\ groupCount[s] <= expected[s]
BY DEF TypeOK

LEMMA Chains ==
  ASSUME NEW s \in Sheets, ~Decor(s)
  PROVE  Len(Chain(s)) \in Nat \ {0}
<1>1. Kind[s] \in {"DJ", "BAR", "FOTO"}
  BY DescriptionAssumption DEF Decor
<1>2. Chain(s) \in {DjPictures, BarPictures, FotoPictures}
  BY <1>1 DEF Chain
<1>3. QED
  BY <1>2 DEF DjPictures, BarPictures, FotoPictures

LEMMA InitIInv == Init => IInv
<1> SUFFICES ASSUME Init PROVE IInv
  OBVIOUS
<1>1. <<>> \in Seq(Nat)
  OBVIOUS
<1>2. "closed" \in Stage /\ crashed \in BOOLEAN
  BY DEF Stage, Init
<1>3. TypeOK
  BY <1>1, <1>2, Types DEF Init
<1>4. \A s \in Sheets : SheetOk(s)
  BY DEF Init, SheetOk, DecorOk, ChainOk, Untouched
<1>5. CrashHasItsCause
  BY DEF Init, CrashHasItsCause
<1>6. QED
  BY <1>3, <1>4, <1>5 DEF IInv

--------------------------------------------------------------------------------
(* One sheet moves. *)

Locals(s) == <<stage[s], expected[s], stray[s], waiting[s], arrived[s], fetchedImages[s],
               fetchedCount[s], groupCount[s], model[s], shows[s]>>

OthersStay(s) == \A t \in Sheets \ {s} : Locals(t)' = Locals(t)

LEMMA StayKeeps ==
  ASSUME NEW s \in Sheets, SheetOk(s), Locals(s)' = Locals(s)
  PROVE  SheetOk(s)'
<1>1. /\ stage'[s] = stage[s] /\ expected'[s] = expected[s] /\ stray'[s] = stray[s]
      /\ waiting'[s] = waiting[s] /\ arrived'[s] = arrived[s]
      /\ fetchedImages'[s] = fetchedImages[s] /\ fetchedCount'[s] = fetchedCount[s]
      /\ groupCount'[s] = groupCount[s] /\ model'[s] = model[s] /\ shows'[s] = shows[s]
  BY DEF Locals
<1>2. Untouched(s)' = Untouched(s)
  BY <1>1 DEF Untouched
<1>3. CASE Decor(s)
  BY <1>1, <1>2, <1>3 DEF SheetOk, DecorOk, Places, Decor
<1>4. CASE ~Decor(s)
  <2>1. Chain(s)' = Chain(s)
    BY DEF Chain
  <2>2. QED
    BY <1>1, <1>2, <1>4, <2>1 DEF SheetOk, ChainOk, First, Decor
<1>5. QED
  BY <1>3, <1>4

LEMMA MoveKeeps ==
  ASSUME IInv, NEW s \in Sheets, TypeOK', SheetOk(s)', OthersStay(s), ~crashed'
  PROVE  IInv'
<1>1. \A t \in Sheets : SheetOk(t)'
  BY StayKeeps DEF IInv, OthersStay
<1>2. CrashHasItsCause'
  <2>1. \A t \in Sheets : stage'[t] \in {"notified", "loaded", "shown"} => stray'[t] = {}
    BY <1>1 DEF SheetOk, DecorOk, ChainOk
  <2>2. QED
    BY <2>1 DEF CrashHasItsCause
<1>3. QED
  BY <1>1, <1>2 DEF IInv

(* Nothing but the process ends; a sheet that asked may have been told     *)
(* which URLs are rejected.                                                *)
LEMMA TrapKeeps ==
  ASSUME IInv, crashed' = TRUE, CrashHasItsCause',
         UNCHANGED <<presented, stage, expected, waiting, arrived, fetchedImages, fetchedCount,
                     groupCount, model, shows>>,
         stray' \in [Sheets -> SUBSET Nat],
         \A t \in Sheets : stage[t] # "asked" => stray'[t] = stray[t]
  PROVE  IInv'
<1>1. TypeOK'
  <2>1. crashed' \in BOOLEAN
    OBVIOUS
  <2>2. QED
    BY <2>1 DEF IInv, TypeOK
<1>2. ASSUME NEW t \in Sheets PROVE SheetOk(t)'
  <2>1. CASE stage[t] # "asked"
    BY <2>1, StayKeeps DEF IInv, Locals
  <2>2. CASE stage[t] = "asked"
    BY <2>2 DEF IInv, SheetOk, DecorOk, ChainOk, Untouched, Decor
  <2>3. QED
    BY <2>1, <2>2
<1>3. QED
  BY <1>1, <1>2 DEF IInv

LEMMA DismissKeeps ==
  ASSUME IInv, Dismiss
  PROVE  IInv'
<1>1. /\ ~crashed /\ presented' = NoSheet
      /\ UNCHANGED <<stage, loadVars, model, shows, crashed>>
  BY DEF Dismiss
<1>2. TypeOK'
  BY <1>1 DEF IInv, TypeOK, loadVars
<1>3. \A t \in Sheets : Locals(t)' = Locals(t)
  BY <1>1 DEF Locals, loadVars
<1>4. \A t \in Sheets : SheetOk(t)'
  BY <1>3, StayKeeps DEF IInv
<1>5. CrashHasItsCause'
  BY <1>1 DEF IInv, CrashHasItsCause, loadVars
<1>6. QED
  BY <1>2, <1>4, <1>5 DEF IInv

(* A sheet moves on without touching its pictures. *)
LEMMA StageKeeps ==
  ASSUME IInv, NEW s \in Sheets, NEW next \in Stage, Goes(s, next), presented' \in {presented, s},
         UNCHANGED <<loadVars, model, shows, crashed>>
  PROVE  /\ TypeOK' /\ OthersStay(s) /\ stage'[s] = next
         /\ Untouched(s)' = Untouched(s)
<1> USE DEF loadVars
<1>1. stage' = [stage EXCEPT ![s] = next] /\ stage \in [Sheets -> Stage]
  BY DEF Goes, IInv, TypeOK
<1>2. TypeOK'
  BY <1>1 DEF IInv, TypeOK
<1>3. OthersStay(s) /\ stage'[s] = next
  BY <1>1 DEF OthersStay, Locals
<1>4. QED
  BY <1>2, <1>3 DEF Untouched

LEMMA DidSelectRowKeeps ==
  ASSUME IInv, NEW s \in Sheets, DidSelectRow(s)
  PROVE  IInv'
<1>1. "asked" \in Stage /\ ~crashed /\ stage[s] = "closed" /\ SheetOk(s)
  BY DEF Stage, DidSelectRow, Is, IInv
<1>2. Goes(s, "asked") /\ presented' = s /\ UNCHANGED <<loadVars, model, shows, crashed>>
  BY DEF DidSelectRow
<1>3. /\ TypeOK' /\ OthersStay(s) /\ stage'[s] = "asked"
      /\ Untouched(s)' = Untouched(s)
  BY <1>1, <1>2, StageKeeps
<1>4. Untouched(s)
  BY <1>1 DEF SheetOk, DecorOk, ChainOk
<1>5. SheetOk(s)'
  BY <1>3, <1>4 DEF SheetOk, DecorOk, ChainOk, Decor
<1>6. QED
  BY <1>1, <1>2, <1>3, <1>5, MoveKeeps

LEMMA FetchFindsNothingKeeps ==
  ASSUME IInv, NEW s \in Sheets, FetchFindsNothing(s)
  PROVE  IInv'
<1>1. "failed" \in Stage /\ ~crashed /\ stage[s] = "asked" /\ SheetOk(s)
  BY DEF Stage, FetchFindsNothing, Is, IInv
<1>2. Goes(s, "failed") /\ presented' = presented /\ UNCHANGED <<loadVars, model, shows, crashed>>
  BY DEF FetchFindsNothing
<1>3. /\ TypeOK' /\ OthersStay(s) /\ stage'[s] = "failed"
      /\ Untouched(s)' = Untouched(s)
  BY <1>1, <1>2, StageKeeps
<1>4. Untouched(s)
  BY <1>1 DEF SheetOk, DecorOk, ChainOk
<1>5. SheetOk(s)'
  BY <1>3, <1>4 DEF SheetOk, DecorOk, ChainOk, Decor
<1>6. QED
  BY <1>1, <1>2, <1>3, <1>5, MoveKeeps

--------------------------------------------------------------------------------
(* One picture after the other. *)

(* The rejected URLs of a description are among its pictures. *)
LEMMA DescribesKeeps ==
  ASSUME TypeOK, NEW s \in Sheets, NEW n \in Nat, NEW rejected, Describes(s, n, rejected)
  PROVE  /\ stray' \in [Sheets -> SUBSET Nat]
         /\ stray'[s] \subseteq 1..n
         /\ \A t \in Sheets \ {s} : stray'[t] = stray[t]
<1>1. stray \in [Sheets -> SUBSET Nat] /\ rejected \cap 1..n \in SUBSET Nat
  BY Types
<1>2. QED
  BY <1>1 DEF Describes

(* The description has a URL that ends the process at once.                *)
LEMMA FetchTrapKeeps ==
  ASSUME IInv, NEW s \in Sheets, NEW n \in Nat, NEW rejected, Describes(s, n, rejected),
         stage[s] = "asked", crashed' = TRUE,
         stray'[s] # {}, ~Decor(s) => 1 \in stray'[s],
         UNCHANGED <<presented, stage, expected, waiting, arrived, fetchedImages, fetchedCount,
                     groupCount, model, shows>>
  PROVE  IInv'
<1>1. /\ stray' \in [Sheets -> SUBSET Nat]
      /\ \A t \in Sheets \ {s} : stray'[t] = stray[t]
  BY DescribesKeeps DEF IInv
<1>2. CrashHasItsCause'
  <2>1. \A t \in Sheets : stage'[t] \in {"notified", "loaded", "shown"} => stray'[t] = {}
    BY <1>1 DEF IInv, CrashHasItsCause
  <2>2. \/ Decor(s) /\ stage'[s] = "asked" /\ stray'[s] # {}
        \/ ~Decor(s) /\ stage'[s] = "asked" /\ 1 \in stray'[s]
    OBVIOUS
  <2>3. QED
    BY <2>1, <2>2 DEF CrashHasItsCause, Decor
<1>3. QED
  BY <1>1, <1>2, TrapKeeps

LEMMA FetchDescriptionKeeps ==
  ASSUME IInv, NEW s \in Sheets, NEW rejected, FetchDescription(s, rejected)
  PROVE  IInv'
<1> DEFINE n == Len(Chain(s))
<1>1. /\ ~crashed /\ stage[s] = "asked" /\ ~Decor(s) /\ Describes(s, n, rejected)
      /\ UNCHANGED <<presented, arrived, fetchedImages, fetchedCount, groupCount, model, shows>>
  BY DEF FetchDescription, Is
<1>2. n \in Nat \ {0}
  BY <1>1, Chains
<1>3. TypeOK /\ SheetOk(s) /\ Untouched(s)
  BY <1>1 DEF IInv, SheetOk, ChainOk
<1>4. CASE 1 \in stray'[s]
  <2>1. crashed' = TRUE /\ UNCHANGED <<stage, expected, waiting>>
    BY <1>4 DEF FetchDescription, URLTraps
  <2>2. QED
    BY <1>1, <1>2, <1>4, <2>1, FetchTrapKeeps
<1>5. CASE 1 \notin stray'[s]
  <2>1. /\ expected' = [expected EXCEPT ![s] = n]
        /\ waiting' = [waiting EXCEPT ![s] = {1}]
        /\ stage' = [stage EXCEPT ![s] = "downloading"]
        /\ UNCHANGED crashed
    BY <1>5 DEF FetchDescription, URLTraps, Goes
  <2>2. /\ stray' \in [Sheets -> SUBSET Nat] /\ stray'[s] \subseteq 1..n
        /\ \A t \in Sheets \ {s} : stray'[t] = stray[t]
    BY <1>1, <1>2, <1>3, DescribesKeeps
  <2>3. /\ stage'[s] = "downloading" /\ expected'[s] = n /\ waiting'[s] = {1}
        /\ arrived'[s] = {} /\ fetchedImages'[s] = <<>>
        /\ fetchedCount'[s] = 0 /\ groupCount'[s] = 0
    BY <1>1, <1>3, <2>1, Types DEF Untouched
  <2>4. TypeOK'
    <3>1. \A t \in Sheets : /\ waiting'[t] \subseteq 1..expected'[t]
                            /\ arrived'[t] \subseteq 1..expected'[t]
                            /\ groupCount'[t] <= expected'[t]
      BY <1>1, <1>2, <1>3, <2>1, <2>3, Types
    <3>2. /\ stage' \in [Sheets -> Stage] /\ expected' \in [Sheets -> Nat]
          /\ waiting' \in [Sheets -> SUBSET Nat]
      BY <1>2, <1>3, <2>1, Types DEF Stage
    <3>3. QED
      BY <1>1, <1>3, <2>1, <2>2, <3>1, <3>2 DEF TypeOK
  <2>5. OthersStay(s)
    BY <1>1, <1>3, <2>1, <2>2, Types DEF OthersStay, Locals
  <2>6. SheetOk(s)'
    <3>1. 1 \in 1..n /\ {} = 1..(1 - 1) /\ <<>> = First(1 - 1)
      BY <1>2 DEF First
    <3>2. stray'[s] \cap 1..1 = {}
      BY <1>5
    <3>3. ChainOk(s)'
      BY <2>2, <2>3, <3>1, <3>2 DEF ChainOk, Chain, First
    <3>4. QED
      BY <1>1, <3>3 DEF SheetOk, Decor
  <2>7. QED
    BY <1>1, <2>1, <2>4, <2>5, <2>6, MoveKeeps
<1>6. QED
  BY <1>4, <1>5

(* The picture that was on its way has arrived: the next one is asked for, *)
(* or all of them are there.                                               *)
LEMMA DownloadImageKeeps ==
  ASSUME IInv, NEW s \in Sheets, NEW i \in waiting[s], DownloadImage(s, i)
  PROVE  IInv'
<1> DEFINE n == Len(Chain(s))
<1>1. /\ ~crashed /\ stage[s] = "downloading" /\ ~Decor(s)
      /\ arrived' = [arrived EXCEPT ![s] = arrived[s] \cup {i}]
      /\ fetchedImages' = [fetchedImages EXCEPT ![s] = Append(fetchedImages[s], i)]
      /\ i + 1 \notin stray[s]
      /\ UNCHANGED <<presented, expected, stray, fetchedCount, groupCount, shows, crashed>>
  BY DEF DownloadImage, NextInChain, Is
<1>2. n \in Nat \ {0}
  BY <1>1, Chains
<1>3. TypeOK /\ SheetOk(s) /\ ChainOk(s)
  BY <1>1 DEF IInv, SheetOk
<1>4. /\ i \in 1..n /\ expected[s] = n /\ waiting[s] = {i}
      /\ arrived[s] = 1..(i - 1) /\ fetchedImages[s] = First(i - 1)
      /\ stray[s] \cap 1..i = {} /\ stray[s] \subseteq 1..n
  BY <1>1, <1>3 DEF ChainOk
<1>5. /\ arrived'[s] = 1..i
      /\ fetchedImages'[s] = First(i)
  <2>1. (1..(i - 1)) \cup {i} = 1..i
    BY <1>2, <1>4
  <2>2. Append(First(i - 1), i) = First(i)
    BY <1>2, <1>4 DEF First
  <2>3. QED
    BY <1>1, <1>3, <1>4, <2>1, <2>2, Types
<1>6. /\ fetchedImages' \in [Sheets -> Seq(Nat)] /\ arrived' \in [Sheets -> SUBSET Nat]
      /\ \A t \in Sheets : arrived'[t] \subseteq 1..expected'[t]
      /\ \A t \in Sheets \ {s} : /\ arrived'[t] = arrived[t]
                                 /\ fetchedImages'[t] = fetchedImages[t]
  <2>1. First(i) \in Seq(Nat)
    BY <1>4, <1>2 DEF First
  <2>2. fetchedImages' \in [Sheets -> Seq(Nat)]
    BY <1>1, <1>3, <1>5, <2>1, Types
  <2>3. QED
    BY <1>1, <1>2, <1>3, <1>4, <1>5, <2>2, Types
<1>7. CASE i < n
  <2>1. waiting' = [waiting EXCEPT ![s] = {i + 1}] /\ UNCHANGED <<stage, model>>
    BY <1>7 DEF DownloadImage, NextInChain
  <2>2. waiting'[s] = {i + 1} /\ i + 1 \in 1..n
    BY <1>2, <1>3, <1>4, <1>7, <2>1, Types
  <2>3. TypeOK'
    <3>1. waiting' \in [Sheets -> SUBSET Nat]
      BY <1>2, <1>3, <2>1, <2>2, Types
    <3>2. \A t \in Sheets : waiting'[t] \subseteq 1..expected'[t]
      BY <1>1, <1>3, <1>4, <2>1, <2>2, Types
    <3>3. QED
      BY <1>1, <1>3, <1>6, <2>1, <3>1, <3>2 DEF TypeOK
  <2>4. OthersStay(s)
    BY <1>1, <1>3, <1>6, <2>1, Types DEF OthersStay, Locals
  <2>5. i = (i + 1) - 1 /\ stray'[s] \cap 1..(i + 1) = {}
    BY <1>1, <1>2, <1>4
  <2>6. ChainOk(s)'
    BY <1>1, <1>4, <1>5, <2>1, <2>2, <2>5 DEF ChainOk, Chain, First
  <2>7. SheetOk(s)'
    BY <1>1, <2>6 DEF SheetOk, Decor
  <2>8. QED
    BY <1>1, <2>3, <2>4, <2>7, MoveKeeps
<1>8. CASE ~(i < n)
  <2>1. i = n
    BY <1>2, <1>4, <1>8
  <2>2. /\ waiting' = [waiting EXCEPT ![s] = {}]
        /\ model' = [model EXCEPT ![s] = First(n)]
        /\ stage' = [stage EXCEPT ![s] = "loaded"]
    BY <1>5, <1>8, <2>1 DEF DownloadImage, NextInChain, KeepModel, Goes
  <2>3. First(n) \in Seq(Nat)
    BY <1>2 DEF First
  <2>4. /\ waiting'[s] = {} /\ stage'[s] = "loaded"
        /\ model'[s] = First(n)
    BY <1>3, <2>2, Types
  <2>5. /\ waiting' \in [Sheets -> SUBSET Nat] /\ stage' \in [Sheets -> Stage]
        /\ model' \in [Sheets -> Seq(Nat)]
    BY <1>3, <2>2, <2>3, Types DEF Stage
  <2>6. TypeOK'
    <3>1. \A t \in Sheets : waiting'[t] \subseteq 1..expected'[t]
      BY <1>1, <1>3, <2>2, <2>4, Types
    <3>2. QED
      BY <1>1, <1>3, <1>6, <2>5, <3>1 DEF TypeOK
  <2>7. OthersStay(s)
    BY <1>1, <1>3, <1>6, <2>2, Types DEF OthersStay, Locals
  <2>8. ChainOk(s)'
    <3>1. stray'[s] = {}
      BY <1>1, <1>2, <1>4, <2>1
    <3>2. QED
      BY <1>5, <2>1, <2>4, <3>1 DEF ChainOk, Chain, First
  <2>9. SheetOk(s)'
    BY <1>1, <2>8 DEF SheetOk, Decor
  <2>10. QED
    BY <1>1, <2>6, <2>7, <2>9, MoveKeeps
<1>9. QED
  BY <1>7, <1>8

(* The completion of a picture asks for the next one, and that ends it.    *)
LEMMA NextURLTrapsKeeps ==
  ASSUME IInv, NEW s \in Sheets, NEW i \in waiting[s], NextURLTraps(s, i)
  PROVE  IInv'
<1>1. /\ stage[s] = "downloading" /\ ~Decor(s) /\ i + 1 \in stray[s] /\ crashed' = TRUE
      /\ UNCHANGED <<presented, stage, loadVars, model, shows>>
  BY DEF NextURLTraps, Is
<1>2. waiting[s] = {i} /\ i \in Nat
  <2>1. Len(Chain(s)) \in Nat
    BY <1>1, Chains
  <2>2. QED
    BY <1>1, <2>1 DEF IInv, SheetOk, ChainOk
<1>3. CrashHasItsCause'
  <2>1. (i + 1) - 1 = i
    BY <1>2
  <2>2. \E k \in stray'[s] : waiting'[s] = {k - 1}
    BY <1>1, <1>2, <2>1 DEF loadVars
  <2>3. \A t \in Sheets : stage'[t] \in {"notified", "loaded", "shown"} => stray'[t] = {}
    BY <1>1 DEF IInv, CrashHasItsCause, loadVars
  <2>4. QED
    BY <1>1, <2>2, <2>3 DEF CrashHasItsCause, Decor
<1>4. stray' \in [Sheets -> SUBSET Nat]
  BY <1>1, Types DEF IInv, loadVars
<1>5. QED
  BY <1>1, <1>3, <1>4, TrapKeeps DEF loadVars

LEMMA DownloadFailsKeeps ==
  ASSUME IInv, NEW s \in Sheets, NEW i \in waiting[s], DownloadFails(s, i)
  PROVE  IInv'
<1>1. /\ ~crashed /\ ~Decor(s)
      /\ waiting' = [waiting EXCEPT ![s] = {}]
      /\ stage' = [stage EXCEPT ![s] = "failed"]
      /\ UNCHANGED <<presented, expected, stray, arrived, fetchedImages, fetchedCount, groupCount,
                     model, shows, crashed>>
  BY DEF DownloadFails, Is, Goes
<1>2. TypeOK /\ SheetOk(s) /\ "failed" \in Stage
  BY DEF IInv, SheetOk, Stage
<1>3. waiting'[s] = {} /\ stage'[s] = "failed"
  BY <1>1, <1>2, Types
<1>4. TypeOK'
  BY <1>1, <1>2, <1>3, Types DEF TypeOK
<1>5. OthersStay(s)
  BY <1>1, <1>2, Types DEF OthersStay, Locals
<1>6. SheetOk(s)'
  BY <1>1, <1>2, <1>3 DEF SheetOk, ChainOk, Decor
<1>7. QED
  BY <1>1, <1>4, <1>5, <1>6, MoveKeeps

--------------------------------------------------------------------------------
(* All at once. *)

LEMMA FetchDecorDescriptionKeeps ==
  ASSUME IInv, NEW s \in Sheets, NEW n \in PictureCounts, NEW rejected,
         FetchDecorDescription(s, n, rejected)
  PROVE  IInv'
<1> DEFINE none == [i \in 1..n |-> 0]
<1>1. /\ ~crashed /\ stage[s] = "asked" /\ Decor(s) /\ Describes(s, n, rejected)
      /\ UNCHANGED <<presented, arrived, fetchedCount, model, shows>>
  BY DEF FetchDecorDescription, Is
<1>2. n \in Nat
  BY DescriptionAssumption
<1>3. TypeOK /\ SheetOk(s) /\ Untouched(s)
  BY <1>1 DEF IInv, SheetOk, DecorOk
<1>4. /\ stray' \in [Sheets -> SUBSET Nat] /\ stray'[s] \subseteq 1..n
      /\ \A t \in Sheets \ {s} : stray'[t] = stray[t]
  BY <1>1, <1>2, <1>3, DescribesKeeps
<1>5. CASE stray'[s] # {}
  <2>1. stray'[s] \cap 1..n # {}
    BY <1>4, <1>5
  <2>2. crashed' = TRUE /\ UNCHANGED <<stage, expected, waiting, fetchedImages, groupCount>>
    BY <2>1 DEF FetchDecorDescription, URLTraps
  <2>3. QED
    BY <1>1, <1>2, <1>5, <2>2, FetchTrapKeeps
<1>6. CASE stray'[s] = {}
  <2>1. /\ expected' = [expected EXCEPT ![s] = n]
        /\ waiting' = [waiting EXCEPT ![s] = 1..n]
        /\ fetchedImages' = [fetchedImages EXCEPT ![s] = none]
        /\ groupCount' = [groupCount EXCEPT ![s] = n]
        /\ stage' = [stage EXCEPT ![s] = StageAfter(n)]
        /\ UNCHANGED crashed
    BY <1>6 DEF FetchDecorDescription, URLTraps, Goes
  <2>2. /\ stage'[s] = StageAfter(n) /\ expected'[s] = n /\ waiting'[s] = 1..n
        /\ arrived'[s] = {} /\ fetchedImages'[s] = none
        /\ fetchedCount'[s] = 0 /\ groupCount'[s] = n
    BY <1>1, <1>3, <2>1, Types DEF Untouched
  <2>3. TypeOK'
    <3>1. /\ stage' \in [Sheets -> Stage] /\ expected' \in [Sheets -> Nat]
          /\ waiting' \in [Sheets -> SUBSET Nat] /\ groupCount' \in [Sheets -> Nat]
      BY <1>2, <1>3, <2>1, Types DEF Stage, StageAfter
    <3>2. fetchedImages' \in [Sheets -> Seq(Nat)]
      <4>1. none \in Seq(Nat)
        BY <1>2
      <4>2. QED
        BY <1>3, <2>1, <4>1, Types
    <3>3. \A t \in Sheets : /\ waiting'[t] \subseteq 1..expected'[t]
                            /\ arrived'[t] \subseteq 1..expected'[t]
                            /\ groupCount'[t] <= expected'[t]
      <4>1. \A t \in Sheets \ {s} : /\ waiting'[t] = waiting[t] /\ expected'[t] = expected[t]
                                     /\ groupCount'[t] = groupCount[t]
        BY <1>3, <2>1, Types
      <4>2. n <= n /\ {} \subseteq 1..n
        BY <1>2
      <4>3. QED
        BY <1>1, <1>3, <2>2, <4>1, <4>2, Types
    <3>4. QED
      BY <1>1, <1>3, <1>4, <2>1, <3>1, <3>2, <3>3 DEF TypeOK
  <2>4. OthersStay(s)
    BY <1>1, <1>3, <1>4, <2>1, Types DEF OthersStay, Locals
  <2>5. SheetOk(s)'
    <3>1. none = Places(s, n)'
      BY <2>2 DEF Places
    <3>2. IsFiniteSet(1..n) /\ Cardinality(1..n) = n
      BY <1>2, FS_Interval
    <3>3. StageAfter(n) \in {"downloading", "notified"} /\ (StageAfter(n) = "notified" => n = 0)
      BY DEF StageAfter
    <3>4. DecorOk(s)'
      BY <1>2, <1>6, <2>2, <3>1, <3>2, <3>3 DEF DecorOk, Places
    <3>5. QED
      BY <1>1, <3>4 DEF SheetOk, Decor
  <2>6. QED
    BY <1>1, <2>1, <2>3, <2>4, <2>5, MoveKeeps
<1>7. QED
  BY <1>5, <1>6

(* An answer leaves the group; its picture, if there is one, is in place.  *)
LEMMA LeaveKeeps ==
  ASSUME IInv, NEW s \in Sheets, NEW i \in waiting[s],
         DownloadDecorImage(s, i) \/ DecorDownloadFails(s, i)
  PROVE  IInv'
<1> DEFINE count == groupCount[s] - 1
<1>0. PICK n \in Nat : n = expected[s]
  BY DEF IInv, TypeOK
<1>1. /\ ~crashed /\ stage[s] = "downloading" /\ Decor(s)
      /\ waiting' = [waiting EXCEPT ![s] = waiting[s] \ {i}]
      /\ groupCount' = [groupCount EXCEPT ![s] = count]
      /\ fetchedCount' = [fetchedCount EXCEPT ![s] = fetchedCount[s] + 1]
      /\ UNCHANGED <<presented, expected, stray, model, shows, crashed>>
  BY DEF DownloadDecorImage, DecorDownloadFails, Leave, Count, Is
<1>2. stage' = [stage EXCEPT ![s] = StageAfter(groupCount'[s])]
  BY DEF DownloadDecorImage, DecorDownloadFails, Leave, Goes
<1>3. \/ /\ arrived' = [arrived EXCEPT ![s] = arrived[s] \cup {i}]
         /\ fetchedImages' = [fetchedImages EXCEPT ![s] = [fetchedImages[s] EXCEPT ![i] = i]]
      \/ UNCHANGED <<arrived, fetchedImages>>
  BY DEF DownloadDecorImage, DecorDownloadFails
<1>4. TypeOK /\ SheetOk(s) /\ DecorOk(s)
  BY <1>1 DEF IInv, SheetOk
<1>5. /\ fetchedImages[s] = Places(s, n)
      /\ IsFiniteSet(waiting[s]) /\ groupCount[s] = Cardinality(waiting[s])
      /\ fetchedCount[s] + groupCount[s] = n /\ stray[s] = {}
  BY <1>0, <1>1, <1>4 DEF DecorOk
<1>6. /\ n \in Nat /\ fetchedCount[s] \in Nat /\ groupCount[s] \in Nat
      /\ waiting[s] \subseteq 1..n /\ arrived[s] \subseteq 1..n /\ groupCount[s] <= n
      /\ i \in 1..n
  BY <1>0, <1>4, Types
<1>7. /\ IsFiniteSet(waiting[s] \ {i}) /\ Cardinality(waiting[s] \ {i}) = count
      /\ count \in Nat /\ count <= n
  <2>1. IsFiniteSet(waiting[s] \ {i}) /\ Cardinality(waiting[s] \ {i}) = count
    BY <1>5, FS_RemoveElement
  <2>2. count \in Nat
    BY <2>1, FS_CardinalityType
  <2>3. QED
    BY <1>6, <2>1, <2>2
<1>8. /\ waiting'[s] = waiting[s] \ {i} /\ groupCount'[s] = count
      /\ fetchedCount'[s] = fetchedCount[s] + 1
  BY <1>1, <1>4, Types
<1>9. stage'[s] = StageAfter(count)
  BY <1>2, <1>4, <1>8, Types
<1>10. /\ arrived'[s] \subseteq 1..n
       /\ fetchedImages'[s] = [k \in 1..n |-> IF k \in arrived'[s] THEN k ELSE 0]
  <2>1. CASE UNCHANGED <<arrived, fetchedImages>>
    BY <1>5, <1>6, <2>1 DEF Places
  <2>2. CASE /\ arrived' = [arrived EXCEPT ![s] = arrived[s] \cup {i}]
             /\ fetchedImages' = [fetchedImages EXCEPT ![s] = [fetchedImages[s] EXCEPT ![i] = i]]
    <3>1. /\ arrived'[s] = arrived[s] \cup {i}
          /\ fetchedImages'[s] = [Places(s, n) EXCEPT ![i] = i]
      BY <1>4, <1>5, <2>2, Types
    <3>2. [Places(s, n) EXCEPT ![i] = i]
            = [k \in 1..n |-> IF k \in arrived[s] \cup {i} THEN k ELSE 0]
      BY <1>6 DEF Places
    <3>3. QED
      BY <1>6, <3>1, <3>2
  <2>3. QED
    BY <1>3, <2>1, <2>2
<1>11. fetchedImages'[s] \in Seq(Nat) /\ expected'[s] = n
  BY <1>0, <1>1, <1>10
<1>12. TypeOK'
  <2>1. /\ waiting' \in [Sheets -> SUBSET Nat] /\ groupCount' \in [Sheets -> Nat]
        /\ fetchedCount' \in [Sheets -> Nat]
    <3>1. /\ waiting \in [Sheets -> SUBSET Nat] /\ groupCount \in [Sheets -> Nat]
          /\ fetchedCount \in [Sheets -> Nat]
      BY <1>4, Types
    <3>2. waiting[s] \ {i} \in SUBSET Nat /\ fetchedCount[s] + 1 \in Nat /\ count \in Nat
      BY <1>6, <1>7
    <3>3. QED
      BY <1>1, <3>1, <3>2
  <2>2. stage' \in [Sheets -> Stage]
    BY <1>2, <1>4, Types DEF StageAfter, Stage
  <2>3. arrived' \in [Sheets -> SUBSET Nat]
    <3>1. arrived[s] \cup {i} \in SUBSET Nat
      BY <1>6
    <3>2. QED
      BY <1>3, <1>4, <3>1, Types
  <2>4. fetchedImages' \in [Sheets -> Seq(Nat)]
    BY <1>3, <1>4, <1>11, Types
  <2>5. \A t \in Sheets : /\ waiting'[t] \subseteq 1..expected'[t]
                          /\ groupCount'[t] <= expected'[t]
    BY <1>0, <1>1, <1>4, <1>6, <1>7, <1>8, Types
  <2>6. \A t \in Sheets : arrived'[t] \subseteq 1..expected'[t]
    BY <1>0, <1>1, <1>3, <1>4, <1>6, <1>10, Types
  <2>7. QED
    BY <1>1, <1>4, <2>1, <2>2, <2>3, <2>4, <2>5, <2>6 DEF TypeOK
<1>13. OthersStay(s)
  BY <1>1, <1>2, <1>3, <1>4, Types DEF OthersStay, Locals
<1>14. SheetOk(s)'
  <2>1. StageAfter(count) \in {"downloading", "notified"}
        /\ (StageAfter(count) = "notified" => count = 0)
    BY DEF StageAfter
  <2>2. fetchedCount'[s] + count = n
    BY <1>5, <1>6, <1>8
  <2>3. DecorOk(s)'
    BY <1>1, <1>5, <1>7, <1>8, <1>9, <1>10, <1>11, <2>1, <2>2 DEF DecorOk, Places
  <2>4. QED
    BY <1>1, <2>3 DEF SheetOk, Decor
<1>15. QED
  BY <1>1, <1>12, <1>13, <1>14, MoveKeeps

(* The group is empty, so every download has been counted.                 *)
LEMMA NotifyKeeps ==
  ASSUME IInv, NEW s \in Sheets, Notify(s)
  PROVE  IInv'
<1> DEFINE own == fetchedImages[s]
<1>1. ~crashed /\ stage[s] = "notified" /\ UNCHANGED <<presented, loadVars, shows, crashed>>
  BY DEF Notify, Is
<1>2. TypeOK /\ SheetOk(s) /\ Decor(s) /\ DecorOk(s)
  BY <1>1 DEF IInv, SheetOk, ChainOk
<1>3. groupCount[s] = 0 /\ fetchedCount[s] + groupCount[s] = expected[s]
  BY <1>1, <1>2 DEF DecorOk
<1>4. fetchedCount[s] = expected[s]
  BY <1>2, <1>3, Types
<1>5. model' = [model EXCEPT ![s] = own] /\ stage' = [stage EXCEPT ![s] = "loaded"]
  BY <1>4 DEF Notify, KeepModel, Goes
<1>6. own \in Seq(Nat)
  BY <1>2, Types
<1>7. model'[s] = own /\ stage'[s] = "loaded"
  BY <1>2, <1>5, Types
<1>8. TypeOK'
  <2>1. model' \in [Sheets -> Seq(Nat)] /\ stage' \in [Sheets -> Stage]
    BY <1>2, <1>5, <1>6, Types DEF Stage
  <2>2. QED
    BY <1>1, <1>2, <2>1 DEF TypeOK, loadVars
<1>9. OthersStay(s)
  BY <1>1, <1>2, <1>5, Types DEF OthersStay, Locals, loadVars
<1>10. SheetOk(s)'
  <2>1. DecorOk(s)'
    BY <1>1, <1>2, <1>7 DEF DecorOk, Places, loadVars
  <2>2. QED
    BY <1>2, <2>1 DEF SheetOk, Decor
<1>11. QED
  BY <1>1, <1>8, <1>9, <1>10, MoveKeeps

(* The five views of a decoration show its first five places.              *)
LEMMA FivePlaces ==
  ASSUME NEW s \in Sheets, NEW n \in Nat, n >= 5
  PROVE  SubSeq(Places(s, n), 1, 5) = Places(s, 5)
<1>1. Places(s, n) \in Seq(Nat) /\ Len(Places(s, n)) = n
  BY DEF Places
<1>2. SubSeq(Places(s, n), 1, 5) = [i \in 1..5 |-> Places(s, n)[i]]
  BY <1>1
<1>3. \A i \in 1..5 : Places(s, n)[i] = Places(s, 5)[i]
  BY DEF Places
<1>4. QED
  BY <1>2, <1>3 DEF Places

(* A sheet shows what its model holds, or the process ends.                *)
LEMMA UpdateUIKeeps ==
  ASSUME IInv, NEW s \in Sheets, UpdateUI(s)
  PROVE  IInv'
<1> DEFINE images == model[s]
           places == IF Decor(s) THEN DecorPlaces(images) ELSE {images}
<1>1. ~crashed /\ stage[s] = "loaded" /\ UNCHANGED <<presented, loadVars, model>>
  BY DEF UpdateUI, Is
<1>2. TypeOK /\ SheetOk(s) /\ model[s] \in Seq(Nat)
  BY <1>1, Types DEF IInv, SheetOk
<1>3. \/ \E is \in places : /\ stage' = [stage EXCEPT ![s] = "shown"]
                            /\ shows' = [shows EXCEPT ![s] = is]
                            /\ crashed' = crashed
      \/ places = {} /\ crashed' = TRUE /\ UNCHANGED <<stage, shows>>
  BY DEF UpdateUI, Goes
<1>4. PICK n \in Nat : n = expected[s]
  BY <1>2, Types
<1>5. Decor(s) => images = Places(s, n) /\ Len(images) = n
  BY <1>1, <1>2, <1>4 DEF SheetOk, DecorOk, Places
<1>6. CASE \E is \in places : /\ stage' = [stage EXCEPT ![s] = "shown"]
                              /\ shows' = [shows EXCEPT ![s] = is]
                              /\ crashed' = crashed
  <2>1. PICK is \in places : /\ stage' = [stage EXCEPT ![s] = "shown"]
                             /\ shows' = [shows EXCEPT ![s] = is]
                             /\ crashed' = crashed
    BY <1>6
  <2>2. /\ Decor(s) => n >= 5 /\ is = Places(s, 5)
        /\ ~Decor(s) => is = images
    <3>1. CASE Decor(s)
      <4>1. n >= 5 /\ is = SubSeq(Places(s, n), 1, 5)
        BY <1>5, <2>1, <3>1 DEF DecorPlaces
      <4>2. QED
        BY <3>1, <4>1, FivePlaces
    <3>2. QED
      BY <2>1, <3>1
  <2>3. is \in Seq(Nat)
    <3>1. Places(s, 5) \in Seq(Nat)
      BY DEF Places
    <3>2. QED
      BY <1>2, <2>2, <3>1
  <2>4. /\ stage'[s] = "shown" /\ shows'[s] = is
        /\ stage' \in [Sheets -> Stage] /\ shows' \in [Sheets -> Seq(Nat)]
    BY <1>2, <2>1, <2>3, Types DEF Stage
  <2>5. TypeOK'
    BY <1>1, <1>2, <2>1, <2>4 DEF TypeOK, loadVars
  <2>6. OthersStay(s)
    BY <1>1, <1>2, <2>1, Types DEF OthersStay, Locals, loadVars
  <2>7. CASE Decor(s)
    <3>1. DecorOk(s)'
      BY <1>1, <1>2, <1>4, <2>2, <2>4, <2>7 DEF SheetOk, DecorOk, Places, loadVars
    <3>2. SheetOk(s)'
      BY <2>7, <3>1 DEF SheetOk, Decor
    <3>3. QED
      BY <1>1, <2>1, <2>5, <2>6, <3>2, MoveKeeps
  <2>8. CASE ~Decor(s)
    <3>1. ChainOk(s)'
      BY <1>1, <1>2, <2>2, <2>4, <2>8 DEF SheetOk, ChainOk, Chain, First, loadVars
    <3>2. SheetOk(s)'
      BY <2>8, <3>1 DEF SheetOk, Decor
    <3>3. QED
      BY <1>1, <2>1, <2>5, <2>6, <3>2, MoveKeeps
  <2>9. QED
    BY <2>7, <2>8
<1>7. CASE places = {} /\ crashed' = TRUE /\ UNCHANGED <<stage, shows>>
  <2>1. Decor(s) /\ n < 5
    BY <1>5, <1>7 DEF DecorPlaces
  <2>2. CrashHasItsCause'
    <3>1. \A t \in Sheets : stage'[t] \in {"notified", "loaded", "shown"} => stray'[t] = {}
      BY <1>1, <1>7 DEF IInv, CrashHasItsCause, loadVars
    <3>2. Decor(s) /\ stage'[s] = "loaded" /\ expected'[s] < 5
      BY <1>1, <1>4, <1>7, <2>1 DEF loadVars
    <3>3. QED
      BY <3>1, <3>2 DEF CrashHasItsCause, Decor
  <2>3. stray' \in [Sheets -> SUBSET Nat]
    BY <1>1, <1>2, Types DEF loadVars
  <2>4. QED
    BY <1>1, <1>7, <2>2, <2>3, TrapKeeps DEF loadVars
<1>8. QED
  BY <1>3, <1>6, <1>7

--------------------------------------------------------------------------------

LEMMA StutterKeeps ==
  ASSUME IInv, UNCHANGED vars
  PROVE  IInv'
<1>1. UNCHANGED <<presented, stage, loadVars, model, shows, crashed>>
  BY DEF vars
<1>2. TypeOK'
  BY <1>1 DEF IInv, TypeOK, loadVars
<1>3. \A t \in Sheets : Locals(t)' = Locals(t)
  BY <1>1 DEF Locals, loadVars
<1>4. \A t \in Sheets : SheetOk(t)'
  BY <1>3, StayKeeps DEF IInv
<1>5. CrashHasItsCause'
  BY <1>1 DEF IInv, CrashHasItsCause, loadVars, Decor
<1>6. QED
  BY <1>2, <1>4, <1>5 DEF IInv

LEMMA NextKeepsIInv ==
  IInv /\ [Next]_vars => IInv'
<1> SUFFICES ASSUME IInv, [Next]_vars PROVE IInv'
  OBVIOUS
<1>1. CASE UNCHANGED vars
  BY <1>1, StutterKeeps
<1>2. CASE Dismiss
  BY <1>2, DismissKeeps
<1>3. ASSUME NEW s \in Sheets, DidSelectRow(s) PROVE IInv'
  BY <1>3, DidSelectRowKeeps
<1>4. ASSUME NEW s \in Sheets, Fetch(s) PROVE IInv'
  BY <1>4, FetchFindsNothingKeeps, FetchDescriptionKeeps, FetchDecorDescriptionKeeps DEF Fetch
<1>5. ASSUME NEW s \in Sheets, Download(s) PROVE IInv'
  BY <1>5, DownloadImageKeeps, DownloadFailsKeeps, LeaveKeeps, NextURLTrapsKeeps
     DEF Download
<1>6. ASSUME NEW s \in Sheets, Notify(s) PROVE IInv'
  BY <1>6, NotifyKeeps
<1>7. ASSUME NEW s \in Sheets, UpdateUI(s) PROVE IInv'
  BY <1>7, UpdateUIKeeps
<1>8. QED
  BY <1>1, <1>2, <1>3, <1>4, <1>5, <1>6, <1>7 DEF Next

LEMMA IInvHolds == Spec => []IInv
<1>1. QED
  BY InitIInv, NextKeepsIInv, PTL DEF Spec

--------------------------------------------------------------------------------

(* Every variable keeps to its type, and the pictures of a sheet are among *)
(* those its description names.                                            *)
THEOREM TypeCorrect == Spec => []TypeOK
<1>1. IInv => TypeOK
  BY DEF IInv
<1>2. QED
  BY <1>1, IInvHolds, PTL

(* A disc jockey, bar or photographer shown is shown with every picture:   *)
(* each completion asks for the next download or ends the load.            *)
THEOREM ShownWhole == Spec => []ShownIsComplete
<1>1. IInv => ShownIsComplete
  BY DEF IInv, SheetOk, ChainOk, First, ShownIsComplete
<1>2. QED
  BY <1>1, IInvHolds, PTL

(* Whatever the order of arrival, a decoration's picture is in its place:  *)
(* fetchedImages[index] = image.                                           *)
THEOREM InPlace == Spec => []PicturesInTheirPlace
<1>1. IInv => PicturesInTheirPlace
  BY DEF IInv, SheetOk, DecorOk, Places, PicturesInTheirPlace
<1>2. QED
  BY <1>1, IInvHolds, PTL

(* The count of answers a decoration's group waits for is the number of    *)
(* its pictures when the group is empty, failures included.                *)
THEOREM FailuresCount == Spec => []MissingPicturesDoNotFail
<1>1. IInv => MissingPicturesDoNotFail
  BY DEF IInv, SheetOk, DecorOk, Untouched, MissingPicturesDoNotFail
<1>2. QED
  BY <1>1, IInvHolds, PTL

(* The process dies only of the subscripts images[0] to images[4] of       *)
(* updateUI, for a decoration whose description has fewer than five        *)
(* pictures, or of a URL that Storage.reference(forURL:) rejects: of a     *)
(* decoration's before anything is downloaded, of another sheet's when the *)
(* pictures before it have come.                                           *)
THEOREM TrapsExactly == Spec => []CrashHasItsCause
<1>1. IInv => CrashHasItsCause
  BY DEF IInv
<1>2. QED
  BY <1>1, IInvHolds, PTL

================================================================================
