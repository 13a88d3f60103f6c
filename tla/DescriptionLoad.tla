---------------------------- MODULE DescriptionLoad ----------------------------
(***************************************************************************)
(* Loading the description sheets: the four *DescriptionViewModels and the *)
(* updateUI of their controllers.                                          *)
(*                                                                         *)
(* A sheet asks for its description as it appears.  Its pictures are then  *)
(* downloaded one after the other (DJ, BAR, FOTO) or all at once under a   *)
(* DispatchGroup (DECOR).  The sheet may be swiped away at any time and    *)
(* another one opened; what it has started goes on, as the closures keep   *)
(* it.  Every handler runs on the main thread.                             *)
(***************************************************************************)
EXTENDS Integers, Sequences, FiniteSets

CONSTANTS Sheets,        \* presentations of a sheet, each with a view model
          NoSheet,
          Kind,          \* the service of each sheet
          PictureCounts, \* how many imagesURL a decoration may have
          StrayPictures  \* which of a description's URLs Storage may reject, by index

(* What populate*DescriptionModel downloads, one picture after the other. *)
DjPictures   == <<"backgroundImageURL", "imageURL">>
BarPictures  == <<"backgroundImageURL", "imageURL">>
FotoPictures == <<"imageURL">>

ASSUME DescriptionAssumption ==
  /\ NoSheet \notin Sheets
  /\ Kind \in [Sheets -> {"DJ", "BAR", "FOTO", "DECOR"}]
  /\ PictureCounts \subseteq Nat
  /\ IsFiniteSet(PictureCounts)
  /\ StrayPictures \subseteq SUBSET Nat

VARIABLES presented,     \* the sheet on screen
          stage,         \* how far each sheet has come
          expected,      \* number of pictures of its description
          stray,         \* those whose URL Storage.reference(forURL:) rejects
          waiting,       \* pictures on their way, by index
          arrived,       \* pictures that have arrived
          fetchedImages, \* pictures by place; 0 is a missing one
          fetchedCount,  \* answers to a decoration's downloads
          groupCount,    \* the DispatchGroup's count of enter minus leave
          model,         \* the *DescriptionModel of each view model
          shows,         \* what updateUI has put on each sheet
          crashed        \* an index out of range or a fatalError has ended the process

loadVars == <<expected, stray, waiting, arrived, fetchedImages, fetchedCount, groupCount>>
vars == <<presented, stage, loadVars, model, shows, crashed>>

(* "asked" for the description; "downloading"; "notified": the group's     *)
(* block is on the main queue; "loaded": the block with updateUI is;       *)
(* "shown"; "failed": the spinner stays.                                   *)
Stage == {"closed", "asked", "downloading", "notified", "loaded", "shown", "failed"}

TypeOK ==
  /\ presented \in Sheets \cup {NoSheet}
  /\ stage \in [Sheets -> Stage]
  /\ expected \in [Sheets -> Nat]
  /\ stray \in [Sheets -> SUBSET Nat]
  /\ waiting \in [Sheets -> SUBSET Nat]
  /\ arrived \in [Sheets -> SUBSET Nat]
  /\ \A s \in Sheets : waiting[s] \cup arrived[s] \subseteq 1..expected[s]
  /\ fetchedImages \in [Sheets -> Seq(Nat)]
  /\ fetchedCount \in [Sheets -> Nat]
  /\ groupCount \in [Sheets -> Nat]
  /\ \A s \in Sheets : groupCount[s] <= expected[s]
  /\ model \in [Sheets -> Seq(Nat)]
  /\ shows \in [Sheets -> Seq(Nat)]
  /\ crashed \in BOOLEAN

Init ==
  /\ presented = NoSheet
  /\ stage = [s \in Sheets |-> "closed"]
  /\ expected = [s \in Sheets |-> 0]
  /\ stray = [s \in Sheets |-> {}]
  /\ waiting = [s \in Sheets |-> {}]
  /\ arrived = [s \in Sheets |-> {}]
  /\ fetchedImages = [s \in Sheets |-> <<>>]
  /\ fetchedCount = [s \in Sheets |-> 0]
  /\ groupCount = [s \in Sheets |-> 0]
  /\ model = [s \in Sheets |-> <<>>]
  /\ shows = [s \in Sheets |-> <<>>]
  /\ crashed = FALSE

Goes(s, next) == stage' = [stage EXCEPT ![s] = next]
Is(s, now) == ~crashed /\ stage[s] = now
Decor(s) == Kind[s] = "DECOR"

--------------------------------------------------------------------------------
(* The sheet. *)

(* viewDidLoad of the new sheet calls loadAllData. *)
DidSelectRow(s) ==
  /\ Is(s, "closed")
  /\ presented = NoSheet
  /\ presented' = s
  /\ Goes(s, "asked")
  /\ UNCHANGED <<loadVars, model, shows, crashed>>

(* A swipe, or the cart button: nothing is cancelled. *)
Dismiss ==
  /\ ~crashed
  /\ presented # NoSheet
  /\ presented' = NoSheet
  /\ UNCHANGED <<stage, loadVars, model, shows, crashed>>

(* Faulty variants, named for the fault, stand before the definition they  *)
(* vary; no specification uses them.                                       *)
SixthPlace(images) == IF Len(images) < 6 THEN {} ELSE {SubSeq(images, 1, 6)}

(* The five picture views of a decoration: images[0] to images[4], or an   *)
(* index out of range.                                                     *)
DecorPlaces(images) == IF Len(images) < 5 THEN {} ELSE {SubSeq(images, 1, 5)}

(* The posted block of loadAllData: updateUI, and the spinner goes. *)
UpdateUI(s) ==
  /\ Is(s, "loaded")
  /\ LET places == IF Decor(s) THEN DecorPlaces(model[s]) ELSE {model[s]} IN
       \/ \E images \in places :
            /\ Goes(s, "shown")
            /\ shows' = [shows EXCEPT ![s] = images]
            /\ UNCHANGED crashed
       \/ /\ places = {}
          /\ crashed' = TRUE
          /\ UNCHANGED <<stage, shows>>
  /\ UNCHANGED <<presented, loadVars, model>>

--------------------------------------------------------------------------------
(* fetch*Description: the query answers with a description that decodes,   *)
(* or with nothing of use, or an error.                                    *)

FetchFindsNothing(s) ==
  /\ Is(s, "asked")
  /\ Goes(s, "failed")
  /\ UNCHANGED <<presented, loadVars, model, shows, crashed>>

Chain(s) == CASE Kind[s] = "DJ"   -> DjPictures
              [] Kind[s] = "BAR"  -> BarPictures
              [] Kind[s] = "FOTO" -> FotoPictures

(* The description names n pictures, the rejected ones among them.         *)
Describes(s, n, rejected) == stray' = [stray EXCEPT ![s] = rejected \cap 1..n]

(* reference(forURL:) is asked for some of the pictures, and calls         *)
(* fatalError for one whose URL cannot be parsed or is of another bucket.  *)
URLTraps(s, pictures) == stray'[s] \cap pictures # {}

FetchDescription(s, rejected) ==
  /\ Is(s, "asked")
  /\ ~Decor(s)
  /\ Describes(s, Len(Chain(s)), rejected)
  /\ IF URLTraps(s, {1})
     THEN /\ crashed' = TRUE
          /\ UNCHANGED <<stage, expected, waiting>>
     ELSE /\ expected' = [expected EXCEPT ![s] = Len(Chain(s))]
          /\ waiting' = [waiting EXCEPT ![s] = {1}]
          /\ Goes(s, "downloading")
          /\ UNCHANGED crashed
  /\ UNCHANGED <<presented, arrived, fetchedImages, fetchedCount, groupCount, model, shows>>

(* leave: the group's block is posted when its count comes to zero, which  *)
(* for a description without pictures it is from the start.                *)
StageAfter(count) == IF count = 0 THEN "notified" ELSE "downloading"

(* The loop asks for all references before any download answers.           *)
FetchDecorDescription(s, n, rejected) ==
  /\ Is(s, "asked")
  /\ Decor(s)
  /\ Describes(s, n, rejected)
  /\ IF URLTraps(s, 1..n)
     THEN /\ crashed' = TRUE
          /\ UNCHANGED <<stage, expected, waiting, fetchedImages, groupCount>>
     ELSE /\ expected' = [expected EXCEPT ![s] = n]
          /\ waiting' = [waiting EXCEPT ![s] = 1..n]
          /\ fetchedImages' = [fetchedImages EXCEPT ![s] = [i \in 1..n |-> 0]]
          /\ groupCount' = [groupCount EXCEPT ![s] = n]
          /\ Goes(s, StageAfter(n))
          /\ UNCHANGED crashed
  /\ UNCHANGED <<presented, arrived, fetchedCount, model, shows>>

--------------------------------------------------------------------------------
(* One picture after the other. *)

(* The view model keeps what the sheet will show. *)
KeepModel(s, images) == model' = [model EXCEPT ![s] = images]

(* downloadImage has answered, with picture i or with none (0).            *)
NextInChain(s, i, image) ==
  /\ fetchedImages' = [fetchedImages EXCEPT ![s] = Append(@, image)]
  /\ IF i < Len(Chain(s))
     THEN /\ waiting' = [waiting EXCEPT ![s] = {i + 1}]
          /\ UNCHANGED <<stage, model>>
     ELSE /\ waiting' = [waiting EXCEPT ![s] = {}]
          /\ KeepModel(s, fetchedImages'[s])
          /\ Goes(s, "loaded")
  /\ UNCHANGED <<presented, expected, stray, fetchedCount, groupCount, shows, crashed>>

DownloadImage(s, i) ==
  /\ Is(s, "downloading")
  /\ ~Decor(s)
  /\ i \in waiting[s]
  /\ i + 1 \notin stray[s]
  /\ arrived' = [arrived EXCEPT ![s] = @ \cup {i}]
  /\ NextInChain(s, i, i)

(* Picture i has come, and the URL of the next one ends the process: what  *)
(* the completion did before is gone with it.                              *)
NextURLTraps(s, i) ==
  /\ Is(s, "downloading")
  /\ ~Decor(s)
  /\ i \in waiting[s]
  /\ i + 1 \in stray[s]
  /\ crashed' = TRUE
  /\ UNCHANGED <<presented, stage, loadVars, model, shows>>

FailureIsSkipped(s, i) ==
  /\ Is(s, "downloading")
  /\ ~Decor(s)
  /\ i \in waiting[s]
  /\ NextInChain(s, i, 0)
  /\ UNCHANGED arrived

(* completion(false): the first picture that is missing ends the load. *)
DownloadFails(s, i) ==
  /\ Is(s, "downloading")
  /\ ~Decor(s)
  /\ i \in waiting[s]
  /\ waiting' = [waiting EXCEPT ![s] = {}]
  /\ Goes(s, "failed")
  /\ UNCHANGED <<presented, expected, stray, arrived, fetchedImages, fetchedCount, groupCount,
                 model, shows, crashed>>

--------------------------------------------------------------------------------
(* All at once. *)

(* An answered download of a decoration leaves the group. *)
Leave(s, i) ==
  /\ Is(s, "downloading")
  /\ Decor(s)
  /\ i \in waiting[s]
  /\ waiting' = [waiting EXCEPT ![s] = @ \ {i}]
  /\ groupCount' = [groupCount EXCEPT ![s] = @ - 1]
  /\ Goes(s, StageAfter(groupCount'[s]))
  /\ UNCHANGED <<presented, expected, stray, model, shows, crashed>>

Count(s) == fetchedCount' = [fetchedCount EXCEPT ![s] = @ + 1]

PicturesInOrderOfArrival(s, i) ==
  /\ Leave(s, i)
  /\ Count(s)
  /\ arrived' = [arrived EXCEPT ![s] = @ \cup {i}]
  /\ fetchedImages' = [fetchedImages EXCEPT ![s][fetchedCount'[s]] = i]

(* fetchedImages[index] = image: the picture goes to its own place. *)
DownloadDecorImage(s, i) ==
  /\ Leave(s, i)
  /\ Count(s)
  /\ arrived' = [arrived EXCEPT ![s] = @ \cup {i}]
  /\ fetchedImages' = [fetchedImages EXCEPT ![s][i] = i]

OnlyPicturesCount(s, i) ==
  /\ Leave(s, i)
  /\ UNCHANGED <<arrived, fetchedImages, fetchedCount>>

FailureForgetsLeave(s, i) ==
  /\ Is(s, "downloading")
  /\ Decor(s)
  /\ i \in waiting[s]
  /\ waiting' = [waiting EXCEPT ![s] = @ \ {i}]
  /\ Count(s)
  /\ UNCHANGED <<presented, stage, expected, stray, arrived, fetchedImages, groupCount,
                 model, shows, crashed>>

(* A missing picture counts as an answer, and its place stays empty. *)
DecorDownloadFails(s, i) ==
  /\ Leave(s, i)
  /\ Count(s)
  /\ UNCHANGED <<arrived, fetchedImages>>

(* The group's block. *)
Notify(s) ==
  /\ Is(s, "notified")
  /\ IF fetchedCount[s] = expected[s]
     THEN KeepModel(s, fetchedImages[s]) /\ Goes(s, "loaded")
     ELSE Goes(s, "failed") /\ UNCHANGED model
  /\ UNCHANGED <<presented, loadVars, shows, crashed>>

--------------------------------------------------------------------------------

Fetch(s) ==
  \/ FetchFindsNothing(s)
  \/ \E rejected \in StrayPictures :
       \/ FetchDescription(s, rejected)
       \/ \E n \in PictureCounts : FetchDecorDescription(s, n, rejected)

Download(s) == \E i \in waiting[s] :
  \/ DownloadImage(s, i) \/ NextURLTraps(s, i) \/ DownloadFails(s, i)
  \/ DownloadDecorImage(s, i) \/ DecorDownloadFails(s, i)

Next == \/ Dismiss
        \/ \E s \in Sheets : \/ DidSelectRow(s)
                             \/ Fetch(s) \/ Download(s)
                             \/ Notify(s) \/ UpdateUI(s)

Spec == Init /\ [][Next]_vars

(* Queries and downloads are answered, with an error at the latest when    *)
(* the client gives up, and the blocks on the main queue run.              *)
Fairness == \A s \in Sheets : /\ WF_vars(Fetch(s))
                              /\ WF_vars(Download(s))
                              /\ WF_vars(Notify(s))
                              /\ WF_vars(UpdateUI(s))

LiveSpec == Spec /\ Fairness

--------------------------------------------------------------------------------

(* A DJ, BAR or FOTO sheet leaves its spinner only with all its pictures:  *)
(* the guards of populate*DescriptionModel end the load at the first one   *)
(* that is missing.                                                        *)
ShownIsComplete ==
  \A s \in Sheets : stage[s] = "shown" /\ ~Decor(s) =>
    /\ shows[s] = [i \in 1..Len(Chain(s)) |-> i]
    /\ arrived[s] = 1..Len(Chain(s))

(* The pictures of a decoration arrive in any order and some do not; each  *)
(* of the five places holds its own picture, and is empty if and only if   *)
(* that download failed.                                                   *)
PicturesInTheirPlace ==
  \A s \in Sheets : stage[s] = "shown" /\ Decor(s) =>
    shows[s] = [i \in 1..5 |-> IF i \in arrived[s] THEN i ELSE 0]

(* Unlike the other sheets, a decoration never stays behind its spinner    *)
(* for a missing picture, only for a missing description: a failed         *)
(* download is counted in fetchedCount too.                                *)
MissingPicturesDoNotFail ==
  \A s \in Sheets : stage[s] = "failed" /\ Decor(s) => expected[s] = 0

(* The app dies of a sheet for three reasons only.  A decoration with      *)
(* fewer than five pictures in its description dies when it is shown, and  *)
(* never for pictures that did not come.  A decoration with a URL that     *)
(* Storage rejects dies before it downloads anything; another sheet dies   *)
(* when it comes to that URL, with all the pictures before it and no more. *)
(* So what is shown has come from URLs that Storage accepts.               *)
CrashHasItsCause ==
  /\ crashed => \E s \in Sheets :
       \/ Decor(s) /\ stage[s] = "loaded" /\ expected[s] < 5
       \/ Decor(s) /\ stage[s] = "asked" /\ stray[s] # {}
       \/ ~Decor(s) /\ stage[s] = "asked" /\ 1 \in stray[s]
       \/ ~Decor(s) /\ stage[s] = "downloading" /\ \E k \in stray[s] : waiting[s] = {k - 1}
  /\ \A s \in Sheets : stage[s] \in {"notified", "loaded", "shown"} => stray[s] = {}

(* A load comes to an end, whatever fails, in whatever order it answers,   *)
(* and also after the sheet was swiped away.                               *)
LoadingEnds ==
  \A s \in Sheets : stage[s] = "asked" ~> stage[s] \in {"shown", "failed"} \/ crashed

================================================================================
