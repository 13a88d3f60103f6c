---------------------------- MODULE CatalogueProofs ----------------------------
(***************************************************************************)
(* Safety of Catalogue for any finite set of documents, whatever their     *)
(* services, prices and titles.                                            *)
(*                                                                         *)
(* The group counts exactly the unanswered downloads, so its block runs    *)
(* when there is none; up to there each array holds the pictures of its    *)
(* service in the order of arrival, and sorting permutes it.  Past the     *)
(* query, every URL that was to be downloaded is known to be good.         *)
(***************************************************************************)
EXTENDS Catalogue, FiniteSetTheorems, TLAPS

(* The options of a service, each once. *)
Holds(k, s) ==
  /\ IsInjective(s)
  /\ Range(s) = {d \in pictures : Service[d] = Category[k]}

CountOk ==
  /\ groupCount = Cardinality(downloading)
  /\ stage # "downloading" => downloading = {}
  /\ stage = "asked" => pictures = {}
  /\ downloading \cap pictures = {}

ArraysOk == \A k \in Sections : Holds(k, serviceOptions[k])

(* The loop of populateServicesModels has come to its end only if no URL   *)
(* has ended the process.                                                  *)
OptionsOk == stage # "asked" => ~SomeURLTraps(options)

PublishedOk ==
  /\ servicesSections # <<>> <=> stage \in {"loaded", "shown"}
  /\ servicesSections # <<>> => /\ servicesSections = serviceOptions
                                /\ \A k \in Sections : IsSorted(k, servicesSections[k])
  /\ buttonsEnabled => stage = "shown"

IInv == TypeOK /\ CountOk /\ ArraysOk /\ OptionsOk /\ PublishedOk /\ CrashHasItsCause

LEMMA SectionsAre == Sections = 1..4
BY DEF Sections, Category

LEMMA InitIInv == Init => IInv
<1> SUFFICES ASSUME Init PROVE IInv
  OBVIOUS
<1>1. IsFiniteSet(Documents) /\ Cardinality(Documents) \in Nat
  BY CatalogueAssumption, FS_CardinalityType
<1>2. TypeOK
  <2>1. {spinner, buttonsEnabled, onScreen, crashed} \subseteq BOOLEAN
    BY DEF Init
  <2>2. groupCount \in 0..Cardinality(Documents)
    BY <1>1 DEF Init
  <2>3. QED
    BY <2>1, <2>2 DEF Init, TypeOK, Stage
<1>3. CountOk
  BY FS_EmptySet DEF Init, CountOk
<1>4. ArraysOk /\ OptionsOk
  BY DEF Init, ArraysOk, OptionsOk, Holds, IsInjective, Range
<1>5. PublishedOk /\ CrashHasItsCause
  BY DEF Init, PublishedOk, CrashHasItsCause
<1>6. QED
  BY <1>2, <1>3, <1>4, <1>5 DEF IInv

--------------------------------------------------------------------------------
(* The view model. *)

(* The URLs are good: the downloads start, as many as the group counts.    *)
LEMMA DownloadsStartKeeps ==
  ASSUME IInv, NEW found \in SUBSET Documents, FetchServices(found), ~SomeURLTraps(options')
  PROVE  IInv'
<1> DEFINE known == {d \in options' : IsOfSection(d)}
<1>1. /\ ~crashed /\ stage = "asked"
      /\ options' = found \cap Decodable
      /\ downloading' = known
      /\ groupCount' = Cardinality(known)
      /\ stage' = StageAfter(groupCount')
      /\ UNCHANGED <<serviceOptions, servicesSections, pictures, spinner, buttonsEnabled,
                     onScreen, crashed>>
  BY DEF FetchServices, PopulateServicesModels
<1>2. options' \subseteq Documents /\ known \subseteq Documents
  BY <1>1
<1>3. /\ IsFiniteSet(known) /\ Cardinality(known) \in Nat
      /\ Cardinality(known) <= Cardinality(Documents)
      /\ Cardinality(Documents) \in Nat
      /\ Cardinality(known) = 0 => known = {}
  BY <1>2, CatalogueAssumption, FS_Subset, FS_CardinalityType, FS_EmptySet
<1>4. TypeOK'
  <2>1. groupCount' \in 0..Cardinality(Documents)
    BY <1>1, <1>3
  <2>2. stage' \in Stage
    BY <1>1 DEF StageAfter, Stage
  <2>3. QED
    BY <1>1, <1>2, <2>1, <2>2 DEF IInv, TypeOK
<1>5. CountOk'
  BY <1>1, <1>3 DEF IInv, CountOk, StageAfter
<1>6. ArraysOk' /\ PublishedOk'
  BY <1>1 DEF IInv, ArraysOk, Holds, PublishedOk, StageAfter
<1>7. OptionsOk' /\ CrashHasItsCause'
  <2>1. (~SomeURLTraps(options))'
    BY DEF SomeURLTraps, IsOfSection, HasNoReference
  <2>2. servicesSections' = <<>> /\ ~crashed'
    BY <1>1 DEF IInv, PublishedOk
  <2>3. QED
    BY <2>1, <2>2 DEF OptionsOk, CrashHasItsCause
<1>8. QED
  BY <1>4, <1>5, <1>6, <1>7 DEF IInv

(* reference(forURL:) ends the process before anything is downloaded.      *)
LEMMA URLTrapKeeps ==
  ASSUME IInv, NEW found \in SUBSET Documents, FetchServices(found), SomeURLTraps(options')
  PROVE  IInv'
<1>1. /\ stage = "asked"
      /\ options' = found \cap Decodable
      /\ crashed' = TRUE
      /\ UNCHANGED <<stage, downloading, groupCount, serviceOptions, servicesSections, pictures,
                     spinner, buttonsEnabled, onScreen>>
  BY DEF FetchServices, PopulateServicesModels
<1>2. TypeOK'
  <2>1. {spinner', buttonsEnabled', onScreen', crashed'} \subseteq BOOLEAN
    BY <1>1 DEF IInv, TypeOK
  <2>2. QED
    BY <1>1, <2>1 DEF IInv, TypeOK
<1>3. CountOk' /\ ArraysOk' /\ OptionsOk' /\ PublishedOk'
  BY <1>1 DEF IInv, CountOk, ArraysOk, OptionsOk, Holds, PublishedOk
<1>4. CrashHasItsCause'
  <2>1. \E d \in options' : Service[d] \in Range(Category) /\ d \notin InBucket
    BY DEF SomeURLTraps, IsOfSection, HasNoReference
  <2>2. stage' = "asked" /\ servicesSections' = <<>>
    BY <1>1 DEF IInv, PublishedOk
  <2>3. QED
    BY <2>1, <2>2 DEF CrashHasItsCause
<1>5. QED
  BY <1>2, <1>3, <1>4 DEF IInv

LEMMA FetchServicesKeeps ==
  ASSUME IInv, NEW found \in SUBSET Documents, FetchServices(found)
  PROVE  IInv'
BY DownloadsStartKeeps, URLTrapKeeps

(* One answer less to wait for.                                            *)
LEMMA LeaveKeeps ==
  ASSUME TypeOK, CountOk, NEW d \in downloading,
         downloading' = downloading \ {d}, groupCount' = groupCount - 1,
         stage' = StageAfter(groupCount'),
         pictures' \in {pictures, pictures \cup {d}}
  PROVE  /\ CountOk'
         /\ groupCount' \in 0..Cardinality(Documents) /\ stage' \in Stage
         /\ downloading' \subseteq Documents /\ pictures' \subseteq Documents
         /\ stage' \in {"downloading", "notified"} /\ stage = "downloading"
<1>1. downloading \subseteq Documents /\ pictures \subseteq Documents /\ d \in Documents
  BY DEF TypeOK
<1>2. IsFiniteSet(downloading) /\ IsFiniteSet(downloading \ {d})
  BY <1>1, CatalogueAssumption, FS_Subset
<1>3. /\ Cardinality(downloading \ {d}) = Cardinality(downloading) - 1
      /\ Cardinality(downloading \ {d}) \in Nat
      /\ Cardinality(downloading) <= Cardinality(Documents)
      /\ Cardinality(downloading) \in Nat /\ Cardinality(Documents) \in Nat
  BY <1>1, <1>2, CatalogueAssumption, FS_RemoveElement, FS_CardinalityType, FS_Subset
<1>4. groupCount = Cardinality(downloading) /\ stage = "downloading"
  BY DEF CountOk
<1>5. groupCount' = Cardinality(downloading \ {d}) /\ groupCount' \in 0..Cardinality(Documents)
  BY <1>3, <1>4
<1>6. stage' \in {"downloading", "notified"}
      /\ (stage' = "notified" => downloading \ {d} = {})
  BY <1>2, <1>5, FS_EmptySet DEF StageAfter
<1>7. CountOk'
  BY <1>5, <1>6 DEF CountOk
<1>8. QED
  BY <1>1, <1>4, <1>5, <1>6, <1>7 DEF Stage

(* The answer of the query is not touched again. *)
LEMMA GoodOptionsStay ==
  ASSUME OptionsOk, stage # "asked", UNCHANGED options
  PROVE  OptionsOk'
BY DEF OptionsOk, SomeURLTraps, IsOfSection, HasNoReference

LEMMA DownloadFailsKeeps ==
  ASSUME IInv, NEW d \in Documents, DownloadFails(d)
  PROVE  IInv'
<1>1. /\ ~crashed /\ d \in downloading
      /\ downloading' = downloading \ {d}
      /\ groupCount' = groupCount - 1
      /\ stage' = StageAfter(groupCount')
      /\ UNCHANGED <<options, serviceOptions, servicesSections, pictures, viewVars>>
  BY DEF DownloadFails
<1>2. /\ CountOk'
      /\ groupCount' \in 0..Cardinality(Documents) /\ stage' \in Stage
      /\ downloading' \subseteq Documents /\ pictures' \subseteq Documents
      /\ stage' \in {"downloading", "notified"} /\ stage = "downloading"
  BY <1>1, LeaveKeeps DEF IInv
<1>3. TypeOK'
  BY <1>1, <1>2 DEF IInv, TypeOK, viewVars
<1>4. ArraysOk' /\ PublishedOk'
  BY <1>1, <1>2 DEF IInv, ArraysOk, Holds, PublishedOk, viewVars
<1>5. OptionsOk' /\ CrashHasItsCause'
  BY <1>1, <1>2, GoodOptionsStay DEF IInv, CrashHasItsCause, PublishedOk, viewVars
<1>6. QED
  BY <1>2, <1>3, <1>4, <1>5 DEF IInv

(* A picture that has just arrived is not in its array yet.                *)
LEMMA AppendHolds ==
  ASSUME NEW S, NEW s \in Seq(S), NEW d \in S, IsInjective(s), d \notin Range(s)
  PROVE  /\ Append(s, d) \in Seq(S)
         /\ IsInjective(Append(s, d))
         /\ Range(Append(s, d)) = Range(s) \cup {d}
<1>1. /\ Len(s) \in Nat /\ DOMAIN s = 1..Len(s)
      /\ DOMAIN Append(s, d) = 1..(Len(s) + 1)
      /\ \A i \in 1..Len(s) : Append(s, d)[i] = s[i]
      /\ Append(s, d)[Len(s) + 1] = d
      /\ Append(s, d) \in Seq(S)
  OBVIOUS
<1>2. \A i \in 1..(Len(s) + 1) : i \in 1..Len(s) \/ i = Len(s) + 1
  BY <1>1
<1>3. IsInjective(Append(s, d))
  BY <1>1, <1>2 DEF IsInjective, Range
<1>4. Range(Append(s, d)) = Range(s) \cup {d}
  BY <1>1, <1>2 DEF Range
<1>5. QED
  BY <1>1, <1>3, <1>4

LEMMA DownloadImageKeeps ==
  ASSUME IInv, NEW d \in Documents, DownloadImage(d)
  PROVE  IInv'
<1> DEFINE Joined(k) == IF Category[k] = Service[d] THEN Append(serviceOptions[k], d)
                                                    ELSE serviceOptions[k]
<1>1. /\ ~crashed /\ d \in downloading
      /\ downloading' = downloading \ {d}
      /\ pictures' = pictures \cup {d}
      /\ serviceOptions' = [k \in Sections |-> Joined(k)]
      /\ groupCount' = groupCount - 1
      /\ stage' = StageAfter(groupCount')
      /\ UNCHANGED <<options, servicesSections, viewVars>>
  BY DEF DownloadImage
<1>2. /\ CountOk'
      /\ groupCount' \in 0..Cardinality(Documents) /\ stage' \in Stage
      /\ downloading' \subseteq Documents /\ pictures' \subseteq Documents
      /\ stage' \in {"downloading", "notified"} /\ stage = "downloading"
  BY <1>1, LeaveKeeps DEF IInv
<1>3. d \notin pictures
  BY <1>1 DEF IInv, CountOk
<1>4. ASSUME NEW k \in Sections
      PROVE  Joined(k) \in Seq(Documents) /\ Holds(k, serviceOptions[k])
             /\ IsInjective(Joined(k))
             /\ Range(Joined(k)) = {e \in pictures \cup {d} : Service[e] = Category[k]}
  <2>1. serviceOptions[k] \in Seq(Documents) /\ Holds(k, serviceOptions[k])
    BY DEF IInv, TypeOK, ArraysOk
  <2>2. d \notin Range(serviceOptions[k])
    BY <1>3, <2>1 DEF Holds
  <2>3. CASE Category[k] = Service[d]
    BY <2>1, <2>2, <2>3, AppendHolds DEF Holds
  <2>4. CASE Category[k] # Service[d]
    BY <2>1, <2>4 DEF Holds
  <2>5. QED
    BY <2>3, <2>4
<1>5. ArraysOk'
  BY <1>1, <1>4 DEF ArraysOk, Holds
<1>6. TypeOK'
  <2>1. serviceOptions' \in [Sections -> Seq(Documents)]
    BY <1>1, <1>4
  <2>2. QED
    BY <1>1, <1>2, <2>1 DEF IInv, TypeOK, viewVars
<1>7. PublishedOk' /\ OptionsOk' /\ CrashHasItsCause'
  BY <1>1, <1>2, GoodOptionsStay DEF IInv, PublishedOk, CrashHasItsCause, viewVars
<1>8. QED
  BY <1>2, <1>5, <1>6, <1>7 DEF IInv

(* Sorting permutes: nothing is lost and nothing comes twice.              *)
LEMMA SortingPermutes ==
  ASSUME NEW k, NEW s \in Seq(Documents), NEW t \in Sorts(k, s), IsInjective(s)
  PROVE  /\ t \in Seq(Documents) /\ IsSorted(k, t)
         /\ IsInjective(t) /\ Range(t) = Range(s)
<1>1. PICK p \in Bijection(DOMAIN s, DOMAIN s) : t = [i \in DOMAIN s |-> s[p[i]]]
  BY DEF Sorts
<1>2. /\ DOMAIN s = 1..Len(s) /\ Len(s) \in Nat
      /\ \A i \in DOMAIN s : s[i] \in Documents
  OBVIOUS
<1>3. /\ p \in [DOMAIN s -> DOMAIN s] /\ IsInjective(p)
      /\ \A j \in DOMAIN s : \E i \in DOMAIN s : p[i] = j
  BY <1>1 DEF Bijection, Injection, Surjection
<1>4. t \in Seq(Documents)
  BY <1>1, <1>2, <1>3
<1>5. IsInjective(t)
  BY <1>1, <1>3 DEF IsInjective
<1>6. Range(t) = Range(s)
  BY <1>1, <1>3 DEF Range
<1>7. IsSorted(k, t)
  BY DEF Sorts
<1>8. QED
  BY <1>4, <1>5, <1>6, <1>7

LEMMA NotifyKeeps ==
  ASSUME IInv, Notify
  PROVE  IInv'
<1>1. /\ ~crashed /\ stage = "notified" /\ stage' = "loaded"
      /\ serviceOptions' = servicesSections'
      /\ UNCHANGED <<options, downloading, groupCount, pictures, viewVars>>
  BY DEF Notify
<1>2. PICK dj \in Sorts(1, serviceOptions[1]), bar \in Sorts(2, serviceOptions[2]),
           foto \in Sorts(3, serviceOptions[3]), decor \in Sorts(4, serviceOptions[4]) :
             servicesSections' = <<dj, bar, foto, decor>>
  BY DEF Notify
<1>3. /\ DOMAIN servicesSections' = 1..4
      /\ \A k \in Sections : servicesSections'[k] \in Sorts(k, serviceOptions[k])
  BY <1>2, SectionsAre
<1>4. ASSUME NEW k \in Sections
      PROVE  /\ servicesSections'[k] \in Seq(Documents) /\ IsSorted(k, servicesSections'[k])
             /\ IsInjective(servicesSections'[k])
             /\ Range(servicesSections'[k]) = {d \in pictures : Service[d] = Category[k]}
  <2>1. serviceOptions[k] \in Seq(Documents) /\ Holds(k, serviceOptions[k])
    BY DEF IInv, TypeOK, ArraysOk
  <2>2. QED
    BY <1>3, <2>1, SortingPermutes DEF Holds
<1>5. servicesSections' \in [Sections -> Seq(Documents)]
  <2>1. servicesSections' = [k \in Sections |-> servicesSections'[k]]
    BY <1>2, SectionsAre
  <2>2. QED
    BY <1>4, <2>1
<1>6. TypeOK'
  BY <1>1, <1>5 DEF IInv, TypeOK, viewVars, Stage
<1>7. CountOk'
  BY <1>1 DEF IInv, CountOk
<1>8. ArraysOk'
  BY <1>1, <1>4 DEF ArraysOk, Holds
<1>9. PublishedOk'
  <2>1. servicesSections' # <<>>
    BY <1>2
  <2>2. \A k \in Sections : IsSorted(k, servicesSections[k])'
    BY <1>4 DEF IsSorted, SortKey
  <2>3. QED
    BY <1>1, <2>1, <2>2 DEF IInv, PublishedOk, viewVars
<1>10. OptionsOk' /\ CrashHasItsCause'
  <2>1. OptionsOk' /\ ~SomeURLTraps(options)
    BY <1>1, GoodOptionsStay DEF IInv, OptionsOk
  <2>2. QED
    BY <1>1, <2>1 DEF CrashHasItsCause, SomeURLTraps, IsOfSection, HasNoReference, viewVars
<1>11. QED
  BY <1>6, <1>7, <1>8, <1>9, <1>10 DEF IInv

--------------------------------------------------------------------------------
(* The view. *)

LEMMA ReloadKeeps ==
  ASSUME IInv, Reload
  PROVE  IInv'
<1>1. /\ ~crashed /\ stage = "loaded" /\ stage' = "shown" /\ spinner' = FALSE /\ buttonsEnabled' = TRUE
      /\ UNCHANGED <<options, downloading, groupCount, serviceOptions, servicesSections, pictures,
                     onScreen, crashed>>
  BY DEF Reload
<1>2. TypeOK'
  <2>1. {spinner', buttonsEnabled', onScreen', crashed'} \subseteq BOOLEAN
    BY <1>1 DEF IInv, TypeOK
  <2>2. QED
    BY <1>1, <2>1 DEF IInv, TypeOK, Stage
<1>3. CountOk' /\ ArraysOk' /\ OptionsOk' /\ PublishedOk' /\ CrashHasItsCause'
  BY <1>1 DEF IInv, CountOk, ArraysOk, OptionsOk, SomeURLTraps, Holds, PublishedOk, IsSorted,
              SortKey, CrashHasItsCause
<1>4. QED
  BY <1>2, <1>3 DEF IInv

(* Row 0 of a section that is shown is missing only if no picture of its   *)
(* service has come.                                                       *)
LEMMA RowZeroKeeps ==
  ASSUME IInv, NEW k \in Sections, stage = "shown", crashed' = ~HasRow(k),
         UNCHANGED <<modelVars, spinner, buttonsEnabled, onScreen>>
  PROVE  IInv'
<1>1. /\ UNCHANGED <<stage, options, downloading, groupCount, serviceOptions, servicesSections,
                     pictures>>
      /\ UNCHANGED <<spinner, buttonsEnabled, onScreen>>
  BY DEF modelVars
<1>2. TypeOK'
  <2>1. crashed' \in BOOLEAN
    OBVIOUS
  <2>2. {spinner', buttonsEnabled', onScreen', crashed'} \subseteq BOOLEAN
    BY <1>1, <2>1 DEF IInv, TypeOK
  <2>3. QED
    BY <1>1, <2>2 DEF IInv, TypeOK
<1>3. CountOk' /\ ArraysOk' /\ OptionsOk' /\ PublishedOk'
  BY <1>1 DEF IInv, CountOk, ArraysOk, OptionsOk, SomeURLTraps, Holds, PublishedOk, IsSorted,
              SortKey
<1>4. CrashHasItsCause'
  <2>1. SUFFICES ASSUME ~HasRow(k)
                 PROVE  \A d \in pictures : Service[d] # Category[k]
    BY <1>1 DEF IInv, CrashHasItsCause
  <2>2. servicesSections # <<>> /\ servicesSections = serviceOptions
    BY DEF IInv, PublishedOk
  <2>3. DOMAIN servicesSections = Sections
    BY <2>2 DEF IInv, TypeOK
  <2>4. servicesSections[k] = <<>>
    BY <2>1, <2>3 DEF HasRow
  <2>5. Range(servicesSections[k]) = {}
    BY <2>4 DEF Range
  <2>6. Range(servicesSections[k]) = {d \in pictures : Service[d] = Category[k]}
    BY <2>2 DEF IInv, ArraysOk, Holds
  <2>7. QED
    BY <2>5, <2>6
<1>5. QED
  BY <1>2, <1>3, <1>4 DEF IInv

LEMMA StayKeeps ==
  ASSUME IInv, UNCHANGED <<modelVars, spinner, buttonsEnabled, crashed>>, onScreen' \in BOOLEAN
  PROVE  IInv'
<1>1. /\ UNCHANGED <<stage, options, downloading, groupCount, serviceOptions, servicesSections,
                     pictures>>
      /\ UNCHANGED <<spinner, buttonsEnabled, crashed>>
  BY DEF modelVars
<1>2. TypeOK'
  <2>1. {spinner', buttonsEnabled', onScreen', crashed'} \subseteq BOOLEAN
    BY <1>1 DEF IInv, TypeOK
  <2>2. QED
    BY <1>1, <2>1 DEF IInv, TypeOK
<1>3. CountOk' /\ ArraysOk' /\ OptionsOk' /\ PublishedOk' /\ CrashHasItsCause'
  BY <1>1 DEF IInv, CountOk, ArraysOk, OptionsOk, SomeURLTraps, Holds, PublishedOk, IsSorted,
              SortKey, CrashHasItsCause
<1>4. QED
  BY <1>2, <1>3 DEF IInv

--------------------------------------------------------------------------------

LEMMA NextKeepsIInv ==
  IInv /\ [Next]_vars => IInv'
<1> SUFFICES ASSUME IInv, [Next]_vars PROVE IInv'
  OBVIOUS
<1>1. CASE UNCHANGED vars
  BY <1>1, StayKeeps DEF vars, viewVars, IInv, TypeOK
<1>2. ASSUME NEW found \in SUBSET Documents, FetchServices(found) PROVE IInv'
  BY <1>2, FetchServicesKeeps
<1>3. ASSUME NEW d \in Documents, DownloadImage(d) \/ DownloadFails(d) PROVE IInv'
  BY <1>3, DownloadImageKeeps, DownloadFailsKeeps
<1>4. CASE Notify
  BY <1>4, NotifyKeeps
<1>5. CASE Reload
  BY <1>5, ReloadKeeps
<1>6. ASSUME NEW k \in Sections, TitleForHeader(k) PROVE IInv'
  BY <1>6, RowZeroKeeps DEF TitleForHeader
<1>7. ASSUME NEW k \in Sections, DidTapSectionButton(k) PROVE IInv'
  <2>1. stage = "shown"
    BY <1>7 DEF DidTapSectionButton, IInv, PublishedOk
  <2>2. QED
    BY <1>7, <2>1, RowZeroKeeps DEF DidTapSectionButton
<1>8. CASE DidTapBack
  BY <1>8, StayKeeps DEF DidTapBack
<1>9. QED
  BY <1>1, <1>2, <1>3, <1>4, <1>5, <1>6, <1>7, <1>8 DEF Next

LEMMA IInvHolds == Spec => []IInv
<1>1. QED
  BY InitIInv, NextKeepsIInv, PTL DEF Spec

--------------------------------------------------------------------------------

(* Every variable keeps to its type; the group's count is never negative   *)
(* and never above the number of documents.                                *)
THEOREM TypeCorrect == Spec => []TypeOK
<1>1. IInv => TypeOK
  BY DEF IInv
<1>2. QED
  BY <1>1, IInvHolds, PTL

(* The sections are the pictures that came, each once, sorted: whatever    *)
(* the order of the answers and whichever of them failed.                  *)
THEOREM SectionsCorrect == Spec => []SectionsHoldThePictures
<1>1. IInv => SectionsHoldThePictures
  <2> SUFFICES ASSUME IInv, servicesSections # <<>>, NEW k \in Sections
               PROVE  /\ Holds(k, servicesSections[k])
                      /\ \A i, j \in DOMAIN servicesSections[k] : i < j =>
                           LET first == servicesSections[k][i]
                               later == servicesSections[k][j] IN
                             IF k = 4 THEN Title[first] <= Title[later]
                                      ELSE Price[first] <= Price[later]
    BY DEF SectionsHoldThePictures, Holds
  <2>1. Holds(k, servicesSections[k]) /\ IsSorted(k, servicesSections[k])
    BY DEF IInv, PublishedOk, ArraysOk
  <2>2. Category[k] = "DECOR" <=> k = 4
    BY SectionsAre DEF Category
  <2>3. QED
    BY <2>1, <2>2 DEF IsSorted, SortKey
<1>2. QED
  BY <1>1, IInvHolds, PTL

(* The block of the group runs once, after the last answer, and nothing    *)
(* touches the sections again.                                             *)
THEOREM Final == Spec => SectionsAreFinal
<1>1. IInv => (servicesSections # <<>> => downloading = {})
  BY DEF IInv, PublishedOk, CountOk
<1>2. IInv /\ [Next]_vars
        => [servicesSections # <<>> => UNCHANGED <<servicesSections, pictures>>]_vars
  <2> SUFFICES ASSUME IInv, Next, servicesSections # <<>>
               PROVE  UNCHANGED <<servicesSections, pictures>>
    OBVIOUS
  <2>1. stage \in {"loaded", "shown"} /\ downloading = {}
    BY DEF IInv, PublishedOk, CountOk
  <2>2. QED
    BY <2>1 DEF Next, FetchServices, DownloadImage, DownloadFails, Notify, Reload,
                TitleForHeader, DidTapSectionButton, DidTapBack, modelVars
<1>3. QED
  BY <1>1, <1>2, IInvHolds, PTL DEF Spec, SectionsAreFinal

(* The process dies only of a URL that Storage.reference(forURL:) rejects, *)
(* and then before anything is shown, or of the subscript [0] of a header  *)
(* or of a section button, where a service has no picture at all.          *)
THEOREM TrapsExactly == Spec => []CrashHasItsCause
<1>1. IInv => CrashHasItsCause
  BY DEF IInv
<1>2. QED
  BY <1>1, IInvHolds, PTL

================================================================================
