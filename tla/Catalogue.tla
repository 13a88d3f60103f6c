------------------------------- MODULE Catalogue -------------------------------
(***************************************************************************)
(* Loading the services of one event: ServicesViewModel.getServices, and   *)
(* the table of the ServicesViewController that shows the result.          *)
(*                                                                         *)
(* One query answers with documents; one picture is downloaded for each,   *)
(* all at once; a DispatchGroup counts the downloads and posts one block   *)
(* to the main queue when none is left.  Answers arrive in any order, on   *)
(* the main thread.                                                        *)
(***************************************************************************)
EXTENDS Integers, Sequences, FiniteSets, Functions

CONSTANTS Documents,  \* the option documents of the event
          Decodable,  \* those that decode as ServiceOptions
          InBucket,   \* those whose "imageURL" names an object of the app's bucket
          Service,    \* the "service" field of each document
          Price,      \* the "price" field of each document
          Title       \* the rank of the "title" field among the titles

Category == <<"DJ", "BAR", "FOTO", "DECOR">>
Sections == DOMAIN Category

ASSUME CatalogueAssumption ==
  /\ IsFiniteSet(Documents)
  /\ Decodable \subseteq Documents
  /\ InBucket \subseteq Documents
  /\ Service \in [Documents -> STRING]
  /\ Price \in [Documents -> Int]
  /\ Title \in [Documents -> Int]

VARIABLES stage,            \* how far getServices has come
          options,          \* ServicesViewModel.serviceOptions: the query's answer
          downloading,      \* documents whose picture is unanswered
          groupCount,       \* the DispatchGroup's count of enter minus leave
          serviceOptions,   \* serviceOptionsDJ, -Bar, -Foto and -Decor
          servicesSections, \* ServicesViewModel.servicesSections
          pictures,         \* documents whose picture has arrived, ever
          spinner,          \* the activity indicator is animating
          buttonsEnabled,   \* the four section buttons
          onScreen,         \* the controller has not been popped
          crashed           \* an index out of range or a fatalError has ended the process

modelVars == <<stage, options, downloading, groupCount, serviceOptions, servicesSections,
               pictures>>
viewVars == <<spinner, buttonsEnabled, onScreen, crashed>>
vars == <<modelVars, viewVars>>

(* "asked" for documents; "downloading"; "notified": the group's block is  *)
(* on the main queue; "loaded": the reload is; "shown".                    *)
Stage == {"asked", "downloading", "notified", "loaded", "shown"}

TypeOK ==
  /\ stage \in Stage
  /\ options \subseteq Documents
  /\ downloading \subseteq Documents
  /\ groupCount \in 0..Cardinality(Documents)
  /\ serviceOptions \in [Sections -> Seq(Documents)]
  /\ servicesSections \in {<<>>} \cup [Sections -> Seq(Documents)]
  /\ pictures \subseteq Documents
  /\ {spinner, buttonsEnabled, onScreen, crashed} \subseteq BOOLEAN

(* viewDidLoad: the buttons are disabled and loadAllData asks. *)
Init ==
  /\ stage = "asked"
  /\ options = {}
  /\ downloading = {}
  /\ groupCount = 0
  /\ serviceOptions = [k \in Sections |-> <<>>]
  /\ servicesSections = <<>>
  /\ pictures = {}
  /\ spinner = TRUE
  /\ buttonsEnabled = FALSE
  /\ onScreen = TRUE
  /\ crashed = FALSE

--------------------------------------------------------------------------------
(* The view model. *)

(* Faulty variants, named for the fault, stand before the definition they  *)
(* vary; no specification uses them.                                       *)
NotifyBeforeLast(count) == IF count <= 1 THEN "notified" ELSE "downloading"

(* leave: the group's block is posted when its count comes to zero.        *)
StageAfter(count) == IF count = 0 THEN "notified" ELSE "downloading"

IsOfSection(d) == Service[d] \in Range(Category)

(* Storage.reference(forURL:) calls fatalError for a URL it cannot parse   *)
(* and for one of another bucket.                                          *)
HasNoReference(d) == d \notin InBucket

AnyURLTraps(services) == \E d \in services : HasNoReference(d)

(* The loop asks for a reference for the documents of a known service      *)
(* only.                                                                   *)
SomeURLTraps(services) == \E d \in services : IsOfSection(d) /\ HasNoReference(d)

(* populateServicesModels: one download for each document of a known       *)
(* service, unless the URL of one ends the process.  The loop enters the   *)
(* group for the others too, and leaves it.                                *)
PopulateServicesModels(services) ==
  LET known == {d \in services : IsOfSection(d)} IN
    IF SomeURLTraps(services)
    THEN /\ crashed' = TRUE
         /\ UNCHANGED <<stage, downloading, groupCount>>
    ELSE /\ downloading' = known
         /\ groupCount' = Cardinality(known)
         /\ stage' = StageAfter(groupCount')
         /\ UNCHANGED crashed

(* The query answers: with some documents (all of them, or what the cache  *)
(* has while offline), of which those that do not decode are skipped, or   *)
(* with an error, which counts as no documents.                            *)
FetchServices(found) ==
  /\ ~crashed
  /\ stage = "asked"
  /\ options' = found \cap Decodable
  /\ PopulateServicesModels(options')
  /\ UNCHANGED <<serviceOptions, servicesSections, pictures, spinner, buttonsEnabled, onScreen>>

FailureForgetsLeave(d) ==
  /\ ~crashed
  /\ d \in downloading
  /\ downloading' = downloading \ {d}
  /\ UNCHANGED <<stage, options, groupCount, serviceOptions, servicesSections, pictures, viewVars>>

(* downloadImage answers without a picture: leave, and nothing else.       *)
DownloadFails(d) ==
  /\ ~crashed
  /\ d \in downloading
  /\ downloading' = downloading \ {d}
  /\ groupCount' = groupCount - 1
  /\ stage' = StageAfter(groupCount')
  /\ UNCHANGED <<options, serviceOptions, servicesSections, pictures, viewVars>>

(* A picture: the model joins the array of its service. *)
DownloadImage(d) ==
  /\ ~crashed
  /\ d \in downloading
  /\ downloading' = downloading \ {d}
  /\ pictures' = pictures \cup {d}
  /\ serviceOptions' = [k \in Sections |->
       IF Category[k] = Service[d] THEN Append(serviceOptions[k], d) ELSE serviceOptions[k]]
  /\ groupCount' = groupCount - 1
  /\ stage' = StageAfter(groupCount')
  /\ UNCHANGED <<options, servicesSections, viewVars>>

PriceForAll(k, d) == Price[d]

(* sort: by price, the decorations by title.  Documents that compare equal *)
(* may come out in either order.                                           *)
SortKey(k, d) == IF Category[k] = "DECOR" THEN Title[d] ELSE Price[d]

IsSorted(k, s) ==
  \A i, j \in DOMAIN s : i < j => SortKey(k, s[i]) <= SortKey(k, s[j])

Sorts(k, s) ==
  {t \in {[i \in DOMAIN s |-> s[p[i]]] : p \in Bijection(DOMAIN s, DOMAIN s)} : IsSorted(k, t)}

(* The group's block: sort, publish, and post the reload of the view.      *)
Notify ==
  /\ ~crashed
  /\ stage = "notified"
  /\ \E dj \in Sorts(1, serviceOptions[1]), bar \in Sorts(2, serviceOptions[2]),
        foto \in Sorts(3, serviceOptions[3]), decor \in Sorts(4, serviceOptions[4]) :
       servicesSections' = <<dj, bar, foto, decor>>
  /\ serviceOptions' = servicesSections'
  /\ stage' = "loaded"
  /\ UNCHANGED <<options, downloading, groupCount, pictures, viewVars>>

--------------------------------------------------------------------------------
(* The view. *)

Reload ==
  /\ ~crashed
  /\ stage = "loaded"
  /\ stage' = "shown"
  /\ spinner' = FALSE
  /\ buttonsEnabled' = TRUE
  /\ UNCHANGED <<options, downloading, groupCount, serviceOptions, servicesSections, pictures,
                 onScreen, crashed>>

HasRow(k) == k \in DOMAIN servicesSections /\ servicesSections[k] # <<>>

(* A section scrolls into view: titleForHeaderInSection reads its row 0.   *)
TitleForHeader(k) ==
  /\ ~crashed
  /\ onScreen
  /\ stage = "shown"
  /\ crashed' = ~HasRow(k)
  /\ UNCHANGED <<modelVars, spinner, buttonsEnabled, onScreen>>

ButtonOfNextSection(k) ==
  /\ ~crashed
  /\ onScreen
  /\ buttonsEnabled
  /\ crashed' = ~HasRow(k + 1)
  /\ UNCHANGED <<modelVars, spinner, buttonsEnabled, onScreen>>

(* didTapDJ, -Bar, -Foto and -Decor scroll to row 0 of their section.      *)
DidTapSectionButton(k) ==
  /\ ~crashed
  /\ onScreen
  /\ buttonsEnabled
  /\ crashed' = ~HasRow(k)
  /\ UNCHANGED <<modelVars, spinner, buttonsEnabled, onScreen>>

(* The pop does not cancel anything: the closures keep the controller.     *)
DidTapBack ==
  /\ ~crashed
  /\ onScreen
  /\ onScreen' = FALSE
  /\ UNCHANGED <<modelVars, spinner, buttonsEnabled, crashed>>

--------------------------------------------------------------------------------

Next ==
  \/ \E found \in SUBSET Documents : FetchServices(found)
  \/ \E d \in Documents : DownloadImage(d) \/ DownloadFails(d)
  \/ Notify
  \/ Reload
  \/ \E k \in Sections : TitleForHeader(k) \/ DidTapSectionButton(k)
  \/ DidTapBack

Spec == Init /\ [][Next]_vars

(* The query is answered, a download is retried for ten minutes at most    *)
(* and then answered with an error, and blocks on the main queue run.      *)
Fairness ==
  /\ WF_vars(\E found \in SUBSET Documents : FetchServices(found))
  /\ WF_vars(\E d \in Documents : DownloadImage(d) \/ DownloadFails(d))
  /\ WF_vars(Notify)
  /\ WF_vars(Reload)

LiveSpec == Spec /\ Fairness

--------------------------------------------------------------------------------

(* What a section shows is exactly the documents of its service whose      *)
(* picture has arrived, each once and in order, whatever order the         *)
(* pictures arrived in and whichever of them failed.                       *)
SectionsHoldThePictures ==
  servicesSections # <<>> =>
    \A k \in Sections :
      /\ IsInjective(servicesSections[k])
      /\ Range(servicesSections[k]) = {d \in pictures : Service[d] = Category[k]}
      /\ \A i, j \in DOMAIN servicesSections[k] : i < j =>
           LET first == servicesSections[k][i]  later == servicesSections[k][j] IN
             IF k = 4 THEN Title[first] <= Title[later] ELSE Price[first] <= Price[later]

(* The sections are published once, after the last download: the rows that *)
(* the addToCart closures index later are the rows the customer tapped.    *)
SectionsAreFinal ==
  /\ [](servicesSections # <<>> => downloading = {})
  /\ [][servicesSections # <<>> => UNCHANGED <<servicesSections, pictures>>]_vars

(* The app dies for two reasons only.  While it loads, of a document of    *)
(* one of the four services whose picture URL is not of the app's bucket:  *)
(* then nothing is ever shown, of any service.  On screen, of a service    *)
(* without a single picture; with one row in each section, every header    *)
(* and every section button is safe.                                       *)
CrashHasItsCause ==
  /\ crashed => \/ /\ stage = "asked"
                   /\ \E d \in options : Service[d] \in Range(Category) /\ d \notin InBucket
                \/ /\ stage = "shown"
                   /\ \E k \in Sections : \A d \in pictures : Service[d] # Category[k]
  /\ servicesSections # <<>> =>
       \A d \in options : Service[d] \in Range(Category) => d \in InBucket

(* The spinner stops and the buttons come alive, whatever fails and also   *)
(* when the customer has gone back in the meantime; unless a URL that      *)
(* Storage rejects has ended the process before the first download.        *)
LoadingEnds == <>(\/ ~spinner /\ buttonsEnabled
                  \/ crashed /\ stage = "asked")

================================================================================
