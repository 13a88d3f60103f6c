----------------------------- MODULE SessionProofs -----------------------------
(***************************************************************************)
(* Safety of Session for any credentials and any number of requests,       *)
(* logouts, forced sign-outs and restarts.                                 *)
(*                                                                         *)
(* A root that has been decided on is pending until it is in place.  The   *)
(* pending roots agree with each other: a logout is tapped where nothing   *)
(* leads inside any more, and while the login screen is pending no request *)
(* has a screen left to answer to.                                         *)
(***************************************************************************)
EXTENDS Session, SequenceTheorems, TLAPS

PostedIn(queue, root) == \E i \in DOMAIN queue : queue[i] = GoToBlock(root)
Posted(root)  == PostedIn(mainQueue, root)
Fading(root)  == \E i \in DOMAIN swaps : swaps[i] = root
Pending(root) == Posted(root) \/ Fading(root)

(* Somebody has been signed in for a request whose handler has not run.    *)
Late(request) ==
  /\ request.kind # "reset"
  /\ \/ request.stage \in {"created", "saving"}
     \/ request.stage = "answered" /\ request.result \in {"success", "unsaved"}

(* The same of a request whose handler may have run. *)
Signs(request) ==
  /\ request.kind # "reset"
  /\ request.stage \in {"created", "saving"} \/ request.result \in {"success", "unsaved"}

AllGone == \A r \in DOMAIN requests : requests[r].from = "gone"

RequestsAreOfUsers ==
  \A r \in DOMAIN requests : requests[r].kind # "reset" => requests[r].uid \in Users

(* A request has one block at a time, which its stage tells.               *)
Finished == {"answered", "done", "unheard"}
BlocksFollow(queue, asked) ==
  /\ \A i \in DOMAIN queue : \A r \in RequestIds :
       /\ queue[i] = CreateUserBlock(r) => r \in DOMAIN asked /\ asked[r].stage = "created"
       /\ queue[i] = CompletionBlock(r) => r \in DOMAIN asked /\ asked[r].stage \in Finished
  /\ \A i, j \in DOMAIN queue : \A r \in RequestIds :
       queue[i] = CreateUserBlock(r) /\ queue[j] = CreateUserBlock(r) => i = j
BlocksFollowRequests == BlocksFollow(mainQueue, requests)

(* Whoever is inside has left no request's screen behind, and a window     *)
(* that is shown has settled.                                              *)
InsideIsSettled ==
  /\ Inside => AllGone
  /\ window = "shown" => swaps = <<>>
  /\ Inside /\ window = "shown" =>
       ~Posted("chooser") /\ (Posted("login") => logouts > 0)

(* Who may still answer to a screen finds somebody signed in, and no login *)
(* screen pending.                                                         *)
AnswersFindSomebody ==
  /\ \A r \in DOMAIN requests :
       requests[r].from # "gone" /\ Signs(requests[r]) => currentUser # NoUser
  /\ Pending("login") => AllGone
  /\ screen \in {"login", "register", "forgot"} /\ window = "shown" => ~Posted("login")

PendingRootsAgree ==
  /\ ~(Pending("login") /\ Pending("chooser"))
  /\ Pending("chooser") => currentUser # NoUser
  /\ Inside /\ currentUser = NoUser => Pending("login")
  /\ (~Inside \/ Pending("login")) /\ currentUser # NoUser =>
       Pending("chooser") \/ unheard \/ \E r \in DOMAIN requests : Late(requests[r])

RootOk == revocations = 0 => AnswersFindSomebody /\ PendingRootsAgree

IInv == TypeOK /\ RequestsAreOfUsers /\ BlocksFollowRequests /\ InsideIsSettled /\ RootOk

LEMMA Blocks ==
  /\ \A root \in Roots : GoToBlock(root) \in Block
  /\ \A r \in RequestIds : CreateUserBlock(r) \in Block /\ CompletionBlock(r) \in Block
  /\ \A on \in Screens \cup {"gone"}, alert \in Alerts : AlertBlock(on, alert) \in Block
  /\ \A root \in Roots, r \in RequestIds :
       GoToBlock(root) # CreateUserBlock(r) /\ GoToBlock(root) # CompletionBlock(r)
  /\ \A x \in Roots, y \in Roots : GoToBlock(x) = GoToBlock(y) => x = y
  /\ \A r \in RequestIds, q \in RequestIds :
       /\ CreateUserBlock(r) # CompletionBlock(q)
       /\ CreateUserBlock(r) = CreateUserBlock(q) => r = q
       /\ CompletionBlock(r) = CompletionBlock(q) => r = q
BY DEF GoToBlock, Block, CreateUserBlock, CompletionBlock, AlertBlock

LEMMA AlertsAreAlerts ==
  ASSUME NEW on, NEW alert
  PROVE  /\ \A root \in Roots : AlertBlock(on, alert) # GoToBlock(root)
         /\ \A r \in RequestIds : /\ AlertBlock(on, alert) # CreateUserBlock(r)
                                  /\ AlertBlock(on, alert) # CompletionBlock(r)
BY DEF GoToBlock, CreateUserBlock, CompletionBlock, AlertBlock

--------------------------------------------------------------------------------
(* What becomes of the blocks of a queue. *)

LEMMA TailOfQueue ==
  ASSUME NEW queue \in Seq(Block), queue # <<>>
  PROVE  /\ Tail(queue) \in Seq(Block)
         /\ \A root \in Roots :
              PostedIn(queue, root) <=> PostedIn(Tail(queue), root) \/ Head(queue) = GoToBlock(root)
         /\ \A asked : BlocksFollow(queue, asked) => BlocksFollow(Tail(queue), asked)
<1>1. /\ Tail(queue) \in Seq(Block)
      /\ Len(queue) \in Nat \ {0} /\ Len(Tail(queue)) = Len(queue) - 1
      /\ DOMAIN queue = 1..Len(queue) /\ DOMAIN Tail(queue) = 1..Len(queue) - 1
      /\ Head(queue) = queue[1]
      /\ \A i \in DOMAIN Tail(queue) : i + 1 \in DOMAIN queue /\ Tail(queue)[i] = queue[i + 1]
  OBVIOUS
<1>2. ASSUME NEW root \in Roots
      PROVE  PostedIn(queue, root) <=> PostedIn(Tail(queue), root) \/ Head(queue) = GoToBlock(root)
  <2>1. ASSUME NEW i \in DOMAIN queue, queue[i] = GoToBlock(root), i # 1
        PROVE  PostedIn(Tail(queue), root)
    <3>1. i - 1 \in DOMAIN Tail(queue) /\ Tail(queue)[i - 1] = queue[i]
      BY <1>1, <2>1
    <3>2. QED
      BY <3>1, <2>1 DEF PostedIn
  <2>2. 1 \in DOMAIN queue
    BY <1>1
  <2>3. QED
    BY <1>1, <2>1, <2>2 DEF PostedIn
<1>3. ASSUME NEW asked, BlocksFollow(queue, asked)
      PROVE  BlocksFollow(Tail(queue), asked)
  BY <1>1, <1>3 DEF BlocksFollow
<1>4. QED
  BY <1>1, <1>2, <1>3

LEMMA BlockJoinsQueue ==
  ASSUME NEW queue \in Seq(Block), NEW block \in Block
  PROVE  /\ Append(queue, block) \in Seq(Block)
         /\ \A root \in Roots :
              PostedIn(Append(queue, block), root) <=> PostedIn(queue, root) \/ block = GoToBlock(root)
         /\ \A asked :
              /\ BlocksFollow(queue, asked)
              /\ \A r \in RequestIds :
                   /\ block = CreateUserBlock(r) =>
                        /\ r \in DOMAIN asked /\ asked[r].stage = "created"
                        /\ \A i \in DOMAIN queue : queue[i] # CreateUserBlock(r)
                   /\ block = CompletionBlock(r) =>
                        r \in DOMAIN asked /\ asked[r].stage \in Finished
              => BlocksFollow(Append(queue, block), asked)
<1> DEFINE longer == Append(queue, block)
<1>1. /\ longer \in Seq(Block)
      /\ Len(queue) \in Nat /\ DOMAIN queue = 1..Len(queue)
      /\ DOMAIN longer = 1..Len(queue) + 1
      /\ longer[Len(queue) + 1] = block
      /\ \A i \in DOMAIN queue : longer[i] = queue[i]
  OBVIOUS
<1>2. \A i \in DOMAIN longer : i \in DOMAIN queue \/ i = Len(queue) + 1
  BY <1>1
<1>3. DOMAIN queue \subseteq DOMAIN longer /\ Len(queue) + 1 \in DOMAIN longer
  BY <1>1
<1> HIDE DEF longer
<1>4. \A root \in Roots :
        PostedIn(longer, root) <=> PostedIn(queue, root) \/ block = GoToBlock(root)
  BY <1>1, <1>2, <1>3 DEF PostedIn
<1>5. ASSUME NEW asked, BlocksFollow(queue, asked),
             NEW r \in RequestIds,
             /\ block = CreateUserBlock(r) =>
                  /\ r \in DOMAIN asked /\ asked[r].stage = "created"
                  /\ \A i \in DOMAIN queue : queue[i] # CreateUserBlock(r)
             /\ block = CompletionBlock(r) =>
                  r \in DOMAIN asked /\ asked[r].stage \in Finished
      PROVE  /\ \A i \in DOMAIN longer :
                  /\ longer[i] = CreateUserBlock(r) =>
                       r \in DOMAIN asked /\ asked[r].stage = "created"
                  /\ longer[i] = CompletionBlock(r) =>
                       r \in DOMAIN asked /\ asked[r].stage \in Finished
             /\ \A i, j \in DOMAIN longer :
                  longer[i] = CreateUserBlock(r) /\ longer[j] = CreateUserBlock(r) => i = j
  BY <1>1, <1>2, <1>5 DEF BlocksFollow
<1>6. QED
  BY <1>1, <1>4, <1>5 DEF BlocksFollow, longer

LEMMA OrphansStay ==
  ASSUME NEW gone, mainQueue \in Seq(Block)
  PROVE  /\ OrphanAlerts(gone) \in Seq(Block)
         /\ \A root \in Roots : PostedIn(OrphanAlerts(gone), root) <=> Posted(root)
         /\ \A asked : BlocksFollow(mainQueue, asked) => BlocksFollow(OrphanAlerts(gone), asked)
<1> DEFINE queue == OrphanAlerts(gone)
<1>1. DOMAIN queue = DOMAIN mainQueue /\ DOMAIN mainQueue = 1..Len(mainQueue) /\ Len(mainQueue) \in Nat
  BY DEF OrphanAlerts
<1>2. ASSUME NEW i \in DOMAIN mainQueue
      PROVE  /\ queue[i] \in Block
             /\ \A root \in Roots : queue[i] = GoToBlock(root) <=> mainQueue[i] = GoToBlock(root)
             /\ \A r \in RequestIds :
                  /\ queue[i] = CreateUserBlock(r) <=> mainQueue[i] = CreateUserBlock(r)
                  /\ queue[i] = CompletionBlock(r) <=> mainQueue[i] = CompletionBlock(r)
  <2>1. mainQueue[i] \in Block
    OBVIOUS
  <2>2. CASE mainQueue[i].block = "alert" /\ mainQueue[i].on \in gone
    <3>1. PICK on \in Screens \cup {"gone"}, alert \in Alerts : mainQueue[i] = AlertBlock(on, alert)
      BY <2>1, <2>2 DEF Block, AlertBlock
    <3>2. queue[i] = AlertBlock("gone", alert)
      BY <2>2, <3>1 DEF OrphanAlerts, AlertBlock
    <3>3. QED
      BY <3>1, <3>2, Blocks, AlertsAreAlerts
  <2>3. CASE ~(mainQueue[i].block = "alert" /\ mainQueue[i].on \in gone)
    BY <2>1, <2>3 DEF OrphanAlerts
  <2>4. QED
    BY <2>2, <2>3
<1>3. queue \in Seq(Block)
  BY <1>1, <1>2 DEF OrphanAlerts
<1> HIDE DEF queue
<1>4. QED
  BY <1>1, <1>2, <1>3 DEF queue, PostedIn, Posted, BlocksFollow

LEMMA StagesMove ==
  ASSUME NEW queue, NEW asked, NEW later, BlocksFollow(queue, asked),
         \A i \in DOMAIN queue : \A r \in DOMAIN asked :
           /\ queue[i] = CreateUserBlock(r) /\ asked[r].stage = "created" =>
                r \in DOMAIN later /\ later[r].stage = "created"
           /\ queue[i] = CompletionBlock(r) /\ asked[r].stage \in Finished =>
                r \in DOMAIN later /\ later[r].stage \in Finished
  PROVE  BlocksFollow(queue, later)
BY DEF BlocksFollow

--------------------------------------------------------------------------------
(* Steps that leave the roots alone. *)

PostedSame == \A root \in Roots : Posted(root)' <=> Posted(root)

LEMMA RootNames == "login" \in Roots /\ "chooser" \in Roots
BY DEF Roots

(* Nothing happens to a request but that its screen may go, and nobody     *)
(* gets inside or out.                                                     *)
LEMMA StillKeeps ==
  ASSUME InsideIsSettled, RootOk, PostedSame,
         UNCHANGED <<currentUser, window, swaps, unheard, revocations>>,
         logouts > 0 => logouts' > 0,
         Inside' <=> Inside,
         screen' \in {"login", "register", "forgot"} => screen \in {"login", "register", "forgot"},
         DOMAIN requests' = DOMAIN requests,
         \A r \in DOMAIN requests :
           /\ requests'[r].kind = requests[r].kind
           /\ requests'[r].stage = requests[r].stage
           /\ requests'[r].result = requests[r].result
           /\ requests'[r].from \in {requests[r].from, "gone"}
  PROVE  InsideIsSettled' /\ RootOk'
<1>1. /\ Posted("login")' <=> Posted("login")
      /\ Posted("chooser")' <=> Posted("chooser")
  BY RootNames DEF PostedSame
<1>2. \A root : Fading(root)' <=> Fading(root)
  BY DEF Fading
<1>3. /\ Pending("login")' <=> Pending("login")
      /\ Pending("chooser")' <=> Pending("chooser")
  BY <1>1, <1>2 DEF Pending
<1>4. AllGone => AllGone'
  BY DEF AllGone
<1>5. InsideIsSettled'
  BY <1>1, <1>4 DEF InsideIsSettled
<1>6. ASSUME revocations' = 0
      PROVE  AnswersFindSomebody' /\ PendingRootsAgree'
  <2>1. AnswersFindSomebody /\ PendingRootsAgree
    BY <1>6 DEF RootOk
  <2>2. AnswersFindSomebody'
    BY <1>1, <1>3, <1>4, <2>1 DEF AnswersFindSomebody, Signs
  <2>3. ASSUME NEW r \in DOMAIN requests, Late(requests[r])
        PROVE  \E q \in DOMAIN requests' : Late(requests'[q])
    BY <2>3 DEF Late
  <2>4. PendingRootsAgree'
    BY <1>3, <2>1, <2>3 DEF PendingRootsAgree
  <2>5. QED
    BY <2>2, <2>4
<1>7. QED
  BY <1>5, <1>6 DEF RootOk

(* A request is answered, or goes on; whoever it signs in is found.        *)
LEMMA ProgressKeeps ==
  ASSUME InsideIsSettled, RootOk, PostedSame,
         UNCHANGED <<screen, window, swaps, unheard, logouts, revocations>>,
         NEW r \in DOMAIN requests, NEW request,
         requests' = [requests EXCEPT ![r] = request],
         request.from = requests[r].from,
         Late(requests[r]) => Late(request),
         currentUser' = currentUser \/ (currentUser' # NoUser /\ Late(request)),
         Signs(request) => Signs(requests[r]) \/ currentUser' # NoUser
  PROVE  InsideIsSettled' /\ RootOk'
<1>1. /\ Posted("login")' <=> Posted("login")
      /\ Posted("chooser")' <=> Posted("chooser")
  BY RootNames DEF PostedSame
<1>2. /\ Pending("login")' <=> Pending("login")
      /\ Pending("chooser")' <=> Pending("chooser")
  BY <1>1 DEF Pending, Fading
<1>3. /\ DOMAIN requests' = DOMAIN requests
      /\ requests'[r] = request
      /\ \A q \in DOMAIN requests : q # r => requests'[q] = requests[q]
  OBVIOUS
<1>4. AllGone => AllGone'
  BY <1>3 DEF AllGone
<1>5. InsideIsSettled'
  BY <1>1, <1>4 DEF InsideIsSettled, Inside
<1>6. ASSUME revocations' = 0
      PROVE  AnswersFindSomebody' /\ PendingRootsAgree'
  <2>1. AnswersFindSomebody /\ PendingRootsAgree
    BY <1>6 DEF RootOk
  <2>2. AnswersFindSomebody'
    BY <1>1, <1>2, <1>3, <1>4, <2>1 DEF AnswersFindSomebody
  <2>3. ASSUME NEW q \in DOMAIN requests, Late(requests[q])
        PROVE  \E p \in DOMAIN requests' : Late(requests'[p])
    BY <1>3, <2>3
  <2>4. Late(request) => \E p \in DOMAIN requests' : Late(requests'[p])
    BY <1>3
  <2>5. PendingRootsAgree'
    BY <1>2, <2>1, <2>3, <2>4 DEF PendingRootsAgree, Inside
  <2>6. QED
    BY <2>2, <2>5
<1>7. QED
  BY <1>5, <1>6 DEF RootOk

--------------------------------------------------------------------------------
(* Taps. *)

LEMMA AlertPosted ==
  ASSUME TypeOK, BlocksFollowRequests,
         NEW on \in Screens, NEW alert \in Alerts,
         mainQueue' = Append(mainQueue, AlertBlock(on, alert)), UNCHANGED requests
  PROVE  mainQueue' \in Seq(Block) /\ PostedSame /\ BlocksFollowRequests'
<1>1. AlertBlock(on, alert) \in Block /\ mainQueue \in Seq(Block)
  BY Blocks DEF TypeOK
<1>2. QED
  BY <1>1, BlockJoinsQueue, AlertsAreAlerts DEF PostedSame, Posted, BlocksFollowRequests

LEMMA TapWithInvalidInputKeeps ==
  ASSUME IInv, NEW s \in {"login", "register", "forgot"}, TapWithInvalidInput(s)
  PROVE  IInv'
<1>1. /\ mainQueue' = Append(mainQueue, AlertBlock(s, "invalidInput"))
      /\ UNCHANGED <<authVars, windowVars, requests, unheard, bounds>>
  BY DEF TapWithInvalidInput, Post
<1>2. s \in Screens /\ "invalidInput" \in Alerts
  BY DEF Screens, Roots, Alerts
<1>3. mainQueue' \in Seq(Block) /\ PostedSame /\ BlocksFollowRequests'
  BY <1>1, <1>2, AlertPosted DEF IInv
<1>4. TypeOK' /\ RequestsAreOfUsers'
  BY <1>1, <1>3 DEF IInv, TypeOK, RequestsAreOfUsers, authVars, windowVars, bounds
<1>5. InsideIsSettled' /\ RootOk'
  BY <1>1, <1>3, StillKeeps DEF IInv, authVars, windowVars, bounds, Inside
<1>6. QED
  BY <1>3, <1>4, <1>5 DEF IInv

(* A screen is pushed, or an alert or a sheet comes or goes. *)
LEMMA ScreenKeeps ==
  ASSUME IInv,
         UNCHANGED <<authVars, window, swaps, requests, mainQueue, unheard, bounds>>,
         screen' \in Screens \cup {"none"}, presented' \in Alerts \cup {"terms", "none"},
         Inside' <=> Inside,
         screen' \in {"login", "register", "forgot"} => screen \in {"login", "register", "forgot"}
  PROVE  IInv'
<1>1. PostedSame /\ BlocksFollowRequests' /\ RequestsAreOfUsers'
  BY DEF PostedSame, Posted, IInv, BlocksFollowRequests, RequestsAreOfUsers
<1>2. TypeOK'
  BY DEF IInv, TypeOK, authVars, bounds
<1>3. InsideIsSettled' /\ RootOk'
  BY <1>1, StillKeeps DEF IInv, authVars, bounds
<1>4. QED
  BY <1>1, <1>2, <1>3 DEF IInv

LEMMA PushKeeps ==
  ASSUME IInv, DidTapNewUser \/ DidTapForgot \/ DidTapEvent
  PROVE  IInv'
<1>1. PICK from, to \in Screens :
        /\ Push(from, to)
        /\ <<from, to>> \in {<<"login", "register">>, <<"login", "forgot">>, <<"chooser", "services">>}
  BY DEF DidTapNewUser, DidTapForgot, DidTapEvent, Screens, Roots
<1>2. /\ screen = from /\ screen' = to
      /\ UNCHANGED <<authVars, window, swaps, presented, requests, mainQueue, unheard, bounds>>
  BY <1>1 DEF Push, Touchable
<1>3. presented' \in Alerts \cup {"terms", "none"}
  BY <1>2 DEF IInv, TypeOK
<1>4. QED
  BY <1>1, <1>2, <1>3, ScreenKeeps DEF Inside

LEMMA PresentedKeeps ==
  ASSUME IInv, ShowWebViewer \/ DidTapDismiss
  PROVE  IInv'
<1>1. /\ presented' \in {"terms", "none"}
      /\ UNCHANGED <<authVars, screen, window, swaps, requests, mainQueue, unheard, bounds>>
  BY DEF ShowWebViewer, DidTapDismiss
<1>2. screen' \in Screens \cup {"none"}
  BY <1>1 DEF IInv, TypeOK
<1>3. QED
  BY <1>1, <1>2, ScreenKeeps DEF Inside

(* Screens are deallocated. *)
LEMMA OrphanedRequests ==
  ASSUME TypeOK, RequestsAreOfUsers, BlocksFollowRequests, NEW gone,
         OrphanRequests(gone), mainQueue' = OrphanAlerts(gone)
  PROVE  /\ mainQueue' \in Seq(Block) /\ PostedSame /\ BlocksFollowRequests'
         /\ requests' \in Seq(Request) /\ Len(requests') = Len(requests)
         /\ DOMAIN requests' = DOMAIN requests
         /\ \A r \in DOMAIN requests :
              /\ requests'[r].kind = requests[r].kind
              /\ requests'[r].stage = requests[r].stage
              /\ requests'[r].result = requests[r].result
              /\ requests'[r].from = IF requests[r].from \in gone THEN "gone" ELSE requests[r].from
         /\ RequestsAreOfUsers'
<1>1. /\ mainQueue \in Seq(Block) /\ requests \in Seq(Request)
      /\ DOMAIN requests = 1..Len(requests) /\ Len(requests) \in Nat
  BY DEF TypeOK
<1>2. /\ mainQueue' \in Seq(Block) /\ PostedSame
      /\ BlocksFollow(mainQueue', requests)
  BY <1>1, OrphansStay DEF PostedSame, Posted, BlocksFollowRequests
<1>3. DOMAIN requests' = DOMAIN requests
  BY DEF OrphanRequests
<1>4. ASSUME NEW r \in DOMAIN requests
      PROVE  /\ requests'[r] \in Request
             /\ requests'[r].kind = requests[r].kind
             /\ requests'[r].uid = requests[r].uid
             /\ requests'[r].stage = requests[r].stage
             /\ requests'[r].result = requests[r].result
             /\ requests'[r].from = IF requests[r].from \in gone THEN "gone" ELSE requests[r].from
  <2>1. requests[r] \in Request
    BY <1>1
  <2>2. requests'[r] = IF requests[r].from \in gone
                       THEN [requests[r] EXCEPT !.from = "gone"] ELSE requests[r]
    BY DEF OrphanRequests
  <2>3. QED
    BY <2>1, <2>2 DEF Request
<1>5. requests' \in Seq(Request) /\ Len(requests') = Len(requests)
  <2>1. requests' = [r \in 1..Len(requests) |-> requests'[r]]
    BY <1>1 DEF OrphanRequests
  <2>2. QED
    BY <1>1, <1>4, <2>1
<1>6. BlocksFollowRequests'
  BY <1>2, <1>3, <1>4, StagesMove DEF BlocksFollowRequests
<1>7. RequestsAreOfUsers'
  BY <1>3, <1>4 DEF RequestsAreOfUsers
<1>8. QED
  BY <1>2, <1>3, <1>4, <1>5, <1>6, <1>7

LEMMA DidTapBackKeeps ==
  ASSUME IInv, DidTapBack
  PROVE  IInv'
<1>1. PICK from, to \in Screens :
        /\ Pop(from, to)
        /\ <<from, to>> \in {<<"register", "login">>, <<"forgot", "login">>, <<"services", "chooser">>}
  BY DEF DidTapBack, Screens, Roots
<1>2. /\ screen = from /\ screen' = to
      /\ OrphanRequests({from}) /\ mainQueue' = OrphanAlerts({from})
      /\ UNCHANGED <<authVars, window, swaps, presented, unheard, bounds>>
  BY <1>1 DEF Pop, Touchable
<1> DEFINE gone == {from}
<1>3. OrphanRequests(gone) /\ mainQueue' = OrphanAlerts(gone)
  BY <1>2
<1> HIDE DEF gone
<1>4. /\ mainQueue' \in Seq(Block) /\ PostedSame /\ BlocksFollowRequests'
      /\ requests' \in Seq(Request) /\ Len(requests') = Len(requests)
      /\ DOMAIN requests' = DOMAIN requests
      /\ \A r \in DOMAIN requests :
           /\ requests'[r].kind = requests[r].kind
           /\ requests'[r].stage = requests[r].stage
           /\ requests'[r].result = requests[r].result
           /\ requests'[r].from \in {requests[r].from, "gone"}
      /\ RequestsAreOfUsers'
  BY <1>3, OrphanedRequests DEF IInv
<1>5. TypeOK'
  BY <1>2, <1>4 DEF IInv, TypeOK, authVars, bounds
<1>6. InsideIsSettled' /\ RootOk'
  <2>1. Inside' <=> Inside
    BY <1>1, <1>2 DEF Inside
  <2>2. screen' \in {"login", "register", "forgot"} => screen \in {"login", "register", "forgot"}
    BY <1>1, <1>2
  <2>3. QED
    BY <1>2, <1>4, <2>1, <2>2, StillKeeps DEF IInv, authVars, bounds
<1>7. QED
  BY <1>4, <1>5, <1>6 DEF IInv

(* A request is made: whoever could touch the screen was not inside, and   *)
(* no login screen was pending.                                            *)
LEMMA SendKeeps ==
  ASSUME IInv, NEW kind \in {"signIn", "register", "reset"}, NEW uid \in Users \cup {NoUser},
         NEW from \in {"login", "register", "forgot"},
         kind # "reset" => uid \in Users, Send(kind, uid, from)
  PROVE  IInv'
<1> DEFINE new == [kind |-> kind, uid |-> uid, from |-> from, stage |-> "sent", result |-> "none"]
<1>1. /\ screen = from /\ window = "shown"
      /\ Len(requests) < MaxRequests
      /\ requests' = Append(requests, new)
      /\ UNCHANGED <<authVars, windowVars, mainQueue, unheard, bounds>>
  BY DEF Send, Touchable
<1>2. new \in Request /\ new.from # "gone" /\ ~Signs(new) /\ (new.kind # "reset" => new.uid \in Users)
  BY DEF Request, Signs
<1>3. new.from = from
  OBVIOUS
<1> HIDE DEF new
<1>4. /\ requests \in Seq(Request) /\ Len(requests) \in Nat /\ MaxRequests \in Nat
      /\ DOMAIN requests = 1..Len(requests)
  BY SessionBounds DEF IInv, TypeOK
<1>5. /\ requests' \in Seq(Request) /\ Len(requests') <= MaxRequests
      /\ DOMAIN requests' = 1..Len(requests) + 1
      /\ requests'[Len(requests) + 1] = new
      /\ \A r \in DOMAIN requests : requests'[r] = requests[r]
  BY <1>1, <1>2, <1>4
<1>6. /\ DOMAIN requests \subseteq DOMAIN requests'
      /\ \A r \in DOMAIN requests' : r \in DOMAIN requests \/ requests'[r] = new
  BY <1>4, <1>5
<1>7. TypeOK'
  BY <1>1, <1>5 DEF IInv, TypeOK, authVars, windowVars, bounds
<1>8. RequestsAreOfUsers'
  BY <1>2, <1>5, <1>6 DEF IInv, RequestsAreOfUsers
<1>9. BlocksFollowRequests'
  BY <1>1, <1>5, <1>6, StagesMove DEF IInv, BlocksFollowRequests
<1>10. ~Inside /\ UNCHANGED <<screen, window, swaps>> /\ swaps = <<>>
  BY <1>1 DEF Inside, IInv, InsideIsSettled, windowVars
<1>11. InsideIsSettled'
  BY <1>10 DEF Inside, InsideIsSettled
<1>12. ASSUME revocations' = 0
       PROVE  AnswersFindSomebody' /\ PendingRootsAgree'
  <2>1. AnswersFindSomebody /\ PendingRootsAgree /\ UNCHANGED <<currentUser, mainQueue, unheard>>
    BY <1>1, <1>12 DEF IInv, RootOk, bounds, authVars
  <2>2. ~Pending("login")
    BY <1>1, <1>10, <2>1 DEF AnswersFindSomebody, Pending, Fading
  <2>3. \A root : Pending(root)' <=> Pending(root)
    BY <1>10, <2>1 DEF Pending, Posted, Fading
  <2>4. AnswersFindSomebody'
    BY <1>2, <1>5, <1>6, <1>10, <2>1, <2>2, <2>3 DEF AnswersFindSomebody, Pending
  <2>5. PendingRootsAgree'
    <3>1. \A r \in DOMAIN requests : Late(requests[r]) => r \in DOMAIN requests' /\ Late(requests'[r])
      BY <1>5, <1>6
    <3>2. QED
      BY <1>10, <2>1, <2>2, <2>3, <3>1 DEF PendingRootsAgree, Inside
  <2>6. QED
    BY <2>4, <2>5
<1>13. QED
  BY <1>7, <1>8, <1>9, <1>11, <1>12 DEF IInv, RootOk

LEMMA TapToSendKeeps ==
  ASSUME IInv,
         (\E uid \in Users : DidTapSignIn(uid) \/ DidTapSignUp(uid)) \/ DidTapForgotPassword
  PROVE  IInv'
BY SendKeeps DEF DidTapSignIn, DidTapSignUp, DidTapForgotPassword

--------------------------------------------------------------------------------
(* Answers. *)

(* A request that has no block in the queue is answered, and gets one.     *)
LEMMA AnswerKeeps ==
  ASSUME IInv, NEW r \in RequestIds, r \in DOMAIN requests, requests[r].stage \in {"sent", "saving"},
         NEW stage \in {"created", "answered"},
         NEW result \in {"none", "success", "error", "unsaved"}, Answered(r, stage, result),
         mainQueue' = Append(mainQueue, IF stage = "created" THEN CreateUserBlock(r)
                                        ELSE CompletionBlock(r)),
         accounts' \subseteq Users, currentUser' \in accounts' \cup {NoUser},
         UNCHANGED <<windowVars, unheard, bounds>>,
         \/ currentUser' = currentUser
         \/ /\ currentUser' # NoUser
            /\ requests[r].kind # "reset" /\ (stage = "created" \/ result = "success"),
         requests[r].kind # "reset" /\ requests[r].stage = "saving" =>
           stage = "answered" /\ result \in {"success", "unsaved"},
         requests[r].kind # "reset" /\ (stage = "created" \/ result \in {"success", "unsaved"}) =>
           requests[r].stage = "saving" \/ currentUser' # NoUser
  PROVE  IInv'
<1> DEFINE request == [requests[r] EXCEPT !.stage = stage, !.result = result]
           block   == IF stage = "created" THEN CreateUserBlock(r) ELSE CompletionBlock(r)
<1>1. /\ requests \in Seq(Request) /\ requests[r] \in Request /\ Len(requests) \in Nat
      /\ DOMAIN requests = 1..Len(requests) /\ Len(requests) <= MaxRequests
      /\ mainQueue \in Seq(Block)
  BY DEF IInv, TypeOK
<1>2. /\ request \in Request
      /\ request.kind = requests[r].kind /\ request.uid = requests[r].uid
      /\ request.from = requests[r].from
      /\ request.stage = stage /\ request.result = result
  BY <1>1 DEF Request
<1>3. requests' = [requests EXCEPT ![r] = request]
  BY <1>1 DEF Answered
<1> HIDE DEF request
<1>4. /\ requests' \in Seq(Request) /\ Len(requests') = Len(requests)
      /\ DOMAIN requests' = DOMAIN requests
      /\ requests'[r] = request
      /\ \A q \in DOMAIN requests : q # r => requests'[q] = requests[q]
  BY <1>1, <1>2, <1>3
<1>5. block \in Block /\ mainQueue' = Append(mainQueue, block)
  BY Blocks
<1>6. /\ \A q \in RequestIds : block = CreateUserBlock(q) => q = r /\ stage = "created"
      /\ \A q \in RequestIds : block = CompletionBlock(q) => q = r /\ stage = "answered"
      /\ \A root \in Roots : block # GoToBlock(root)
  BY Blocks
<1> HIDE DEF block
<1>7. PostedSame /\ mainQueue' \in Seq(Block)
  BY <1>1, <1>5, <1>6, BlockJoinsQueue DEF PostedSame, Posted
<1>8. BlocksFollowRequests'
  <2>1. BlocksFollow(mainQueue, requests)
    BY DEF IInv, BlocksFollowRequests
  <2>2. BlocksFollow(mainQueue, requests')
    BY <1>4, <2>1, StagesMove DEF Finished
  <2>3. \A i \in DOMAIN mainQueue : mainQueue[i] # CreateUserBlock(r)
    BY <2>1 DEF BlocksFollow
  <2>4. \A q \in RequestIds :
          /\ block = CreateUserBlock(q) =>
               /\ q \in DOMAIN requests' /\ requests'[q].stage = "created"
               /\ \A i \in DOMAIN mainQueue : mainQueue[i] # CreateUserBlock(q)
          /\ block = CompletionBlock(q) =>
               q \in DOMAIN requests' /\ requests'[q].stage \in Finished
    BY <1>2, <1>4, <1>6, <2>3 DEF Finished
  <2>5. QED
    BY <1>1, <1>5, <2>2, <2>4, BlockJoinsQueue DEF BlocksFollowRequests
<1>9. TypeOK'
  BY <1>1, <1>4, <1>7 DEF IInv, TypeOK, windowVars, bounds
<1>10. RequestsAreOfUsers'
  BY <1>2, <1>4 DEF IInv, RequestsAreOfUsers
<1>11. /\ Late(requests[r]) => Late(request)
       /\ currentUser' = currentUser \/ (currentUser' # NoUser /\ Late(request))
       /\ Signs(request) => Signs(requests[r]) \/ currentUser' # NoUser
  BY <1>2 DEF Late, Signs
<1>12. UNCHANGED <<screen, window, swaps, unheard, logouts, revocations>>
  BY DEF windowVars, bounds
<1>13. InsideIsSettled' /\ RootOk'
  BY <1>2, <1>3, <1>7, <1>11, <1>12, ProgressKeeps DEF IInv
<1>14. QED
  BY <1>8, <1>9, <1>10, <1>13 DEF IInv

LEMMA AuthAnswersKeeps ==
  ASSUME IInv, NEW r \in RequestIds, AuthAnswers(r) \/ AnswerSetData(r)
  PROVE  IInv'
<1>1. /\ accounts \subseteq Users /\ currentUser \in accounts \cup {NoUser} /\ NoUser \notin Users
      /\ r \in DOMAIN requests => (requests[r].kind # "reset" => requests[r].uid \in Users)
  BY NoUserIsNoUid DEF IInv, TypeOK, RequestsAreOfUsers
<1>2. CASE AnswerSignIn(r)
  <2>1. r \in DOMAIN requests /\ requests[r].kind = "signIn" /\ requests[r].stage = "sent"
    BY <1>2 DEF AnswerSignIn, Waiting
  <2>2. CASE Fail(r, "error") /\ UNCHANGED accounts
    BY <1>1, <2>1, <2>2, AnswerKeeps DEF Fail
  <2>3. CASE requests[r].uid \in accounts /\ currentUser' = requests[r].uid /\ Succeed(r)
    BY <1>1, <2>1, <2>3, AnswerKeeps DEF Succeed
  <2>4. QED
    BY <1>2, <2>2, <2>3 DEF AnswerSignIn
<1>3. CASE AnswerCreateUser(r)
  <2>1. r \in DOMAIN requests /\ requests[r].kind = "register" /\ requests[r].stage = "sent"
    BY <1>3 DEF AnswerCreateUser, Waiting
  <2>2. CASE Fail(r, "error") /\ accounts' \in {accounts, accounts \cup {requests[r].uid}}
    BY <1>1, <2>1, <2>2, AnswerKeeps DEF Fail
  <2>3. CASE /\ accounts' = accounts \cup {requests[r].uid}
             /\ currentUser' = requests[r].uid
             /\ Answered(r, "created", "none")
             /\ mainQueue' = Append(mainQueue, CreateUserBlock(r))
             /\ UNCHANGED <<windowVars, unheard, bounds>>
    BY <1>1, <2>1, <2>3, AnswerKeeps
  <2>4. QED
    BY <1>3, <2>2, <2>3 DEF AnswerCreateUser
<1>4. CASE AnswerSetData(r)
  <2>1. r \in DOMAIN requests /\ requests[r].kind = "register" /\ requests[r].stage = "saving"
    BY <1>4 DEF AnswerSetData, Waiting
  <2>2. CASE Fail(r, "unsaved") /\ UNCHANGED accounts
    BY <1>1, <2>1, <2>2, AnswerKeeps DEF Fail
  <2>3. CASE Succeed(r) /\ UNCHANGED currentUser
    BY <1>1, <2>1, <2>3, AnswerKeeps DEF Succeed
  <2>4. QED
    BY <1>4, <2>2, <2>3 DEF AnswerSetData
<1>5. CASE AnswerPasswordReset(r)
  <2>1. r \in DOMAIN requests /\ requests[r].kind = "reset" /\ requests[r].stage = "sent"
    BY <1>5 DEF AnswerPasswordReset, Waiting
  <2>2. CASE Fail(r, "error") /\ UNCHANGED accounts
    BY <1>1, <2>1, <2>2, AnswerKeeps DEF Fail
  <2>3. CASE Succeed(r) /\ UNCHANGED currentUser
    BY <1>1, <2>1, <2>3, AnswerKeeps DEF Succeed
  <2>4. QED
    BY <1>5, <2>2, <2>3 DEF AnswerPasswordReset
<1>6. QED
  BY <1>2, <1>3, <1>4, <1>5 DEF AuthAnswers

--------------------------------------------------------------------------------
(* The main queue. *)

LEMMA HeadOfQueue ==
  ASSUME NEW queue \in Seq(Block), queue # <<>>, NEW asked, BlocksFollow(queue, asked),
         NEW r \in RequestIds
  PROVE  /\ Head(queue) = CreateUserBlock(r) =>
              /\ r \in DOMAIN asked /\ asked[r].stage = "created"
              /\ \A i \in DOMAIN Tail(queue) : Tail(queue)[i] # CreateUserBlock(r)
         /\ Head(queue) = CompletionBlock(r) => r \in DOMAIN asked /\ asked[r].stage \in Finished
<1>1. /\ Head(queue) = queue[1] /\ 1 \in DOMAIN queue
      /\ \A i \in DOMAIN Tail(queue) :
           i + 1 \in DOMAIN queue /\ i + 1 # 1 /\ Tail(queue)[i] = queue[i + 1]
  <2>1. /\ Len(queue) \in Nat \ {0} /\ DOMAIN queue = 1..Len(queue)
        /\ Len(Tail(queue)) = Len(queue) - 1 /\ DOMAIN Tail(queue) = 1..Len(queue) - 1
    OBVIOUS
  <2>2. QED
    BY <2>1
<1>2. QED
  BY <1>1 DEF BlocksFollow

LEMMA RunGoToKeeps ==
  ASSUME IInv, NEW root \in Roots, RunGoTo(root)
  PROVE  IInv'
<1>1. /\ mainQueue \in Seq(Block) /\ mainQueue # <<>> /\ Head(mainQueue) = GoToBlock(root)
      /\ mainQueue' = Tail(mainQueue) /\ window' = "dark" /\ swaps' = Append(swaps, root)
      /\ swaps \in Seq(Roots)
      /\ UNCHANGED <<authVars, screen, presented, requests, unheard, bounds>>
  BY DEF RunGoTo, RunBlock, IInv, TypeOK
<1>2. /\ mainQueue' \in Seq(Block) /\ BlocksFollowRequests' /\ swaps' \in Seq(Roots)
  BY <1>1, TailOfQueue DEF IInv, BlocksFollowRequests
<1>3. ASSUME NEW x \in Roots
      PROVE  Pending(x)' <=> Pending(x)
  <2>1. Posted(x) <=> Posted(x)' \/ x = root
    BY <1>1, TailOfQueue, Blocks DEF Posted
  <2>2. Fading(x)' <=> Fading(x) \/ x = root
    <3>1. /\ Len(swaps) \in Nat /\ DOMAIN swaps = 1..Len(swaps) /\ DOMAIN swaps' = 1..Len(swaps) + 1
          /\ swaps'[Len(swaps) + 1] = root /\ \A i \in DOMAIN swaps : swaps'[i] = swaps[i]
      BY <1>1
    <3>2. QED
      BY <3>1 DEF Fading
  <2>3. QED
    BY <2>1, <2>2 DEF Pending
<1>4. (Pending("login")' <=> Pending("login")) /\ (Pending("chooser")' <=> Pending("chooser"))
  BY <1>3, RootNames
<1>5. TypeOK' /\ RequestsAreOfUsers'
  BY <1>1, <1>2 DEF IInv, TypeOK, RequestsAreOfUsers, authVars, bounds
<1>6. UNCHANGED <<Inside, AllGone, revocations, currentUser, unheard>>
  BY <1>1 DEF Inside, AllGone, bounds, authVars
<1>7. InsideIsSettled'
  BY <1>1, <1>6 DEF IInv, InsideIsSettled
<1>8. RootOk'
  <2>1. ASSUME AnswersFindSomebody
        PROVE  AnswersFindSomebody'
    BY <1>1, <1>4, <1>6, <2>1 DEF AnswersFindSomebody
  <2>2. ASSUME PendingRootsAgree
        PROVE  PendingRootsAgree'
    BY <1>1, <1>4, <1>6, <2>2 DEF PendingRootsAgree
  <2>3. QED
    BY <1>6, <2>1, <2>2 DEF IInv, RootOk
<1>9. QED
  BY <1>2, <1>5, <1>7, <1>8 DEF IInv

LEMMA RunCreateUserKeeps ==
  ASSUME IInv, NEW r \in RequestIds, RunCreateUser(r)
  PROVE  IInv'
<1> DEFINE request == [requests[r] EXCEPT !.stage = "saving"]
<1>1. /\ mainQueue \in Seq(Block) /\ mainQueue # <<>> /\ Head(mainQueue) = CreateUserBlock(r)
      /\ mainQueue' = Tail(mainQueue)
      /\ BlocksFollow(mainQueue, requests)
      /\ requests \in Seq(Request)
      /\ UNCHANGED <<authVars, windowVars, unheard, bounds>>
  BY DEF RunCreateUser, RunBlock, IInv, TypeOK, BlocksFollowRequests
<1>2. /\ r \in DOMAIN requests /\ requests[r].stage = "created"
      /\ \A i \in DOMAIN Tail(mainQueue) : Tail(mainQueue)[i] # CreateUserBlock(r)
  BY <1>1, HeadOfQueue
<1>3. requests[r] \in Request /\ requests' = [requests EXCEPT ![r] = request]
  BY <1>1, <1>2 DEF RunCreateUser
<1>4. /\ request \in Request
      /\ request.kind = requests[r].kind /\ request.uid = requests[r].uid
      /\ request.from = requests[r].from /\ request.result = requests[r].result
      /\ request.stage = "saving"
  BY <1>3 DEF Request
<1> HIDE DEF request
<1>5. /\ requests' \in Seq(Request) /\ Len(requests') = Len(requests)
      /\ DOMAIN requests' = DOMAIN requests
      /\ requests'[r] = request
      /\ \A q \in DOMAIN requests : q # r => requests'[q] = requests[q]
  BY <1>1, <1>2, <1>3, <1>4
<1>6. /\ mainQueue' \in Seq(Block) /\ PostedSame /\ BlocksFollow(Tail(mainQueue), requests)
  BY <1>1, TailOfQueue, Blocks DEF PostedSame, Posted
<1>7. BlocksFollowRequests'
  <2>1. \A i \in DOMAIN mainQueue' : \A q \in DOMAIN requests :
          /\ mainQueue'[i] = CreateUserBlock(q) /\ requests[q].stage = "created" =>
               q \in DOMAIN requests' /\ requests'[q].stage = "created"
          /\ mainQueue'[i] = CompletionBlock(q) /\ requests[q].stage \in Finished =>
               q \in DOMAIN requests' /\ requests'[q].stage \in Finished
    BY <1>1, <1>2, <1>5 DEF Finished
  <2>2. BlocksFollow(mainQueue', requests)
    BY <1>1, <1>6
  <2>3. BlocksFollow(mainQueue', requests')
    BY <2>1, <2>2, StagesMove
  <2>4. QED
    BY <2>3 DEF BlocksFollowRequests
<1>8. TypeOK'
  BY <1>1, <1>5, <1>6 DEF IInv, TypeOK, authVars, windowVars, bounds
<1>9. RequestsAreOfUsers'
  BY <1>4, <1>5 DEF IInv, RequestsAreOfUsers
<1>10. /\ Late(requests[r]) => Late(request)
       /\ Signs(request) => Signs(requests[r])
  BY <1>2, <1>4 DEF Late, Signs
<1>11. UNCHANGED <<currentUser, screen, window, swaps, unheard, logouts, revocations>>
  BY <1>1 DEF authVars, windowVars, bounds
<1>12. InsideIsSettled' /\ RootOk'
  BY <1>2, <1>3, <1>4, <1>6, <1>10, <1>11, ProgressKeeps DEF IInv
<1>13. QED
  BY <1>7, <1>8, <1>9, <1>12 DEF IInv

LEMMA RunAlertKeeps ==
  ASSUME IInv, NEW on, NEW alert \in Alerts, RunAlert(on, alert)
  PROVE  IInv'
<1>1. /\ mainQueue \in Seq(Block) /\ mainQueue # <<>> /\ Head(mainQueue) = AlertBlock(on, alert)
      /\ mainQueue' = Tail(mainQueue)
      /\ presented' \in {presented, alert}
      /\ UNCHANGED <<authVars, screen, window, swaps, requests, unheard, bounds>>
  BY DEF RunAlert, RunBlock, IInv, TypeOK
<1>2. mainQueue' \in Seq(Block) /\ PostedSame /\ BlocksFollowRequests'
  BY <1>1, TailOfQueue, AlertsAreAlerts DEF PostedSame, Posted, IInv, BlocksFollowRequests
<1>3. TypeOK' /\ RequestsAreOfUsers'
  BY <1>1, <1>2 DEF IInv, TypeOK, RequestsAreOfUsers, authVars, bounds
<1>4. InsideIsSettled' /\ RootOk'
  BY <1>1, <1>2, StillKeeps DEF IInv, authVars, bounds, Inside
<1>5. QED
  BY <1>2, <1>3, <1>4 DEF IInv

(* A handler has run: its screen is let go, and it owes nothing any more.  *)
LEMMA HandlerRuns ==
  ASSUME IInv, NEW r \in RequestIds, NEW stage \in {"done", "unheard"},
         RunBlock(CompletionBlock(r)), HandlerDone(r, stage)
  PROVE  /\ mainQueue \in Seq(Block) /\ mainQueue # <<>>
         /\ Tail(mainQueue) \in Seq(Block) /\ BlocksFollow(Tail(mainQueue), requests')
         /\ \A root \in Roots : PostedIn(Tail(mainQueue), root) <=> Posted(root)
         /\ r \in DOMAIN requests /\ requests[r] \in Request /\ requests[r].stage \in Finished
         /\ requests' \in Seq(Request) /\ Len(requests') = Len(requests)
         /\ DOMAIN requests' = DOMAIN requests
         /\ requests'[r].from = "gone"
         /\ \A q \in DOMAIN requests : q # r => requests'[q] = requests[q]
         /\ RequestsAreOfUsers'
<1>1. /\ mainQueue \in Seq(Block) /\ mainQueue # <<>> /\ Head(mainQueue) = CompletionBlock(r)
      /\ BlocksFollow(mainQueue, requests)
      /\ requests \in Seq(Request)
  BY DEF RunBlock, IInv, TypeOK, BlocksFollowRequests
<1>2. r \in DOMAIN requests /\ requests[r].stage \in Finished /\ requests[r] \in Request
  BY <1>1, HeadOfQueue
<1> DEFINE request == [requests[r] EXCEPT !.stage = stage, !.from = "gone"]
<1>3. requests' = [requests EXCEPT ![r] = request]
  BY <1>1, <1>2 DEF HandlerDone
<1>4. /\ request \in Request /\ request.from = "gone" /\ request.stage = stage
      /\ request.kind = requests[r].kind /\ request.uid = requests[r].uid
  BY <1>2 DEF Request
<1> HIDE DEF request
<1>5. /\ requests' \in Seq(Request) /\ Len(requests') = Len(requests)
      /\ DOMAIN requests' = DOMAIN requests
      /\ requests'[r] = request
      /\ \A q \in DOMAIN requests : q # r => requests'[q] = requests[q]
  BY <1>1, <1>2, <1>3, <1>4
<1>6. /\ Tail(mainQueue) \in Seq(Block) /\ BlocksFollow(Tail(mainQueue), requests)
      /\ \A root \in Roots : PostedIn(Tail(mainQueue), root) <=> Posted(root)
  BY <1>1, TailOfQueue, Blocks DEF Posted
<1>7. BlocksFollow(Tail(mainQueue), requests')
  BY <1>2, <1>4, <1>5, <1>6, StagesMove DEF Finished
<1>8. RequestsAreOfUsers'
  BY <1>4, <1>5 DEF IInv, RequestsAreOfUsers
<1>9. QED
  BY <1>1, <1>2, <1>4, <1>5, <1>6, <1>7, <1>8

LEMMA HandlerType ==
  ASSUME IInv, requests' \in Seq(Request), Len(requests') = Len(requests),
         mainQueue' \in Seq(Block), unheard' \in BOOLEAN,
         UNCHANGED <<authVars, windowVars, bounds>>
  PROVE  TypeOK'
BY DEF IInv, TypeOK, authVars, windowVars, bounds

(* Who is heard has not been inside, and with nobody's sign-out forced     *)
(* finds somebody signed in and no login screen pending.                   *)
LEMMA HeardKeeps ==
  ASSUME IInv, NEW r \in RequestIds, RunBlock(CompletionBlock(r)),
         HeardBy(requests[r], requests[r].from),
         CheckAuthentication(Tail(mainQueue)), HandlerDone(r, "done"), unheard' = FALSE,
         UNCHANGED <<authVars, windowVars, bounds>>
  PROVE  IInv'
<1>1. /\ mainQueue \in Seq(Block) /\ mainQueue # <<>>
      /\ Tail(mainQueue) \in Seq(Block) /\ BlocksFollow(Tail(mainQueue), requests')
      /\ \A root \in Roots : PostedIn(Tail(mainQueue), root) <=> Posted(root)
      /\ r \in DOMAIN requests /\ requests[r] \in Request
      /\ requests' \in Seq(Request) /\ Len(requests') = Len(requests)
      /\ DOMAIN requests' = DOMAIN requests
      /\ requests'[r].from = "gone"
      /\ \A q \in DOMAIN requests : q # r => requests'[q] = requests[q]
      /\ RequestsAreOfUsers'
  BY HandlerRuns
<1>2. /\ requests[r].from = screen /\ screen # "gone" /\ Signs(requests[r])
  <2>1. screen \in Screens \cup {"none"}
    BY DEF IInv, TypeOK
  <2>2. QED
    BY <2>1 DEF HeardBy, InWindow, Signs, Screens, Roots
<1>3. DecidedRoot \in Roots /\ mainQueue' = Append(Tail(mainQueue), GoToBlock(DecidedRoot))
  BY DEF DecidedRoot, Roots, CheckAuthentication
<1>4. /\ mainQueue' \in Seq(Block) /\ BlocksFollowRequests'
      /\ \A root \in Roots : Posted(root)' <=> Posted(root) \/ root = DecidedRoot
  <2> DEFINE queue == Tail(mainQueue)
             block == GoToBlock(DecidedRoot)
  <2>1. /\ block \in Block /\ queue \in Seq(Block) /\ BlocksFollow(queue, requests')
        /\ mainQueue' = Append(queue, block)
        /\ \A q \in RequestIds : block # CreateUserBlock(q) /\ block # CompletionBlock(q)
        /\ \A root \in Roots : block = GoToBlock(root) <=> root = DecidedRoot
        /\ \A root \in Roots : PostedIn(queue, root) <=> PostedIn(mainQueue, root)
    BY <1>1, <1>3, Blocks DEF Posted
  <2> HIDE DEF queue, block
  <2>2. /\ mainQueue' \in Seq(Block) /\ BlocksFollow(mainQueue', requests')
        /\ \A root \in Roots : PostedIn(mainQueue', root) <=> PostedIn(queue, root) \/ block = GoToBlock(root)
    BY <2>1, BlockJoinsQueue
  <2>3. QED
    BY <2>1, <2>2 DEF BlocksFollowRequests, Posted
<1>5. TypeOK'
  BY <1>1, <1>4, HandlerType
<1>6. ~AllGone /\ ~Inside
  BY <1>1, <1>2 DEF AllGone, IInv, InsideIsSettled
<1>7. UNCHANGED <<currentUser, screen, window, swaps, revocations, Inside>>
  BY DEF authVars, windowVars, bounds, Inside
<1>8. InsideIsSettled'
  BY <1>6, <1>7 DEF IInv, InsideIsSettled
<1>9. ASSUME revocations' = 0
      PROVE  AnswersFindSomebody' /\ PendingRootsAgree'
  <2>1. AnswersFindSomebody /\ PendingRootsAgree
    BY <1>7, <1>9 DEF IInv, RootOk
  <2>2. currentUser # NoUser /\ ~Pending("login")
    BY <1>1, <1>2, <1>6, <2>1 DEF AnswersFindSomebody
  <2>3. DecidedRoot = "chooser"
    BY <1>7, <2>2 DEF DecidedRoot
  <2>4. Posted("chooser")' /\ (Posted("login")' <=> Posted("login"))
    BY <1>4, <2>3, RootNames
  <2>5. ~Pending("login")' /\ Pending("chooser")'
    BY <1>7, <2>2, <2>4 DEF Pending, Fading
  <2>6. AnswersFindSomebody'
    BY <1>7, <2>2, <2>5 DEF AnswersFindSomebody, Pending
  <2>7. PendingRootsAgree'
    BY <1>6, <1>7, <2>2, <2>5 DEF PendingRootsAgree
  <2>8. QED
    BY <2>6, <2>7
<1>10. QED
  BY <1>1, <1>4, <1>5, <1>8, <1>9 DEF IInv, RootOk

LEMMA UnheardKeeps ==
  ASSUME IInv, NEW r \in RequestIds, RunBlock(CompletionBlock(r)),
         HandlerDone(r, IF Unheard(requests[r]) THEN "unheard" ELSE "done"),
         unheard' = (unheard \/ Unheard(requests[r])),
         \/ mainQueue' = Tail(mainQueue)
         \/ \E on \in Screens, alert \in Alerts :
              mainQueue' = Append(Tail(mainQueue), AlertBlock(on, alert)),
         UNCHANGED <<authVars, windowVars, bounds>>
  PROVE  IInv'
<1> DEFINE stage == IF Unheard(requests[r]) THEN "unheard" ELSE "done"
<1>1. stage \in {"done", "unheard"} /\ HandlerDone(r, stage)
  OBVIOUS
<1> HIDE DEF stage
<1>2. /\ Tail(mainQueue) \in Seq(Block) /\ BlocksFollow(Tail(mainQueue), requests')
      /\ \A root \in Roots : PostedIn(Tail(mainQueue), root) <=> Posted(root)
      /\ r \in DOMAIN requests /\ requests[r].stage \in Finished
      /\ requests' \in Seq(Request) /\ Len(requests') = Len(requests)
      /\ DOMAIN requests' = DOMAIN requests
      /\ requests'[r].from = "gone"
      /\ \A q \in DOMAIN requests : q # r => requests'[q] = requests[q]
      /\ RequestsAreOfUsers'
  BY <1>1, HandlerRuns
<1>3. /\ mainQueue' \in Seq(Block) /\ BlocksFollowRequests'
      /\ \A root \in Roots : Posted(root)' <=> Posted(root)
  <2>1. CASE mainQueue' = Tail(mainQueue)
    BY <1>2, <2>1 DEF BlocksFollowRequests, Posted
  <2>2. ASSUME NEW on \in Screens, NEW alert \in Alerts,
               mainQueue' = Append(Tail(mainQueue), AlertBlock(on, alert))
        PROVE  /\ mainQueue' \in Seq(Block) /\ BlocksFollowRequests'
               /\ \A root \in Roots : Posted(root)' <=> Posted(root)
    <3> DEFINE queue == Tail(mainQueue)
               block == AlertBlock(on, alert)
    <3>1. /\ block \in Block /\ queue \in Seq(Block) /\ BlocksFollow(queue, requests')
          /\ mainQueue' = Append(queue, block)
          /\ \A q \in RequestIds : block # CreateUserBlock(q) /\ block # CompletionBlock(q)
          /\ \A root \in Roots : block # GoToBlock(root)
          /\ \A root \in Roots : PostedIn(queue, root) <=> PostedIn(mainQueue, root)
      BY <1>2, <2>2, Blocks, AlertsAreAlerts DEF Posted
    <3> HIDE DEF queue, block
    <3>2. /\ mainQueue' \in Seq(Block) /\ BlocksFollow(mainQueue', requests')
          /\ \A root \in Roots :
               PostedIn(mainQueue', root) <=> PostedIn(queue, root) \/ block = GoToBlock(root)
      BY <3>1, BlockJoinsQueue
    <3>3. QED
      BY <3>1, <3>2 DEF BlocksFollowRequests, Posted
  <2>3. QED
    BY <2>1, <2>2
<1>4. unheard' \in BOOLEAN
  BY DEF IInv, TypeOK, Unheard
<1>5. TypeOK'
  BY <1>2, <1>3, <1>4, HandlerType
<1>6. UNCHANGED <<currentUser, screen, window, swaps, revocations, logouts, Inside>>
  BY DEF authVars, windowVars, bounds, Inside
<1>7. /\ Posted("login")' <=> Posted("login")
      /\ Posted("chooser")' <=> Posted("chooser")
  BY <1>3, RootNames
<1>8. /\ Pending("login")' <=> Pending("login")
      /\ Pending("chooser")' <=> Pending("chooser")
  BY <1>6, <1>7 DEF Pending, Fading
<1>9. AllGone => AllGone'
  BY <1>2 DEF AllGone
<1>10. InsideIsSettled'
  BY <1>6, <1>7, <1>9 DEF IInv, InsideIsSettled
<1>11. ASSUME revocations' = 0
       PROVE  AnswersFindSomebody' /\ PendingRootsAgree'
  <2>1. AnswersFindSomebody /\ PendingRootsAgree
    BY <1>6, <1>11 DEF IInv, RootOk
  <2>2. AnswersFindSomebody'
    <3>1. \A q \in DOMAIN requests' : requests'[q].from # "gone" =>
            q \in DOMAIN requests /\ requests'[q] = requests[q]
      BY <1>2
    <3>2. QED
      BY <1>6, <1>7, <1>8, <1>9, <2>1, <3>1 DEF AnswersFindSomebody
  <2>3. ASSUME NEW q \in DOMAIN requests, Late(requests[q])
        PROVE  unheard' = TRUE \/ \E p \in DOMAIN requests' : Late(requests'[p])
    <3>1. CASE q = r
      BY <1>2, <2>3, <3>1 DEF Late, Unheard, Finished
    <3>2. CASE q # r
      BY <1>2, <2>3, <3>2
    <3>3. QED
      BY <3>1, <3>2
  <2>4. unheard => unheard'
    BY DEF Unheard
  <2>5. PendingRootsAgree'
    BY <1>6, <1>8, <2>1, <2>3, <2>4 DEF PendingRootsAgree
  <2>6. QED
    BY <2>2, <2>5
<1>12. QED
  BY <1>2, <1>3, <1>5, <1>10, <1>11 DEF IInv, RootOk

LEMMA RunCompletionKeeps ==
  ASSUME IInv, NEW r \in RequestIds, RunCompletion(r)
  PROVE  IInv'
<1> DEFINE request == requests[r]
           alert   == IF request.kind = "reset" /\ request.result = "success"
                      THEN "resetSent" ELSE FailureAlert(request.kind)
           alerts  == request.from # "gone"
                        /\ ~(request.kind = "register" /\ request.result = "success")
<1>1. RunBlock(CompletionBlock(r)) /\ UNCHANGED <<authVars, windowVars, bounds>>
  BY DEF RunCompletion
<1>2. CASE /\ HeardBy(request, request.from)
           /\ CheckAuthentication(Tail(mainQueue))
           /\ HandlerDone(r, "done")
           /\ unheard' = FALSE
  BY <1>1, <1>2, HeardKeeps
<1>3. CASE /\ mainQueue' = IF alerts THEN Append(Tail(mainQueue), AlertBlock(request.from, alert))
                           ELSE Tail(mainQueue)
           /\ HandlerDone(r, IF Unheard(request) THEN "unheard" ELSE "done")
           /\ unheard' = (unheard \/ Unheard(request))
  <2>1. request \in Request
    BY <1>1, <1>3, HandlerRuns
  <2>2. alerts => request.from \in Screens /\ alert \in Alerts
    BY <2>1 DEF Request, Screens, Roots, Alerts, FailureAlert
  <2>3. \/ mainQueue' = Tail(mainQueue)
        \/ \E on \in Screens, a \in Alerts :
             mainQueue' = Append(Tail(mainQueue), AlertBlock(on, a))
    BY <1>3, <2>2
  <2>4. QED
    BY <1>1, <1>3, <2>3, UnheardKeeps
<1>4. QED
  BY <1>2, <1>3 DEF RunCompletion

--------------------------------------------------------------------------------
(* The window. *)

LEMMA SwapLeaves ==
  ASSUME NEW queue \in Seq(Roots), NEW i \in DOMAIN queue
  PROVE  /\ RemoveAt(queue, i) \in Seq(Roots)
         /\ \A j \in DOMAIN RemoveAt(queue, i) : \E k \in DOMAIN queue : RemoveAt(queue, i)[j] = queue[k]
<1>1. Len(queue) \in Nat /\ i \in 1..Len(queue) /\ DOMAIN queue = 1..Len(queue)
  OBVIOUS
<1> DEFINE before == SubSeq(queue, 1, i - 1)
           after  == SubSeq(queue, i + 1, Len(queue))
<1>2. /\ before \in Seq(Roots) /\ Len(before) = i - 1
      /\ \A j \in 1..i - 1 : before[j] = queue[j]
  BY <1>1
<1>3. /\ after \in Seq(Roots) /\ Len(after) = Len(queue) - i
      /\ \A j \in 1..Len(queue) - i : after[j] = queue[i + j]
  <2>1. \A j \in 1..Len(queue) - i : (i + 1) + j - 1 = i + j
    BY <1>1
  <2>2. QED
    BY <1>1, <2>1
<1>4. RemoveAt(queue, i) = before \o after
  BY DEF RemoveAt
<1> HIDE DEF before, after
<1>5. /\ before \o after \in Seq(Roots) /\ DOMAIN (before \o after) = 1..Len(queue) - 1
      /\ \A j \in 1..Len(queue) - 1 :
           (before \o after)[j] = IF j <= i - 1 THEN before[j] ELSE after[j - (i - 1)]
  <2>1. /\ before \o after \in Seq(Roots)
        /\ Len(before \o after) = Len(before) + Len(after)
        /\ \A j \in 1..Len(before) + Len(after) :
             (before \o after)[j] = IF j <= Len(before) THEN before[j] ELSE after[j - Len(before)]
    BY <1>2, <1>3, ConcatProperties
  <2>2. Len(before) = i - 1 /\ Len(before) + Len(after) = Len(queue) - 1
    BY <1>1, <1>2, <1>3
  <2>3. DOMAIN (before \o after) = 1..Len(before \o after)
    BY <2>1
  <2>4. QED
    BY <2>1, <2>2, <2>3
<1>6. ASSUME NEW j \in 1..Len(queue) - 1
      PROVE  \E k \in DOMAIN queue : (before \o after)[j] = queue[k]
  <2>1. CASE j <= i - 1
    <3>1. j \in 1..i - 1 /\ j \in DOMAIN queue
      BY <1>1, <2>1
    <3>2. QED
      BY <1>2, <1>5, <2>1, <3>1
  <2>2. CASE ~(j <= i - 1)
    <3>1. j - (i - 1) \in 1..Len(queue) - i /\ i + (j - (i - 1)) = j + 1 /\ j + 1 \in DOMAIN queue
      BY <1>1, <2>2
    <3>2. QED
      BY <1>3, <1>5, <2>2, <3>1
  <2>3. QED
    BY <2>1, <2>2
<1>7. QED
  BY <1>4, <1>5, <1>6

LEMMA CompleteFadeOutKeeps ==
  ASSUME IInv, NEW i, CompleteFadeOut(i)
  PROVE  IInv'
<1>1. /\ i \in DOMAIN swaps /\ swaps \in Seq(Roots)
      /\ screen' = swaps[i] /\ swaps' = RemoveAt(swaps, i)
      /\ window' = "fadingIn" /\ presented' = "none"
      /\ UNCHANGED <<authVars, unheard, bounds>>
  BY DEF CompleteFadeOut, IInv, TypeOK
<1>2. /\ screen' \in Roots /\ swaps' \in Seq(Roots)
      /\ \A j \in DOMAIN swaps' : \E k \in DOMAIN swaps : swaps'[j] = swaps[k]
  BY <1>1, SwapLeaves
<1> DEFINE gone == Screens
<1>3. OrphanRequests(gone) /\ mainQueue' = OrphanAlerts(gone)
  BY DEF CompleteFadeOut
<1> HIDE DEF gone
<1>4. /\ mainQueue' \in Seq(Block) /\ PostedSame /\ BlocksFollowRequests'
      /\ requests' \in Seq(Request) /\ Len(requests') = Len(requests)
      /\ DOMAIN requests' = DOMAIN requests
      /\ \A r \in DOMAIN requests :
           /\ requests'[r].kind = requests[r].kind
           /\ requests'[r].stage = requests[r].stage
           /\ requests'[r].result = requests[r].result
           /\ requests'[r].from = IF requests[r].from \in gone THEN "gone" ELSE requests[r].from
      /\ RequestsAreOfUsers'
  BY <1>3, OrphanedRequests DEF IInv
<1>5. AllGone'
  <2>1. \A r \in DOMAIN requests : requests[r].from \in {"login", "register", "forgot", "gone"}
    <3>1. requests \in Seq(Request)
      BY DEF IInv, TypeOK
    <3>2. \A r \in DOMAIN requests : requests[r] \in Request
      BY <3>1
    <3>3. QED
      BY <3>2 DEF Request
  <2>2. QED
    BY <1>4, <2>1 DEF AllGone, gone, Screens, Roots
<1>6. TypeOK'
  BY <1>1, <1>2, <1>4 DEF IInv, TypeOK, authVars, bounds, Screens
<1>7. InsideIsSettled'
  BY <1>1, <1>5 DEF InsideIsSettled
<1>8. /\ Posted("login")' <=> Posted("login")
      /\ Posted("chooser")' <=> Posted("chooser")
  BY <1>4, RootNames DEF PostedSame
<1>9. /\ \A root : Fading(root)' => Fading(root)
      /\ Fading(screen')
  BY <1>1, <1>2 DEF Fading
<1>10. /\ Pending("login")' => Pending("login")
       /\ Pending("chooser")' => Pending("chooser")
       /\ screen' = "chooser" => Pending("chooser")
       /\ screen' # "chooser" => screen' = "login" /\ Pending("login")
  BY <1>2, <1>8, <1>9 DEF Pending, Roots
<1>11. ASSUME revocations' = 0
       PROVE  AnswersFindSomebody' /\ PendingRootsAgree'
  <2>1. AnswersFindSomebody /\ PendingRootsAgree /\ UNCHANGED <<currentUser, unheard>>
    BY <1>1, <1>11 DEF IInv, RootOk, bounds, authVars
  <2>2. AnswersFindSomebody'
    <3>1. \A r \in DOMAIN requests' : requests'[r].from = "gone"
      BY <1>5 DEF AllGone
    <3>2. QED
      BY <1>1, <1>5, <3>1 DEF AnswersFindSomebody
  <2>3. \A r \in DOMAIN requests : Late(requests[r]) => r \in DOMAIN requests' /\ Late(requests'[r])
    BY <1>4 DEF Late
  <2>4. ~Inside' => Pending("login")
    BY <1>10 DEF Inside
  <2>5. Inside' => Pending("chooser")
    BY <1>2, <1>10 DEF Inside, Roots
  <2>6. PendingRootsAgree'
    BY <1>10, <2>1, <2>3, <2>4, <2>5 DEF PendingRootsAgree
  <2>7. QED
    BY <2>2, <2>6
<1>12. QED
  BY <1>4, <1>6, <1>7, <1>11 DEF IInv, RootOk

LEMMA CompleteFadeInKeeps ==
  ASSUME IInv, CompleteFadeIn
  PROVE  IInv'
<1>1. /\ swaps = <<>> /\ mainQueue = <<>> /\ window' = "shown"
      /\ UNCHANGED <<authVars, screen, swaps, presented, requests, mainQueue, unheard, bounds>>
  BY DEF CompleteFadeIn
<1>2. \A root : ~Posted(root) /\ ~Posted(root)' /\ (Pending(root)' <=> Pending(root))
  BY <1>1 DEF Posted, PostedIn, Pending, Fading
<1>3. TypeOK' /\ RequestsAreOfUsers' /\ BlocksFollowRequests'
  BY <1>1 DEF IInv, TypeOK, RequestsAreOfUsers, BlocksFollowRequests, authVars, bounds
<1>4. UNCHANGED <<Inside, AllGone, currentUser, unheard, revocations>>
  BY <1>1 DEF Inside, AllGone, authVars, bounds
<1>5. InsideIsSettled'
  BY <1>1, <1>2, <1>4 DEF IInv, InsideIsSettled
<1>6. RootOk'
  <2>1. ASSUME AnswersFindSomebody
        PROVE  AnswersFindSomebody'
    BY <1>1, <1>2, <1>4, <2>1 DEF AnswersFindSomebody
  <2>2. ASSUME PendingRootsAgree
        PROVE  PendingRootsAgree'
    BY <1>1, <1>2, <1>4, <2>2 DEF PendingRootsAgree
  <2>3. QED
    BY <1>4, <2>1, <2>2 DEF IInv, RootOk
<1>7. QED
  BY <1>3, <1>5, <1>6 DEF IInv

--------------------------------------------------------------------------------
(* Users come and go. *)

LEMMA SignOutByForceKeeps ==
  ASSUME IInv, SignOutByForce
  PROVE  IInv'
<1>1. /\ currentUser' = NoUser /\ revocations' = revocations + 1
      /\ revocations + restarts < MaxMishaps
      /\ UNCHANGED <<accounts, windowVars, requests, mainQueue, unheard, logouts, restarts>>
  BY DEF SignOutByForce
<1>2. revocations \in Nat /\ restarts \in Nat /\ MaxMishaps \in Nat
  BY SessionBounds DEF IInv, TypeOK
<1>3. revocations' \in 0..MaxMishaps /\ revocations' # 0
  BY <1>1, <1>2
<1>4. TypeOK' /\ RequestsAreOfUsers' /\ BlocksFollowRequests'
  BY <1>1, <1>3 DEF IInv, TypeOK, RequestsAreOfUsers, BlocksFollowRequests, windowVars
<1>5. InsideIsSettled' /\ RootOk'
  BY <1>1, <1>3 DEF IInv, InsideIsSettled, RootOk, Inside, AllGone, Posted, windowVars
<1>6. QED
  BY <1>4, <1>5 DEF IInv

LEMMA DidTapLogoutKeeps ==
  ASSUME IInv, DidTapLogout
  PROVE  IInv'
<1>1. /\ screen = "chooser" /\ window = "shown" /\ logouts < MaxLogouts /\ logouts' = logouts + 1
      /\ UNCHANGED <<accounts, windowVars, requests, revocations, restarts>>
  BY DEF DidTapLogout, Touchable
<1>2. logouts \in Nat /\ MaxLogouts \in Nat /\ mainQueue \in Seq(Block)
  BY SessionBounds DEF IInv, TypeOK
<1>3. logouts' \in 0..MaxLogouts /\ logouts' > 0
  BY <1>1, <1>2
<1>4. UNCHANGED <<screen, window, swaps, Inside, AllGone>> /\ Inside /\ AllGone /\ swaps = <<>>
      /\ ~Posted("chooser")
  BY <1>1 DEF windowVars, Inside, AllGone, IInv, InsideIsSettled
<1>5. CASE currentUser' = NoUser /\ CheckAuthentication(mainQueue) /\ unheard' = FALSE
  <2> DEFINE block == GoToBlock("login")
  <2>1. /\ mainQueue' = Append(mainQueue, block) /\ block \in Block
        /\ \A q \in RequestIds : block # CreateUserBlock(q) /\ block # CompletionBlock(q)
        /\ block = GoToBlock("login") /\ block # GoToBlock("chooser")
    BY <1>5, Blocks, RootNames DEF CheckAuthentication, DecidedRoot
  <2> HIDE DEF block
  <2>2. /\ mainQueue' \in Seq(Block) /\ BlocksFollowRequests'
        /\ Posted("login")' /\ ~Posted("chooser")'
    BY <1>1, <1>2, <1>4, <2>1, BlockJoinsQueue, RootNames
    DEF IInv, BlocksFollowRequests, Posted
  <2>3. TypeOK' /\ RequestsAreOfUsers'
    BY <1>1, <1>3, <1>5, <2>2 DEF IInv, TypeOK, RequestsAreOfUsers, windowVars
  <2>4. InsideIsSettled'
    BY <1>3, <1>4, <2>2 DEF InsideIsSettled
  <2>5. Pending("login")' /\ ~Pending("chooser")'
    BY <1>4, <2>2 DEF Pending, Fading
  <2>6. AnswersFindSomebody'
    BY <1>1, <1>4, <2>5 DEF AnswersFindSomebody, AllGone
  <2>7. PendingRootsAgree'
    BY <1>5, <2>5 DEF PendingRootsAgree
  <2>8. QED
    BY <2>2, <2>3, <2>4, <2>6, <2>7 DEF IInv, RootOk
<1>6. CASE /\ mainQueue' = Append(mainQueue, AlertBlock("chooser", "logoutError"))
           /\ UNCHANGED <<currentUser, unheard>>
  <2>1. "chooser" \in Screens /\ "logoutError" \in Alerts
    BY DEF Screens, Roots, Alerts
  <2>2. mainQueue' \in Seq(Block) /\ PostedSame /\ BlocksFollowRequests'
    BY <1>1, <1>6, <2>1, AlertPosted DEF IInv
  <2>3. TypeOK' /\ RequestsAreOfUsers'
    BY <1>1, <1>3, <1>6, <2>2 DEF IInv, TypeOK, RequestsAreOfUsers, windowVars
  <2>4. InsideIsSettled' /\ RootOk'
    BY <1>1, <1>3, <1>4, <1>6, <2>2, StillKeeps DEF IInv
  <2>5. QED
    BY <2>2, <2>3, <2>4 DEF IInv
<1>7. QED
  BY <1>5, <1>6 DEF DidTapLogout

(* A queue that holds one decided root, and every screen gone. *)
Started ==
  /\ mainQueue = <<GoToBlock(IF currentUser = NoUser THEN "login" ELSE "chooser")>>
  /\ swaps = <<>>
  /\ screen = "none"
  /\ AllGone

LEMMA StartKeeps == Started => BlocksFollowRequests /\ InsideIsSettled /\ RootOk
<1> SUFFICES ASSUME Started
             PROVE  BlocksFollowRequests /\ InsideIsSettled /\ RootOk
  OBVIOUS
<1> DEFINE root == IF currentUser = NoUser THEN "login" ELSE "chooser"
<1>1. DOMAIN mainQueue = {1} /\ mainQueue[1] = GoToBlock(root) /\ root \in Roots
  BY DEF Started, Roots
<1>2. BlocksFollowRequests
  BY <1>1, Blocks DEF BlocksFollowRequests, BlocksFollow
<1>3. \A x \in Roots : Pending(x) <=> x = root
  BY <1>1, Blocks DEF Started, Pending, Posted, PostedIn, Fading
<1>4. (Pending("login") <=> currentUser = NoUser) /\ (Pending("chooser") <=> currentUser # NoUser)
  BY <1>3, RootNames
<1>5. InsideIsSettled
  BY DEF Started, InsideIsSettled, Inside
<1>6. AnswersFindSomebody /\ PendingRootsAgree
  BY <1>4 DEF Started, AnswersFindSomebody, PendingRootsAgree, Inside, AllGone
<1>7. QED
  BY <1>2, <1>5, <1>6 DEF RootOk

LEMMA RestartKeeps ==
  ASSUME IInv, Restart
  PROVE  IInv'
<1>1. /\ revocations + restarts < MaxMishaps /\ restarts' = restarts + 1
      /\ UNCHANGED <<authVars, logouts, revocations>>
      /\ screen' = "none" /\ window' = "shown" /\ swaps' = <<>> /\ presented' = "none"
      /\ unheard' = FALSE
  BY DEF Restart
<1>2. /\ revocations \in Nat /\ restarts \in Nat /\ MaxMishaps \in Nat
      /\ requests \in Seq(Request) /\ DOMAIN requests = 1..Len(requests) /\ Len(requests) \in Nat
  BY SessionBounds DEF IInv, TypeOK
<1>3. restarts' \in 0..MaxMishaps
  BY <1>1, <1>2
<1>4. DOMAIN requests' = DOMAIN requests
  BY DEF Restart
<1>5. ASSUME NEW r \in DOMAIN requests
      PROVE  /\ requests'[r] \in Request /\ requests'[r].from = "gone"
             /\ requests'[r].kind = requests[r].kind /\ requests'[r].uid = requests[r].uid
  <2>1. requests[r] \in Request
    BY <1>2
  <2>2. requests'[r] = [requests[r] EXCEPT !.from = "gone", !.stage = "done"]
    BY DEF Restart
  <2>3. QED
    BY <2>1, <2>2 DEF Request
<1>6. requests' \in Seq(Request) /\ Len(requests') = Len(requests)
  <2>1. requests' = [r \in 1..Len(requests) |-> requests'[r]]
    BY <1>2 DEF Restart
  <2>2. QED
    BY <1>2, <1>5, <2>1
<1>7. AllGone' /\ RequestsAreOfUsers'
  BY <1>4, <1>5 DEF AllGone, RequestsAreOfUsers, IInv
<1>8. mainQueue' = <<GoToBlock(DecidedRoot)>>
  <2>1. mainQueue' = Append(<<>>, GoToBlock(DecidedRoot))
    BY DEF Restart, CheckAuthentication
  <2>2. \A block : Append(<<>>, block) = <<block>>
    OBVIOUS
  <2>3. QED
    BY <2>1, <2>2
<1>9. Started'
  BY <1>1, <1>7, <1>8 DEF Started, DecidedRoot
<1>10. mainQueue' \in Seq(Block)
  <2>1. DecidedRoot \in Roots
    BY DEF DecidedRoot, Roots
  <2>2. GoToBlock(DecidedRoot) \in Block
    BY <2>1, Blocks
  <2>3. QED
    BY <1>8, <2>2
<1>11. TypeOK'
  <2>1. swaps' \in Seq(Roots)
    BY <1>1
  <2>2. QED
    BY <1>1, <1>3, <1>6, <1>10, <2>1 DEF IInv, TypeOK, authVars
<1>12. Started' => BlocksFollowRequests' /\ InsideIsSettled' /\ RootOk'
  BY StartKeeps, PTL
<1>13. QED
  BY <1>7, <1>9, <1>11, <1>12 DEF IInv

--------------------------------------------------------------------------------

LEMMA InitIInv == Init => IInv
<1> SUFFICES ASSUME Init
             PROVE  IInv
  OBVIOUS
<1> DEFINE root == IF currentUser = NoUser THEN "login" ELSE "chooser"
<1>1. root \in Roots /\ mainQueue = <<GoToBlock(root)>>
  BY DEF Init, Roots
<1> HIDE DEF root
<1>2. mainQueue \in Seq(Block)
  <2>1. GoToBlock(root) \in Block
    BY <1>1, Blocks
  <2>2. QED
    BY <1>1, <2>1
<1>3. /\ 0 \in 0..MaxLogouts /\ 0 \in 0..MaxMishaps /\ MaxRequests \in Nat
  BY SessionBounds
<1>4. /\ requests \in Seq(Request) /\ Len(requests) <= MaxRequests
      /\ swaps \in Seq(Roots)
  <2>1. requests = <<>> /\ swaps = <<>>
    BY DEF Init
  <2>2. QED
    BY <1>3, <2>1
<1>5. TypeOK
  BY <1>2, <1>3, <1>4 DEF Init, TypeOK
<1>6. AllGone /\ RequestsAreOfUsers
  BY DEF Init, AllGone, RequestsAreOfUsers
<1>7. Started
  BY <1>6 DEF Init, Started
<1>8. QED
  BY <1>5, <1>6, <1>7, StartKeeps DEF IInv

LEMMA StutterKeeps ==
  ASSUME IInv, UNCHANGED vars
  PROVE  IInv'
BY DEF IInv, TypeOK, RequestsAreOfUsers, BlocksFollowRequests, InsideIsSettled, RootOk, Inside, AllGone,
       AnswersFindSomebody, PendingRootsAgree, Pending, Posted, Fading,
       vars, authVars, windowVars, bounds

LEMMA NextKeepsIInv == IInv /\ [Next]_vars => IInv'
<1> SUFFICES ASSUME IInv, [Next]_vars
             PROVE  IInv'
  OBVIOUS
<1>1. CASE UserTaps
  BY <1>1, TapToSendKeeps, TapWithInvalidInputKeeps, PushKeeps, DidTapBackKeeps, PresentedKeeps,
     DidTapLogoutKeeps DEF UserTaps
<1>2. CASE RunMainQueue
  BY <1>2, RunGoToKeeps, RunCreateUserKeeps, RunCompletionKeeps, RunAlertKeeps DEF RunMainQueue
<1>3. CASE \E r \in RequestIds : AuthAnswers(r) \/ AnswerSetData(r)
  BY <1>3, AuthAnswersKeeps
<1>4. CASE \E i \in 1..MaxRequests + 1 : CompleteFadeOut(i)
  BY <1>4, CompleteFadeOutKeeps
<1>5. CASE CompleteFadeIn
  BY <1>5, CompleteFadeInKeeps
<1>6. CASE SignOutByForce
  BY <1>6, SignOutByForceKeeps
<1>7. CASE Restart
  BY <1>7, RestartKeeps
<1>8. CASE UNCHANGED vars
  BY <1>8, StutterKeeps
<1>9. QED
  BY <1>1, <1>2, <1>3, <1>4, <1>5, <1>6, <1>7, <1>8 DEF Next

LEMMA IInvHolds == Spec => []IInv
BY InitIInv, NextKeepsIInv, PTL DEF Spec

(* Blocks, alerts and roots that are posted, faded in and presented are of *)
(* the kinds the handlers post, and whoever is signed in has an account.   *)
THEOREM TypeCorrect == Spec => []TypeOK
<1>1. IInv => TypeOK
  BY DEF IInv
<1>2. QED
  BY <1>1, IInvHolds, PTL

(* However many sign-ins, registrations and logouts overlap, the root that *)
(* SceneDelegate's checkAuthentication put in place agrees, at rest, with  *)
(* who is signed in, for as long as a success has been heard.              *)
THEOREM RootAgrees == Spec => []RootAgreesAtRest
<1>1. ASSUME IInv
      PROVE  RootAgreesAtRest
  <2> SUFFICES ASSUME AtRest, revocations = 0, ~unheard
               PROVE  Inside <=> currentUser # NoUser
    BY DEF RootAgreesAtRest
  <2>1. ~Pending("login") /\ ~Pending("chooser")
    BY DEF AtRest, Pending, Posted, PostedIn, Fading
  <2>2. \A r \in DOMAIN requests : ~Late(requests[r])
    BY DEF AtRest, Late
  <2>3. PendingRootsAgree
    BY <1>1 DEF IInv, RootOk
  <2>4. QED
    BY <2>1, <2>2, <2>3 DEF PendingRootsAgree
<1>2. QED
  BY <1>1, IInvHolds, PTL

(* Whoever is inside and can touch the screen is led out by didTapLogout   *)
(* and by nothing else: no root that another attempt decided on is pending.*)
THEOREM OnlyLogout == Spec => []OnlyLogoutLeadsOut
<1>1. IInv => OnlyLogoutLeadsOut
  BY DEF IInv, InsideIsSettled, OnlyLogoutLeadsOut, Posted, PostedIn
<1>2. QED
  BY <1>1, IInvHolds, PTL

--------------------------------------------------------------------------------
(* Alerts.  What an alert says is settled when its block is posted; the    *)
(* request it speaks of is over by then, and does not change any more.     *)

Spoken == {"signInError", "registrationError", "resetError", "resetSent"}

Alerting(queue, alert) ==
  \E i \in DOMAIN queue : queue[i].block = "alert" /\ queue[i].alert = alert
Shown(alert) == presented = alert \/ Alerting(mainQueue, alert)

Over == {"done", "unheard"}
Tells(request, alert) ==
  /\ \/ request.result = "success" /\ alert = "resetSent"
     \/ request.result # "success" /\ alert = FailureAlert(request.kind)
     \/ request.stage = "unheard" /\ alert = "signInError"
  /\ request.stage \in Over
Told(alert) == \E r \in DOMAIN requests : Tells(requests[r], alert)

OverIsGone ==
  \A r \in DOMAIN requests : requests[r].stage \in Over =>
    /\ requests[r].from = "gone"
    /\ requests[r].stage = "unheard" => Unheard(requests[r])

AInv == OverIsGone /\ \A alert \in Spoken : Shown(alert) => Told(alert)

LEMMA AlertsOfQueues ==
  ASSUME NEW queue \in Seq(Block), NEW alert
  PROVE  /\ queue # <<>> /\ Alerting(Tail(queue), alert) => Alerting(queue, alert)
         /\ \A block \in Block :
              Alerting(Append(queue, block), alert) =>
                Alerting(queue, alert) \/ (block.block = "alert" /\ block.alert = alert)
<1>1. ASSUME queue # <<>>, Alerting(Tail(queue), alert)
      PROVE  Alerting(queue, alert)
  <2>1. \A i \in DOMAIN Tail(queue) : i + 1 \in DOMAIN queue /\ Tail(queue)[i] = queue[i + 1]
    <3>1. /\ Len(queue) \in Nat \ {0} /\ DOMAIN queue = 1..Len(queue)
          /\ Len(Tail(queue)) = Len(queue) - 1 /\ DOMAIN Tail(queue) = 1..Len(queue) - 1
      BY <1>1
    <3>2. QED
      BY <1>1, <3>1
  <2>2. QED
    BY <1>1, <2>1 DEF Alerting
<1>2. ASSUME NEW block \in Block, Alerting(Append(queue, block), alert)
      PROVE  Alerting(queue, alert) \/ (block.block = "alert" /\ block.alert = alert)
  <2>1. \A i \in DOMAIN Append(queue, block) :
          \/ i \in DOMAIN queue /\ Append(queue, block)[i] = queue[i]
          \/ Append(queue, block)[i] = block
    OBVIOUS
  <2>2. QED
    BY <1>2, <2>1 DEF Alerting
<1>3. QED
  BY <1>1, <1>2

LEMMA BlocksThatAlert ==
  /\ \A root : GoToBlock(root).block # "alert"
  /\ \A r : CreateUserBlock(r).block # "alert" /\ CompletionBlock(r).block # "alert"
  /\ \A on, alert : AlertBlock(on, alert).block = "alert" /\ AlertBlock(on, alert).alert = alert
BY DEF GoToBlock, CreateUserBlock, CompletionBlock, AlertBlock

LEMMA OrphansAlertLess ==
  ASSUME NEW gone, NEW alert, mainQueue \in Seq(Block), Alerting(OrphanAlerts(gone), alert)
  PROVE  Alerting(mainQueue, alert)
<1>1. PICK i \in DOMAIN OrphanAlerts(gone) :
        OrphanAlerts(gone)[i].block = "alert" /\ OrphanAlerts(gone)[i].alert = alert
  BY DEF Alerting
<1>2. i \in DOMAIN mainQueue /\ mainQueue[i] \in Block
  BY <1>1 DEF OrphanAlerts
<1>3. mainQueue[i].block = "alert" /\ mainQueue[i].alert = alert
  BY <1>1, <1>2 DEF OrphanAlerts, Block
<1>4. QED
  BY <1>2, <1>3 DEF Alerting

(* Requests that are over stay as they are, and no new alert speaks of     *)
(* anything but a request that is over.                                    *)
LEMMA TellingKeeps ==
  ASSUME AInv,
         \A r \in DOMAIN requests : requests[r].stage \in Over =>
           /\ r \in DOMAIN requests'
           /\ requests'[r].kind = requests[r].kind
           /\ requests'[r].result = requests[r].result
           /\ requests'[r].stage = requests[r].stage,
         OverIsGone',
         \A alert \in Spoken : Shown(alert)' => Shown(alert) \/ Told(alert)'
  PROVE  AInv'
<1>1. ASSUME NEW alert \in Spoken, Told(alert)
      PROVE  Told(alert)'
  BY <1>1 DEF Told, Tells
<1>2. QED
  BY <1>1 DEF AInv

(* No request moves, and nothing is posted or presented that speaks of one.*)
LEMMA SilentKeeps ==
  ASSUME AInv, UNCHANGED requests,
         \A alert \in Spoken : Shown(alert)' => Shown(alert)
  PROVE  AInv'
<1>1. OverIsGone'
  BY DEF AInv, OverIsGone
<1>2. QED
  BY <1>1, TellingKeeps

LEMMA TapsKeepAlerts ==
  ASSUME IInv, AInv, UserTaps
  PROVE  AInv'
<1>1. mainQueue \in Seq(Block) /\ requests \in Seq(Request)
  BY DEF IInv, TypeOK
<1>2. ASSUME NEW kind, NEW uid, NEW from, Send(kind, uid, from)
      PROVE  AInv'
  <2> DEFINE new == [kind |-> kind, uid |-> uid, from |-> from, stage |-> "sent", result |-> "none"]
  <2>1. requests' = Append(requests, new) /\ new.stage = "sent" /\ UNCHANGED <<presented, mainQueue>>
    BY <1>2 DEF Send, windowVars
  <2> HIDE DEF new
  <2>2. /\ \A r \in DOMAIN requests : r \in DOMAIN requests' /\ requests'[r] = requests[r]
        /\ \A r \in DOMAIN requests' : r \in DOMAIN requests \/ requests'[r] = new
    BY <1>1, <2>1
  <2>3. OverIsGone'
    BY <2>1, <2>2 DEF AInv, OverIsGone, Over
  <2>4. \A alert \in Spoken : Shown(alert)' => Shown(alert)
    BY <2>1 DEF Shown
  <2>5. QED
    BY <2>2, <2>3, <2>4, TellingKeeps
<1>3. ASSUME NEW s \in {"login", "register", "forgot"}, TapWithInvalidInput(s)
      PROVE  AInv'
  <2>1. /\ mainQueue' = Append(mainQueue, AlertBlock(s, "invalidInput"))
        /\ UNCHANGED <<presented, requests>>
    BY <1>3 DEF TapWithInvalidInput, Post, windowVars
  <2>2. AlertBlock(s, "invalidInput") \in Block
    BY Blocks DEF Screens, Roots, Alerts
  <2>3. \A alert \in Spoken : Shown(alert)' => Shown(alert)
    BY <1>1, <2>1, <2>2, AlertsOfQueues, BlocksThatAlert DEF Shown, Spoken
  <2>4. QED
    BY <2>1, <2>3, SilentKeeps
<1>4. ASSUME UNCHANGED <<requests, mainQueue>>, presented' \in {presented, "terms", "none"}
      PROVE  AInv'
  <2>1. \A alert \in Spoken : Shown(alert)' => Shown(alert)
    BY <1>4 DEF Shown, Spoken
  <2>2. QED
    BY <1>4, <2>1, SilentKeeps
<1>5. CASE DidTapNewUser \/ DidTapForgot \/ DidTapEvent \/ ShowWebViewer \/ DidTapDismiss
  BY <1>4, <1>5 DEF DidTapNewUser, DidTapForgot, DidTapEvent, Push, ShowWebViewer, DidTapDismiss
<1>6. ASSUME NEW from, NEW to, Pop(from, to)
      PROVE  AInv'
  <2> DEFINE gone == {from}
  <2>1. OrphanRequests(gone) /\ mainQueue' = OrphanAlerts(gone) /\ UNCHANGED presented
    BY <1>6 DEF Pop
  <2> HIDE DEF gone
  <2>2. /\ DOMAIN requests' = DOMAIN requests
        /\ \A r \in DOMAIN requests :
             /\ requests'[r].kind = requests[r].kind
             /\ requests'[r].stage = requests[r].stage
             /\ requests'[r].result = requests[r].result
             /\ requests'[r].from \in {requests[r].from, "gone"}
    BY <2>1, OrphanedRequests DEF IInv
  <2>3. OverIsGone'
    BY <2>2 DEF AInv, OverIsGone, Unheard
  <2>4. \A alert \in Spoken : Shown(alert)' => Shown(alert)
    BY <1>1, <2>1, OrphansAlertLess DEF Shown
  <2>5. QED
    BY <2>2, <2>3, <2>4, TellingKeeps
<1>7. CASE DidTapLogout
  <2>1. UNCHANGED <<presented, requests>>
    BY <1>7 DEF DidTapLogout, windowVars
  <2>2. PICK block \in Block : /\ mainQueue' = Append(mainQueue, block)
                               /\ block.block = "alert" => block.alert = "logoutError"
    <3>1. GoToBlock(DecidedRoot) \in Block /\ AlertBlock("chooser", "logoutError") \in Block
      BY Blocks DEF DecidedRoot, Roots, Screens, Alerts
    <3>2. QED
      BY <1>7, <3>1, BlocksThatAlert DEF DidTapLogout, CheckAuthentication
  <2>3. \A alert \in Spoken : Shown(alert)' => Shown(alert)
    BY <1>1, <2>1, <2>2, AlertsOfQueues DEF Shown, Spoken
  <2>4. QED
    BY <2>1, <2>3, SilentKeeps
<1>8. QED
  BY <1>2, <1>3, <1>5, <1>6, <1>7
  DEF UserTaps, DidTapSignIn, DidTapSignUp, DidTapForgotPassword, DidTapBack

(* A request that is not over moves on, and is not over yet. *)
LEMMA MovesKeepAlerts ==
  ASSUME IInv, AInv, NEW r \in DOMAIN requests, requests[r].stage \notin Over, NEW request,
         requests' = [requests EXCEPT ![r] = request], request.stage \notin Over,
         UNCHANGED presented,
         \/ mainQueue # <<>> /\ mainQueue' = Tail(mainQueue)
         \/ \E block \in Block : mainQueue' = Append(mainQueue, block) /\ block.block # "alert"
  PROVE  AInv'
<1>1. mainQueue \in Seq(Block)
  BY DEF IInv, TypeOK
<1>2. /\ DOMAIN requests' = DOMAIN requests /\ requests'[r] = request
      /\ \A q \in DOMAIN requests : q # r => requests'[q] = requests[q]
  OBVIOUS
<1>3. OverIsGone'
  BY <1>2 DEF AInv, OverIsGone
<1>4. ASSUME NEW alert \in Spoken, Alerting(mainQueue', alert)
      PROVE  Alerting(mainQueue, alert)
  <2>1. CASE mainQueue # <<>> /\ mainQueue' = Tail(mainQueue)
    BY <1>1, <1>4, <2>1, AlertsOfQueues
  <2>2. ASSUME NEW block \in Block, mainQueue' = Append(mainQueue, block), block.block # "alert"
        PROVE  Alerting(mainQueue, alert)
    BY <1>1, <1>4, <2>2, AlertsOfQueues
  <2>3. QED
    BY <2>1, <2>2
<1>5. \A alert \in Spoken : Shown(alert)' => Shown(alert)
  BY <1>4 DEF Shown
<1>6. \A q \in DOMAIN requests : requests[q].stage \in Over => requests'[q] = requests[q]
  BY <1>2
<1>7. QED
  BY <1>2, <1>3, <1>5, <1>6, TellingKeeps

LEMMA AnswersKeepAlerts ==
  ASSUME IInv, AInv, NEW r \in RequestIds, AuthAnswers(r) \/ AnswerSetData(r)
  PROVE  AInv'
<1>1. /\ r \in DOMAIN requests /\ requests[r].stage \in {"sent", "saving"}
      /\ UNCHANGED presented
  BY DEF AuthAnswers, AnswerSetData, AnswerSignIn, AnswerCreateUser, AnswerPasswordReset, Waiting,
         Fail, Succeed, windowVars
<1>2. PICK stage \in {"created", "answered"},
            result \in {"none", "success", "error", "unsaved"} : Answered(r, stage, result)
  BY DEF AuthAnswers, AnswerSetData, AnswerSignIn, AnswerCreateUser, AnswerPasswordReset, Fail, Succeed
<1>3. \E block \in Block : mainQueue' = Append(mainQueue, block) /\ block.block # "alert"
  BY Blocks, BlocksThatAlert
  DEF AuthAnswers, AnswerSetData, AnswerSignIn, AnswerCreateUser, AnswerPasswordReset, Fail, Succeed
<1> DEFINE request == [requests[r] EXCEPT !.stage = stage, !.result = result]
<1>4. requests[r] \in Request
  BY <1>1 DEF IInv, TypeOK
<1>5. requests' = [requests EXCEPT ![r] = request] /\ request.stage = stage
  BY <1>1, <1>2, <1>4 DEF Answered, Request
<1> HIDE DEF request
<1>6. stage \notin Over /\ requests[r].stage \notin Over
  BY <1>1 DEF Over
<1>7. QED
  BY <1>1, <1>3, <1>5, <1>6, MovesKeepAlerts

LEMMA CompletionKeepsAlerts ==
  ASSUME IInv, AInv, NEW r \in RequestIds, RunCompletion(r)
  PROVE  AInv'
<1> DEFINE request == requests[r]
           alert   == IF request.kind = "reset" /\ request.result = "success"
                      THEN "resetSent" ELSE FailureAlert(request.kind)
           alerts  == request.from # "gone"
                        /\ ~(request.kind = "register" /\ request.result = "success")
           heard   == HeardBy(request, request.from)
<1>1. PICK stage \in Over :
        /\ HandlerDone(r, stage) /\ RunBlock(CompletionBlock(r)) /\ UNCHANGED presented
        /\ \/ heard /\ stage = "done" /\ CheckAuthentication(Tail(mainQueue))
           \/ /\ ~heard
              /\ stage = IF Unheard(request) THEN "unheard" ELSE "done"
              /\ mainQueue' = IF alerts THEN Append(Tail(mainQueue), AlertBlock(request.from, alert))
                              ELSE Tail(mainQueue)
  BY DEF RunCompletion, windowVars, Over
<1>2. /\ mainQueue \in Seq(Block) /\ mainQueue # <<>> /\ Tail(mainQueue) \in Seq(Block)
      /\ r \in DOMAIN requests /\ request \in Request
      /\ DOMAIN requests' = DOMAIN requests
      /\ \A q \in DOMAIN requests : q # r => requests'[q] = requests[q]
  BY <1>1, HandlerRuns DEF Over
<1>3. requests'[r] = [request EXCEPT !.stage = stage, !.from = "gone"]
  BY <1>1, <1>2 DEF HandlerDone
<1>4. /\ requests'[r].kind = request.kind /\ requests'[r].result = request.result
      /\ requests'[r].stage = stage /\ requests'[r].from = "gone"
      /\ request.kind \in {"signIn", "register", "reset"}
      /\ request.from \in {"login", "register", "forgot", "gone"}
  BY <1>2, <1>3 DEF Request
<1>5. heard => request.from # "gone"
  BY DEF HeardBy, InWindow, IInv, TypeOK, Screens, Roots
<1>6. OverIsGone'
  <2>1. stage = "unheard" => Unheard(request)
    BY <1>1
  <2>2. QED
    BY <1>2, <1>4, <2>1 DEF AInv, OverIsGone, Unheard
<1>7. ASSUME NEW q \in DOMAIN requests, requests[q].stage \in Over
      PROVE  /\ requests'[q].kind = requests[q].kind
             /\ requests'[q].result = requests[q].result
             /\ requests'[q].stage \in Over
             /\ requests[q].stage = "unheard" => requests'[q].stage = "unheard"
  <2>1. CASE q = r
    BY <1>1, <1>4, <1>5, <1>7, <2>1 DEF AInv, OverIsGone
  <2>2. CASE q # r
    BY <1>2, <1>7, <2>2
  <2>3. QED
    BY <2>1, <2>2
<1>8. ASSUME NEW a \in Spoken, Told(a)
      PROVE  Told(a)'
  BY <1>2, <1>7, <1>8 DEF Told, Tells
<1>9. ASSUME NEW a \in Spoken, Shown(a)'
      PROVE  Shown(a) \/ Told(a)'
  <2>1. CASE mainQueue' = Tail(mainQueue)
    BY <1>1, <1>2, <1>9, <2>1, AlertsOfQueues DEF Shown
  <2>2. CASE heard /\ CheckAuthentication(Tail(mainQueue))
    <3>1. GoToBlock(DecidedRoot) \in Block /\ mainQueue' = Append(Tail(mainQueue), GoToBlock(DecidedRoot))
      BY <2>2, Blocks DEF DecidedRoot, Roots, CheckAuthentication
    <3>2. QED
      BY <1>1, <1>2, <1>9, <3>1, AlertsOfQueues, BlocksThatAlert DEF Shown
  <2>3. CASE ~heard /\ alerts /\ mainQueue' = Append(Tail(mainQueue), AlertBlock(request.from, alert))
             /\ stage = IF Unheard(request) THEN "unheard" ELSE "done"
    <3>1. request.from \in Screens /\ alert \in Alerts
      BY <1>4, <2>3 DEF Screens, Roots, Alerts, FailureAlert
    <3>2. Shown(a) \/ a = alert
      <4> DEFINE block == AlertBlock(request.from, alert)
      <4>1. /\ block \in Block /\ block.alert = alert
            /\ mainQueue' = Append(Tail(mainQueue), block)
        BY <2>3, <3>1, Blocks, BlocksThatAlert
      <4> HIDE DEF block, alert
      <4>2. Alerting(mainQueue', a) => Alerting(Tail(mainQueue), a) \/ a = alert
        BY <1>2, <4>1, AlertsOfQueues
      <4>3. QED
        BY <1>1, <1>2, <1>9, <4>2, AlertsOfQueues DEF Shown
    <3>3. Tells(requests'[r], alert)
      BY <1>1, <1>4, <2>3 DEF Tells, Unheard, FailureAlert
    <3>4. QED
      BY <1>2, <3>2, <3>3 DEF Told
  <2>4. QED
    BY <1>1, <2>1, <2>2, <2>3
<1>10. QED
  BY <1>6, <1>8, <1>9 DEF AInv

LEMMA MainQueueKeepsAlerts ==
  ASSUME IInv, AInv, RunMainQueue
  PROVE  AInv'
<1>1. mainQueue \in Seq(Block) /\ requests \in Seq(Request)
  BY DEF IInv, TypeOK
<1>2. ASSUME NEW root \in Roots, RunGoTo(root)
      PROVE  AInv'
  <2>1. mainQueue # <<>> /\ mainQueue' = Tail(mainQueue) /\ UNCHANGED <<presented, requests>>
    BY <1>2 DEF RunGoTo, RunBlock
  <2>2. \A alert \in Spoken : Shown(alert)' => Shown(alert)
    BY <1>1, <2>1, AlertsOfQueues DEF Shown
  <2>3. QED
    BY <2>1, <2>2, SilentKeeps
<1>3. ASSUME NEW on, NEW alert \in Alerts, RunAlert(on, alert)
      PROVE  AInv'
  <2>1. /\ mainQueue # <<>> /\ Head(mainQueue) = AlertBlock(on, alert)
        /\ mainQueue' = Tail(mainQueue) /\ presented' \in {presented, alert}
        /\ UNCHANGED requests
    BY <1>3 DEF RunAlert, RunBlock
  <2>2. Alerting(mainQueue, alert)
    <3>1. 1 \in DOMAIN mainQueue /\ mainQueue[1] = AlertBlock(on, alert)
      BY <1>1, <2>1
    <3>2. QED
      BY <3>1, BlocksThatAlert DEF Alerting
  <2>3. \A a \in Spoken : Shown(a)' => Shown(a)
    BY <1>1, <2>1, <2>2, AlertsOfQueues DEF Shown
  <2>4. QED
    BY <2>1, <2>3, SilentKeeps
<1>4. ASSUME NEW r \in RequestIds, RunCreateUser(r)
      PROVE  AInv'
  <2> DEFINE request == [requests[r] EXCEPT !.stage = "saving"]
  <2>1. /\ mainQueue # <<>> /\ mainQueue' = Tail(mainQueue) /\ UNCHANGED presented
        /\ Head(mainQueue) = CreateUserBlock(r)
    BY <1>4 DEF RunCreateUser, RunBlock, windowVars
  <2>2. r \in DOMAIN requests /\ requests[r].stage = "created" /\ requests[r] \in Request
    BY <1>1, <2>1, HeadOfQueue DEF IInv, BlocksFollowRequests
  <2>3. requests' = [requests EXCEPT ![r] = request] /\ request.stage = "saving"
    BY <1>4, <2>2 DEF RunCreateUser, Request
  <2> HIDE DEF request
  <2>4. request.stage \notin Over /\ requests[r].stage \notin Over
    BY <2>2, <2>3 DEF Over
  <2>5. QED
    BY <2>1, <2>2, <2>3, <2>4, MovesKeepAlerts
<1>5. QED
  BY <1>2, <1>3, <1>4, CompletionKeepsAlerts DEF RunMainQueue

LEMMA NextKeepsAInv == IInv /\ AInv /\ [Next]_vars => AInv'
<1> SUFFICES ASSUME IInv, AInv, [Next]_vars
             PROVE  AInv'
  OBVIOUS
<1>1. mainQueue \in Seq(Block) /\ requests \in Seq(Request)
  BY DEF IInv, TypeOK
<1>2. CASE \E i \in 1..MaxRequests + 1 : CompleteFadeOut(i)
  <2> DEFINE gone == Screens
  <2>1. OrphanRequests(gone) /\ mainQueue' = OrphanAlerts(gone) /\ presented' = "none"
    BY <1>2 DEF CompleteFadeOut
  <2> HIDE DEF gone
  <2>2. /\ DOMAIN requests' = DOMAIN requests
        /\ \A r \in DOMAIN requests :
             /\ requests'[r].kind = requests[r].kind
             /\ requests'[r].stage = requests[r].stage
             /\ requests'[r].result = requests[r].result
             /\ requests'[r].from \in {requests[r].from, "gone"}
    BY <2>1, OrphanedRequests DEF IInv
  <2>3. OverIsGone'
    BY <2>2 DEF AInv, OverIsGone, Unheard
  <2>4. \A alert \in Spoken : Shown(alert)' => Shown(alert)
    BY <1>1, <2>1, OrphansAlertLess DEF Shown, Spoken
  <2>5. QED
    BY <2>2, <2>3, <2>4, TellingKeeps
<1>3. CASE CompleteFadeIn \/ SignOutByForce \/ UNCHANGED vars
  <2>1. UNCHANGED <<presented, mainQueue, requests>>
    BY <1>3 DEF CompleteFadeIn, SignOutByForce, vars, windowVars
  <2>2. QED
    BY <2>1, SilentKeeps DEF Shown
<1>4. CASE Restart
  <2>1. /\ presented' = "none" /\ mainQueue' = Append(<<>>, GoToBlock(DecidedRoot))
        /\ DOMAIN requests' = DOMAIN requests
        /\ \A r \in DOMAIN requests :
             requests'[r] = [requests[r] EXCEPT !.from = "gone", !.stage = "done"]
    BY <1>4 DEF Restart, CheckAuthentication
  <2>2. \A alert \in Spoken : ~Shown(alert)'
    <3> DEFINE block == GoToBlock(DecidedRoot)
    <3>1. block.block # "alert" /\ mainQueue' = Append(<<>>, block)
      BY <2>1, BlocksThatAlert
    <3> HIDE DEF block
    <3>2. \A i \in DOMAIN mainQueue' : mainQueue'[i] = block
      <4>1. mainQueue' = <<block>>
        BY <3>1
      <4>2. QED
        BY <4>1
    <3>3. \A alert : ~Alerting(mainQueue', alert)
      BY <3>1, <3>2 DEF Alerting
    <3>4. QED
      BY <2>1, <3>3 DEF Shown, Spoken
  <2>3. \A r \in DOMAIN requests' : requests'[r].from = "gone" /\ requests'[r].stage = "done"
    <3>1. ASSUME NEW r \in DOMAIN requests
          PROVE  requests'[r].from = "gone" /\ requests'[r].stage = "done"
      <4>1. requests[r] \in Request
        BY <1>1
      <4>2. requests'[r] = [requests[r] EXCEPT !.from = "gone", !.stage = "done"]
        BY <2>1
      <4>3. QED
        BY <4>1, <4>2 DEF Request
    <3>2. QED
      BY <2>1, <3>1
  <2>4. QED
    BY <2>2, <2>3 DEF AInv, OverIsGone
<1>5. QED
  BY <1>2, <1>3, <1>4, TapsKeepAlerts, MainQueueKeepsAlerts, AnswersKeepAlerts DEF Next

LEMMA InitAInv == Init => AInv
<1> SUFFICES ASSUME Init
             PROVE  AInv
  OBVIOUS
<1>1. /\ requests = <<>> /\ presented = "none"
      /\ \E root : mainQueue = <<GoToBlock(root)>>
  BY DEF Init
<1>2. \A alert : ~Alerting(mainQueue, alert)
  BY <1>1, BlocksThatAlert DEF Alerting
<1>3. QED
  BY <1>1, <1>2 DEF AInv, OverIsGone, Shown, Spoken

(* An alert over a screen tells the truth about a request: AlertManager is *)
(* asked for "Error Signing In" and its like by the handler of a failure,  *)
(* or of a sign-in that succeeded behind another screen.                   *)
THEOREM AlertsTell == Spec => []AlertsTellWhatHappened
<1>1. ASSUME IInv, AInv
      PROVE  AlertsTellWhatHappened
  <2>1. \A alert \in Spoken : presented = alert => Told(alert)
    BY <1>1 DEF AInv, Shown
  <2>2. QED
    BY <1>1, <2>1 DEF IInv, AlertsTellWhatHappened, Spoken, Told, Tells, Over
<1>2. QED
  BY <1>1, IInvHolds, InitAInv, NextKeepsAInv, PTL DEF Spec

================================================================================
