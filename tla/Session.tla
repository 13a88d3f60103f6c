-------------------------------- MODULE Session --------------------------------
(***************************************************************************)
(* Which screen a person is on and who is signed in: SceneDelegate, the    *)
(* login, register and forgot-password screens, the event chooser with its *)
(* logout, and the alerts, over AuthService and Firebase Auth.             *)
(*                                                                         *)
(* No screen is disabled while its request is in flight, so several may be *)
(* on their way, and the screen that sent one may be covered by another,   *)
(* popped, or replaced with its whole navigation stack before the answer.  *)
(* The answer's handler holds its screen weakly.  Pushes and pops count as *)
(* instantaneous; the change of the root, which is not, is taken apart.    *)
(***************************************************************************)
EXTENDS Naturals, Sequences, SequencesExt

CONSTANTS Users,           \* uids, one for each set of credentials
          NoUser,          \* nobody is signed in
          MaxRequests,     \* bound on the requests made of Auth
          MaxLogouts,      \* bound on the taps on "Logout"
          MaxMishaps,      \* bound on the sign-outs forced by the backend and
                           \* the restarts of the app, taken together
          MaxBacklog       \* bound on the blocks behind which a bad entry is alerted

ASSUME NoUserIsNoUid == NoUser \notin Users
ASSUME SessionBounds ==
  {MaxRequests, MaxLogouts, MaxMishaps, MaxBacklog} \subseteq Nat

VARIABLES currentUser, \* Auth.auth().currentUser, kept in the keychain
          accounts,    \* uids that the Auth backend knows
          screen,      \* the top of the window's navigation stack
          window,      \* "dark": faded out, "fadingIn", or "shown"
          swaps,       \* roots decided on whose fade-out has begun
          presented,   \* the alert or sheet over the screen
          requests,    \* requests made of AuthService, in order
          mainQueue,   \* blocks posted to the main queue, oldest first
          unheard,     \* history: see RootAgreesAtRest
          logouts, revocations, restarts

authVars   == <<currentUser, accounts>>
windowVars == <<screen, window, swaps, presented>>
bounds     == <<logouts, revocations, restarts>>
vars == <<authVars, windowVars, requests, mainQueue, unheard, bounds>>

Roots   == {"login", "chooser"}
Screens == Roots \cup {"register", "forgot", "services"}
Alerts  == {"invalidInput", "signInError", "registrationError",
            "resetSent", "resetError", "logoutError"}

(* A request is sent to Auth; a registration then saves the profile; the   *)
(* result is what its completion handler is given: "unsaved" is the error  *)
(* of a registration whose account was made and whose profile was refused. *)
(* "from" becomes "gone" when the screen is deallocated or the handler has *)
(* run; "unheard" is done with, but a success that led to no               *)
(* checkAuthentication.                                                    *)
Request == [kind   : {"signIn", "register", "reset"},
            uid    : Users \cup {NoUser},
            from   : {"login", "register", "forgot", "gone"},
            stage  : {"sent", "created", "saving", "answered", "done", "unheard"},
            result : {"none", "success", "error", "unsaved"}]

RequestIds == 1..MaxRequests

CreateUserBlock(r) == [block |-> "createUser", request |-> r]
CompletionBlock(r) == [block |-> "completion", request |-> r]
AlertBlock(on, alert) == [block |-> "alert", on |-> on, alert |-> alert]
GoToBlock(root)    == [block |-> "goTo", to |-> root]

Block == [block : {"createUser", "completion"}, request : RequestIds]
           \cup [block : {"alert"}, on : Screens \cup {"gone"}, alert : Alerts]
           \cup [block : {"goTo"}, to : Roots]

TypeOK ==
  /\ accounts \subseteq Users
  /\ currentUser \in accounts \cup {NoUser}
  /\ screen \in Screens \cup {"none"}
  /\ window \in {"dark", "fadingIn", "shown"}
  /\ swaps \in Seq(Roots)
  /\ presented \in Alerts \cup {"terms", "none"}
  /\ requests \in Seq(Request)
  /\ Len(requests) <= MaxRequests
  /\ mainQueue \in Seq(Block)
  /\ unheard \in BOOLEAN
  /\ logouts \in 0..MaxLogouts
  /\ revocations \in 0..MaxMishaps
  /\ restarts \in 0..MaxMishaps

Inside == screen \in {"chooser", "services"}

(* Touches reach the screen: a window that fades, or lies under an alert   *)
(* or a sheet, gets none.                                                  *)
Touchable(s) == screen = s /\ window = "shown" /\ presented = "none"

--------------------------------------------------------------------------------
(* SceneDelegate *)

(* The root is decided on at once; goToViewController posts the rest.      *)
DecidedRoot == IF currentUser' = NoUser THEN "login" ELSE "chooser"
CheckAuthentication(queue) == mainQueue' = Append(queue, GoToBlock(DecidedRoot))

(* Somebody may be signed in from before: Auth reads the keychain.         *)
Init ==
  /\ accounts \in SUBSET Users
  /\ currentUser \in accounts \cup {NoUser}
  /\ screen = "none"
  /\ window = "shown"
  /\ swaps = <<>>
  /\ presented = "none"
  /\ requests = <<>>
  /\ mainQueue = <<GoToBlock(IF currentUser = NoUser THEN "login" ELSE "chooser")>>
  /\ unheard = FALSE
  /\ logouts = 0
  /\ revocations = 0
  /\ restarts = 0

RunBlock(block) ==
  /\ mainQueue # <<>>
  /\ Head(mainQueue) = block

(* The posted block fades the window out.                                  *)
RunGoTo(root) ==
  /\ RunBlock(GoToBlock(root))
  /\ mainQueue' = Tail(mainQueue)
  /\ window' = "dark"
  /\ swaps' = Append(swaps, root)
  /\ UNCHANGED <<authVars, screen, presented, requests, unheard, bounds>>

(* What becomes of requests and alerts whose screens are deallocated.      *)
OrphanRequests(gone) ==
  requests' = [r \in DOMAIN requests |->
                 IF requests[r].from \in gone
                 THEN [requests[r] EXCEPT !.from = "gone"] ELSE requests[r]]
OrphanAlerts(gone) ==
  [i \in DOMAIN mainQueue |->
     IF mainQueue[i].block = "alert" /\ mainQueue[i].on \in gone
     THEN [mainQueue[i] EXCEPT !.on = "gone"] ELSE mainQueue[i]]

(* Faulty variants, named for the fault, stand before the definition they  *)
(* vary; no specification uses them.                                       *)
NewRootChecksAgain(i) ==
  /\ i \in DOMAIN swaps
  /\ UNCHANGED <<authVars, unheard, bounds>>
  /\ screen' = swaps[i]
  /\ swaps' = RemoveAt(swaps, i)
  /\ window' = "fadingIn"
  /\ presented' = "none"
  /\ OrphanRequests(Screens)
  /\ CheckAuthentication(OrphanAlerts(Screens))

(* The fade-out is over and the root replaced.  A fade of a window already *)
(* dark has nothing to animate and may be over before an earlier one.      *)
CompleteFadeOut(i) ==
  /\ i \in DOMAIN swaps
  /\ screen' = swaps[i]
  /\ swaps' = RemoveAt(swaps, i)
  /\ window' = "fadingIn"
  /\ presented' = "none"
  /\ OrphanRequests(Screens)
  /\ mainQueue' = OrphanAlerts(Screens)
  /\ UNCHANGED <<authVars, unheard, bounds>>

(* The main queue is drained many times in the quarter of a second of the  *)
(* fade-in, and a fade-out under way ends before it.                       *)
CompleteFadeIn ==
  /\ window = "fadingIn"
  /\ swaps = <<>>
  /\ mainQueue = <<>>
  /\ window' = "shown"
  /\ UNCHANGED <<authVars, screen, swaps, presented, requests, mainQueue, unheard, bounds>>

--------------------------------------------------------------------------------
(* Taps on the login, register and forgot-password screens *)

Post(block) ==
  /\ mainQueue' = Append(mainQueue, block)
  /\ UNCHANGED <<authVars, windowVars, requests, unheard, bounds>>

(* The fields do not pass the Validator: an alert, and nothing is sent.    *)
TapWithInvalidInput(s) ==
  /\ Touchable(s)
  /\ Len(mainQueue) < MaxBacklog
  /\ Post(AlertBlock(s, "invalidInput"))

Send(kind, uid, from) ==
  /\ Touchable(from)
  /\ Len(requests) < MaxRequests
  /\ requests' = Append(requests, [kind |-> kind, uid |-> uid, from |-> from,
                                   stage |-> "sent", result |-> "none"])
  /\ UNCHANGED <<authVars, windowVars, mainQueue, unheard, bounds>>

DidTapSignIn(uid)         == Send("signIn", uid, "login")
DidTapSignUp(uid)         == Send("register", uid, "register")
DidTapForgotPassword      == Send("reset", NoUser, "forgot")

Push(from, to) ==
  /\ Touchable(from)
  /\ screen' = to
  /\ UNCHANGED <<authVars, window, swaps, presented, requests, mainQueue, unheard, bounds>>

DidTapNewUser == Push("login", "register")
DidTapForgot  == Push("login", "forgot")
DidTapEvent   == Push("chooser", "services")

(* The back buttons, and "Sign In" on the register screen.                 *)
Pop(from, to) ==
  /\ Touchable(from)
  /\ screen' = to
  /\ OrphanRequests({from})
  /\ mainQueue' = OrphanAlerts({from})
  /\ UNCHANGED <<authVars, window, swaps, presented, unheard, bounds>>

DidTapBack == \/ Pop("register", "login")
              \/ Pop("forgot", "login")
              \/ Pop("services", "chooser")

(* A link in the terms under the register form. *)
ShowWebViewer ==
  /\ Touchable("register")
  /\ presented' = "terms"
  /\ UNCHANGED <<authVars, screen, window, swaps, requests, mainQueue, unheard, bounds>>

(* "Dismiss" of an alert, "Done" of the sheet. *)
DidTapDismiss ==
  /\ presented # "none"
  /\ window = "shown"
  /\ presented' = "none"
  /\ UNCHANGED <<authVars, screen, window, swaps, requests, mainQueue, unheard, bounds>>

--------------------------------------------------------------------------------
(* Firebase Auth and Firestore answer, on threads of their own.            *)

Answered(r, stage, result) ==
  requests' = [requests EXCEPT ![r].stage = stage, ![r].result = result]

Waiting(r, kind, stage) ==
  /\ r \in DOMAIN requests
  /\ requests[r].kind = kind
  /\ requests[r].stage = stage

Fail(r, error) ==
  /\ Answered(r, "answered", error)
  /\ mainQueue' = Append(mainQueue, CompletionBlock(r))
  /\ UNCHANGED <<currentUser, windowVars, unheard, bounds>>

Succeed(r) ==
  /\ Answered(r, "answered", "success")
  /\ mainQueue' = Append(mainQueue, CompletionBlock(r))
  /\ UNCHANGED <<accounts, windowVars, unheard, bounds>>

AnswerSignIn(r) ==
  /\ Waiting(r, "signIn", "sent")
  /\ \/ Fail(r, "error") /\ UNCHANGED accounts
     \/ /\ requests[r].uid \in accounts
        /\ currentUser' = requests[r].uid
        /\ Succeed(r)

(* The account may have been made although the answer was lost.  An        *)
(* account that exists is not made again.                                  *)
AnswerCreateUser(r) ==
  /\ Waiting(r, "register", "sent")
  /\ \/ Fail(r, "error") /\ accounts' \in {accounts, accounts \cup {requests[r].uid}}
     \/ /\ requests[r].uid \notin accounts
        /\ accounts' = accounts \cup {requests[r].uid}
        /\ currentUser' = requests[r].uid
        /\ Answered(r, "created", "none")
        /\ mainQueue' = Append(mainQueue, CreateUserBlock(r))
        /\ UNCHANGED <<windowVars, unheard, bounds>>

(* createUser's own handler has no screen to lose: the profile is written. *)
RunCreateUser(r) ==
  /\ RunBlock(CreateUserBlock(r))
  /\ mainQueue' = Tail(mainQueue)
  /\ requests' = [requests EXCEPT ![r].stage = "saving"]
  /\ UNCHANGED <<authVars, windowVars, unheard, bounds>>

(* The backend has answered the write of the profile, which may take       *)
(* forever: offline, or under another user's credential.                   *)
AnswerSetData(r) ==
  /\ Waiting(r, "register", "saving")
  /\ \/ Fail(r, "unsaved") /\ UNCHANGED accounts
     \/ Succeed(r) /\ UNCHANGED currentUser

AnswerPasswordReset(r) ==
  /\ Waiting(r, "reset", "sent")
  /\ \/ Fail(r, "error") /\ UNCHANGED accounts
     \/ Succeed(r) /\ UNCHANGED currentUser

(* Auth drops a user whose token the backend has revoked; no screen listens. *)
SignOutByForce ==
  /\ revocations + restarts < MaxMishaps
  /\ currentUser # NoUser
  /\ currentUser' = NoUser
  /\ revocations' = revocations + 1
  /\ UNCHANGED <<accounts, windowVars, requests, mainQueue, unheard, logouts, restarts>>

--------------------------------------------------------------------------------
(* Completion handlers *)

(* view.window of the screen that made the request is not nil. *)
InWindow(s) == screen = s

FailureAlert(kind) == CASE kind = "signIn"   -> "signInError"
                        [] kind = "register" -> "registrationError"
                        [] kind = "reset"    -> "resetError"

HandlerDone(r, stage) ==
  requests' = [requests EXCEPT ![r].stage = stage, ![r].from = "gone"]

(* Said of a handler that asks for no checkAuthentication: somebody was    *)
(* signed in all the same.                                                 *)
Unheard(request) == request.result \in {"success", "unsaved"} /\ request.kind # "reset"

HeardBy(request, s) ==
  request.result = "success" /\ request.kind # "reset" /\ InWindow(s)

(* A success is acted on whatever has become of the screen.                *)
CompletionKeepsItsScreen(r) ==
  /\ UNCHANGED <<authVars, windowVars, bounds>>
  /\ RunBlock(CompletionBlock(r))
  /\ HandlerDone(r, "done")
  /\ unheard' = FALSE
  /\ IF requests[r].result = "success"
     THEN CheckAuthentication(Tail(mainQueue))
     ELSE mainQueue' = Tail(mainQueue)

(* One alert for both outcomes.                                            *)
CompletionAlwaysAlerts(r) ==
  /\ UNCHANGED <<authVars, windowVars, bounds, unheard>>
  /\ RunBlock(CompletionBlock(r))
  /\ HandlerDone(r, "done")
  /\ mainQueue' = IF requests[r].from = "gone" THEN Tail(mainQueue)
                  ELSE Append(Tail(mainQueue),
                              AlertBlock(requests[r].from, FailureAlert(requests[r].kind)))

(* The screen has gone: nothing happens.  A failure: an alert.  A success: *)
(* checkAuthentication, if the screen is in the window; if it is covered,  *)
(* the login screen says that the sign-in failed.                          *)
RunCompletion(r) ==
  LET request == requests[r]
      heard   == HeardBy(request, request.from)
      alert   == IF request.kind = "reset" /\ request.result = "success"
                 THEN "resetSent" ELSE FailureAlert(request.kind)
      alerts  == request.from # "gone" /\ ~(request.kind = "register" /\ request.result = "success")
  IN
    /\ UNCHANGED <<authVars, windowVars, bounds>>
    /\ RunBlock(CompletionBlock(r))
    /\ \/ /\ heard
          /\ CheckAuthentication(Tail(mainQueue))
          /\ HandlerDone(r, "done")
          /\ unheard' = FALSE
       \/ /\ ~heard
          /\ mainQueue' = IF alerts THEN Append(Tail(mainQueue), AlertBlock(request.from, alert))
                          ELSE Tail(mainQueue)
          /\ HandlerDone(r, IF Unheard(request) THEN "unheard" ELSE "done")
          /\ unheard' = (unheard \/ Unheard(request))

(* AlertManager presents from a block of its own.  UIKit presents nothing  *)
(* from a screen that presents already or has gone, and may or may not     *)
(* from a screen that another one covers.                                  *)
RunAlert(on, alert) ==
  /\ RunBlock(AlertBlock(on, alert))
  /\ mainQueue' = Tail(mainQueue)
  /\ \/ presented = "none" /\ on # "gone" /\ presented' = alert
     \/ (presented # "none" \/ ~InWindow(on)) /\ UNCHANGED presented
  /\ UNCHANGED <<authVars, screen, window, swaps, requests, unheard, bounds>>

LogoutForgetsToDecide ==
  /\ Touchable("chooser")
  /\ logouts < MaxLogouts
  /\ logouts' = logouts + 1
  /\ currentUser' = NoUser
  /\ UNCHANGED <<accounts, mainQueue, unheard, windowVars, requests, revocations, restarts>>

(* signOut completes at once: the user is gone, or the keychain refused.   *)
DidTapLogout ==
  /\ Touchable("chooser")
  /\ logouts < MaxLogouts
  /\ logouts' = logouts + 1
  /\ \/ /\ currentUser' = NoUser
        /\ CheckAuthentication(mainQueue)
        /\ unheard' = FALSE
     \/ /\ currentUser # NoUser
        /\ mainQueue' = Append(mainQueue, AlertBlock("chooser", "logoutError"))
        /\ UNCHANGED <<currentUser, unheard>>
  /\ UNCHANGED <<accounts, windowVars, requests, revocations, restarts>>

(* The process ends and the scene connects again: what was in memory is    *)
(* gone, and a request sent may or may not have had its effect.            *)
Restart ==
  /\ revocations + restarts < MaxMishaps
  /\ UNCHANGED <<authVars, logouts, revocations>>
  /\ restarts' = restarts + 1
  /\ requests' = [r \in DOMAIN requests |->
                    [requests[r] EXCEPT !.from = "gone", !.stage = "done"]]
  /\ screen' = "none"
  /\ window' = "shown"
  /\ swaps' = <<>>
  /\ presented' = "none"
  /\ unheard' = FALSE
  /\ CheckAuthentication(<<>>)

UserTaps ==
  \/ \E uid \in Users : DidTapSignIn(uid) \/ DidTapSignUp(uid)
  \/ DidTapForgotPassword
  \/ \E s \in {"login", "register", "forgot"} : TapWithInvalidInput(s)
  \/ DidTapNewUser \/ DidTapForgot \/ DidTapEvent \/ DidTapBack
  \/ ShowWebViewer \/ DidTapDismiss \/ DidTapLogout

RunMainQueue ==
  \/ \E root \in Roots : RunGoTo(root)
  \/ \E r \in RequestIds : RunCreateUser(r) \/ RunCompletion(r)
  \/ \E on \in Screens \cup {"gone"}, alert \in Alerts : RunAlert(on, alert)

AuthAnswers(r) == AnswerSignIn(r) \/ AnswerCreateUser(r) \/ AnswerPasswordReset(r)

Next ==
  \/ UserTaps
  \/ RunMainQueue
  \/ \E r \in RequestIds : AuthAnswers(r) \/ AnswerSetData(r)
  \/ \E i \in 1..MaxRequests + 1 : CompleteFadeOut(i)
  \/ CompleteFadeIn
  \/ SignOutByForce
  \/ Restart

Spec == Init /\ [][Next]_vars

(* The main queue is drained, animations end, and Auth gives up on an      *)
(* unanswered request after its timeout.  Nothing is assumed of people, of *)
(* revocations and restarts, of what is answered, or of whether the write  *)
(* of a profile is answered at all.                                        *)
Fairness ==
  /\ WF_vars(RunMainQueue)
  /\ WF_vars(\E i \in 1..MaxRequests + 1 : CompleteFadeOut(i))
  /\ WF_vars(CompleteFadeIn)
  /\ \A r \in RequestIds : WF_vars(AuthAnswers(r))

LiveSpec == Spec /\ Fairness

--------------------------------------------------------------------------------

AtRest ==
  /\ mainQueue = <<>>
  /\ swaps = <<>>
  /\ \A r \in DOMAIN requests : requests[r].stage \in {"done", "unheard"}

(* checkAuthentication decides on the user of one moment and the root is   *)
(* replaced later, while other attempts are answered and people log out.   *)
(* Once all is quiet, the event chooser is shown to somebody signed in and *)
(* the login screen to nobody, unless the backend has forced a sign-out or *)
(* a success found the screen that asked for it gone, covered, or busy     *)
(* with a refused profile, and nothing has been decided since.             *)
RootAgreesAtRest ==
  AtRest /\ revocations = 0 /\ ~unheard => (Inside <=> currentUser # NoUser)

(* Two attempts answered in a row decide on two new roots.  Nobody who is  *)
(* inside and can touch the screen loses it, with the cart it holds, to    *)
(* any of them: only a logout of their own takes them out.                 *)
OnlyLogoutLeadsOut ==
  Inside /\ window = "shown" =>
    /\ swaps = <<>>
    /\ \A i \in DOMAIN mainQueue : mainQueue[i] = GoToBlock("login") =>
         logouts > 0
    /\ \A i \in DOMAIN mainQueue : mainQueue[i] # GoToBlock("chooser")

(* What is on the screen makes sense: an alert names a failure that        *)
(* happened.  An attempt of its kind failed, or a sign-in succeeded behind *)
(* another screen, which the login screen takes for a failure; "Password   *)
(* Reset Sent" follows a request granted.                                  *)
AlertsTellWhatHappened ==
  /\ TypeOK
  /\ \A alert \in {"signInError", "registrationError", "resetError", "resetSent"} :
       presented = alert =>
         \E r \in DOMAIN requests :
           /\ \/ requests[r].result = "success" /\ alert = "resetSent"
              \/ requests[r].result # "success" /\ alert = FailureAlert(requests[r].kind)
              \/ requests[r].stage = "unheard" /\ alert = "signInError"
           /\ requests[r].stage \in {"done", "unheard"}

Answer(r, result) ==
  Waiting(r, "signIn", "answered") /\ requests[r].result = result

(* Who waits on the login screen for a sign-in that succeeds gets inside.  *)
SignInGetsInside ==
  \A r \in RequestIds :
    Answer(r, "success") /\ requests[r].from = screen /\ screen = "login"
      ~> Inside \/ screen # "login" \/ revocations > 0

(* However many roots are decided on at once, the window does not stay     *)
(* faded out.                                                              *)
WindowComesBack == window # "shown" ~> window = "shown" /\ screen # "none"

================================================================================
