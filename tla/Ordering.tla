-------------------------------- MODULE Ordering --------------------------------
(***************************************************************************)
(* From the tap on "Submit order" to the document the company reads:       *)
(* CheckoutViewModel.submitOrder, the account it is submitted from         *)
(* (AuthService), and the Firestore client beneath both.                   *)
(*                                                                         *)
(* Every handler runs on the main thread.  Blocks posted to the main queue *)
(* run in the order they were posted; taps come between any two of them,   *)
(* and the Auth and Firestore workers post blocks at any time.  What a     *)
(* handler asks of Firestore is an operation on Firestore's worker queue,  *)
(* which is served later, in order, and is gone when the process ends.     *)
(***************************************************************************)
EXTENDS FirestoreClient

CONSTANTS Carts,           \* what a checkout screen may hold: services and total
          MaxSubmissions,  \* bound on the taps on "Submit order"
          MaxAuthChanges,  \* bound on the changes of the signed-in user
          MaxRestarts      \* bound on the restarts of the app

ASSUME BoundsAssumption == /\ MaxSubmissions \in Nat
                           /\ MaxAuthChanges \in Nat
                           /\ MaxRestarts \in Nat

VARIABLES currentUser,  \* Auth.auth().currentUser, kept in the keychain
          accounts,     \* uids that the Auth backend knows
          insideApp,    \* the root is the event chooser, not the login screen
          mainQueue,    \* blocks posted to the main queue, oldest first
          workerQueue,  \* operations enqueued for Firestore, oldest first
          submissions,  \* the calls of submitOrder, in order
          reads,        \* submissions whose getDocument is unanswered
          orders,       \* the documents given to addDocument; index = id
          taken,        \* orders that Firestore has persisted, and whose queue took them
          dropped,      \* submissions whose profile could not be read
          sentShown,    \* submissions that were shown "Order Sent Successfully!"
          authChanges, restarts

authVars  == <<currentUser, accounts, insideApp, authChanges>>
orderVars == <<submissions, reads, orders, dropped, sentShown>>
vars == <<firestoreVars, authVars, orderVars, mainQueue, workerQueue, taken, restarts>>

Submissions == 1..MaxSubmissions

(* The blocks of the main queue this model tells apart. *)
AuthStateDidChange(u)   == [block |-> "authStateDidChange", uid |-> u]
CheckAuthentication     == [block |-> "checkAuthentication"]
CreateUserCompletion(u) == [block |-> "createUser", uid |-> u]
GetDocumentCompletion(s, exists) ==
  [block |-> "getDocument", submission |-> s, exists |-> exists]

Block == {CheckAuthentication}
           \cup [block : {"authStateDidChange"}, uid : Owners]
           \cup [block : {"createUser"}, uid : Users]
           \cup [block : {"getDocument"}, submission : Submissions, exists : BOOLEAN]

(* The operations that FirestoreClient enqueues: Auth's change of user, a  *)
(* write of setData or addDocument, the listen of a getDocument.           *)
CredentialChange(u) == [operation |-> "credentialChange", uid |-> u]
Write(m)            == [operation |-> "write", mutation |-> m]
Listen(s)           == [operation |-> "listen", submission |-> s]

Operation == [operation : {"credentialChange"}, uid : Owners]
               \cup [operation : {"write"}, mutation : Mutation]
               \cup [operation : {"listen"}, submission : Submissions]

(* What an order document holds: the contact fields copied from the users  *)
(* document of one uid, the services and the total; plus, for the          *)
(* properties, the call it stems from and the launch of the app it was     *)
(* made in.                                                                *)
Order == [contact : Users, cart : Carts, submission : Submissions, launch : 0..MaxRestarts]

TypeOK ==
  /\ FirestoreTypeOK
  /\ currentUser \in Owners
  /\ accounts \subseteq Users
  /\ insideApp \in BOOLEAN
  /\ mainQueue \in Seq(Block)
  /\ workerQueue \in Seq(Operation)
  /\ submissions \in Seq([uid : Owners, cart : Carts])
  /\ Len(submissions) <= MaxSubmissions
  /\ reads \subseteq DOMAIN submissions
  /\ orders \in Seq(Order)
  /\ taken \subseteq [order : DOMAIN orders, under : Owners]
  /\ dropped \subseteq DOMAIN submissions
  /\ sentShown \subseteq DOMAIN submissions
  /\ authChanges \in 0..MaxAuthChanges
  /\ restarts \in 0..MaxRestarts

Init ==
  /\ FirestoreInit
  /\ currentUser = NoUser
  /\ accounts = {}
  /\ insideApp = FALSE
  /\ mainQueue = <<>>
  /\ workerQueue = <<>>
  /\ submissions = <<>>
  /\ reads = {}
  /\ orders = <<>>
  /\ taken = {}
  /\ dropped = {}
  /\ sentShown = {}
  /\ authChanges = 0
  /\ restarts = 0

--------------------------------------------------------------------------------
(* The signed-in user.  Auth sets currentUser first and posts the          *)
(* notification, then the completion handler, to the main queue.           *)

ChangeCurrentUser(u, blocks) ==
  /\ authChanges < MaxAuthChanges
  /\ authChanges' = authChanges + 1
  /\ currentUser' = u
  /\ mainQueue' = mainQueue \o blocks
  /\ UNCHANGED <<firestoreVars, orderVars, workerQueue, taken, restarts>>

(* The answer to createUser: a new account is signed in at once. *)
CreateUser(u) ==
  /\ u \notin accounts
  /\ accounts' = accounts \cup {u}
  /\ ChangeCurrentUser(u, <<AuthStateDidChange(u), CreateUserCompletion(u)>>)
  /\ UNCHANGED insideApp

(* The answer to signIn, possibly of an attempt that a later one overtook. *)
SignIn(u) ==
  /\ u \in accounts
  /\ ChangeCurrentUser(u, <<AuthStateDidChange(u), CheckAuthentication>>)
  /\ UNCHANGED <<accounts, insideApp>>

(* didTapLogout signs out and puts the login screen back.                  *)
DidTapLogout ==
  /\ insideApp
  /\ insideApp' = FALSE
  /\ ChangeCurrentUser(NoUser, <<AuthStateDidChange(NoUser)>>)
  /\ UNCHANGED accounts

(* Auth drops a user whose token the backend has revoked; no screen of the *)
(* app listens.                                                            *)
SignOutByForce ==
  /\ currentUser # NoUser
  /\ ChangeCurrentUser(NoUser, <<AuthStateDidChange(NoUser)>>)
  /\ UNCHANGED <<accounts, insideApp>>

--------------------------------------------------------------------------------
(* Blocks on the main thread. *)

RunBlock(block) ==
  /\ mainQueue # <<>>
  /\ Head(mainQueue) = block
  /\ mainQueue' = Tail(mainQueue)

Enqueue(operation) == workerQueue' = Append(workerQueue, operation)

(* The notification carries the uid of the moment it was posted. *)
RunAuthStateDidChange(u) ==
  /\ RunBlock(AuthStateDidChange(u))
  /\ Enqueue(CredentialChange(u))
  /\ UNCHANGED <<firestoreVars, authVars, orderVars, taken, restarts>>

(* SceneDelegate.checkAuthentication, asked for by a login or register     *)
(* screen that is still in the window.                                     *)
RunCheckAuthentication ==
  /\ RunBlock(CheckAuthentication)
  /\ insideApp' = (insideApp \/ currentUser # NoUser)
  /\ UNCHANGED <<firestoreVars, currentUser, accounts, authChanges, orderVars,
                 workerQueue, taken, restarts>>

(* registerUser saves the profile of the account it has just created. *)
RunCreateUserCompletion(u) ==
  /\ RunBlock(CreateUserCompletion(u))
  /\ Enqueue(Write(UserDoc(u)))
  /\ UNCHANGED <<firestoreVars, authVars, orderVars, taken, restarts>>

OrderOfCurrentUser(s) == [contact    |-> currentUser,
                          cart       |-> submissions[s].cart,
                          submission |-> s,
                          launch     |-> restarts]

OrderOfLastTap(s) == [contact    |-> submissions[s].uid,
                      cart       |-> submissions[Len(submissions)].cart,
                      submission |-> s,
                      launch     |-> restarts]

(* orderData: the contact fields of the document of the captured uid, the  *)
(* captured services and total.                                            *)
OrderData(s) == [contact    |-> submissions[s].uid,
                 cart       |-> submissions[s].cart,
                 submission |-> s,
                 launch     |-> restarts]

(* submitOrder gives the order document to addDocument, which enqueues its *)
(* write and returns; or drops the order.                                  *)
RunGetDocumentCompletion(s, exists) ==
  /\ RunBlock(GetDocumentCompletion(s, exists))
  /\ IF exists
     THEN /\ orders' = Append(orders, OrderData(s))
          /\ Enqueue(Write(OrderDoc(Len(orders) + 1)))
          /\ UNCHANGED dropped
     ELSE /\ dropped' = dropped \cup {s}
          /\ UNCHANGED <<orders, workerQueue>>
  /\ UNCHANGED <<firestoreVars, authVars, submissions, reads, sentShown, taken, restarts>>

(* The tap: submitOrder returns at once, whatever it could do, and the     *)
(* "Order Sent Successfully!" screen is pushed.                            *)
DidTapSubmitOrder(cart) ==
  /\ insideApp
  /\ Len(submissions) < MaxSubmissions
  /\ LET s == Len(submissions) + 1 IN
       /\ submissions' = Append(submissions, [uid |-> currentUser, cart |-> cart])
       /\ IF currentUser = NoUser
          THEN UNCHANGED <<reads, workerQueue>>
          ELSE reads' = reads \cup {s} /\ Enqueue(Listen(s))
       /\ sentShown' = sentShown \cup {s}
  /\ UNCHANGED <<firestoreVars, authVars, mainQueue, orders, taken, dropped, restarts>>

--------------------------------------------------------------------------------
(* Operations on Firestore's worker queue. *)

NextOperation == Head(workerQueue)

TakeOperation(kind) ==
  /\ workerQueue # <<>>
  /\ NextOperation.operation = kind
  /\ workerQueue' = Tail(workerQueue)
  /\ UNCHANGED <<authVars, orderVars, mainQueue, restarts>>

CredentialChangeCancelsTheRest ==
  /\ workerQueue # <<>>
  /\ NextOperation.operation = "credentialChange"
  /\ workerQueue' = <<>>
  /\ HandleCredentialChange(NextOperation.uid)
  /\ UNCHANGED <<authVars, orderVars, mainQueue, taken, restarts>>

RunCredentialChange ==
  /\ TakeOperation("credentialChange")
  /\ HandleCredentialChange(NextOperation.uid)
  /\ UNCHANGED taken

(* The write is persisted: from now on the queue of the user of this       *)
(* moment answers for it.                                                  *)
RunWrite ==
  LET m == NextOperation.mutation IN
    /\ TakeOperation("write")
    /\ WriteMutation(m)
    /\ taken' = IF m.collection = "orders"
                THEN taken \cup {[order |-> m.document, under |-> firestoreUser]}
                ELSE taken

RunListen ==
  /\ TakeOperation("listen")
  /\ UNCHANGED <<firestoreVars, taken>>

IsEnqueued(operation) ==
  \E i \in DOMAIN workerQueue : workerQueue[i] = operation

AnswerIsASubscription(s, exists) ==
  /\ s \in reads
  /\ ~IsEnqueued(Listen(s))
  /\ exists => UserDocExists(submissions[s].uid)
  /\ mainQueue' = Append(mainQueue, GetDocumentCompletion(s, exists))
  /\ UNCHANGED <<firestoreVars, authVars, orderVars, workerQueue, taken, restarts>>

(* Firestore answers getDocument, once it listens: with the document, if   *)
(* it can see one, or with an error or a document that does not exist      *)
(* (offline, refused).                                                     *)
AnswerGetDocument(s, exists) ==
  /\ s \in reads
  /\ ~IsEnqueued(Listen(s))
  /\ exists => UserDocExists(submissions[s].uid)
  /\ reads' = reads \ {s}
  /\ mainQueue' = Append(mainQueue, GetDocumentCompletion(s, exists))
  /\ UNCHANGED <<firestoreVars, authVars, submissions, orders, dropped, sentShown,
                 workerQueue, taken, restarts>>

(* The process ends and the app is launched again: blocks, operations and  *)
(* unanswered reads are gone, the keychain and Firestore's queues of       *)
(* writes are not.  Firestore begins with the user of the keychain, and    *)
(* the scene opens on the event chooser if somebody is signed in.          *)
Restart ==
  /\ restarts < MaxRestarts
  /\ restarts' = restarts + 1
  /\ mainQueue' = <<>>
  /\ workerQueue' = <<>>
  /\ reads' = {}
  /\ insideApp' = (currentUser # NoUser)
  /\ HandleCredentialChange(currentUser)
  /\ UNCHANGED <<currentUser, accounts, authChanges, submissions, orders, taken,
                 dropped, sentShown>>

(* Steps of the Firestore client and its backend that the app sees nothing *)
(* of: addDocument's completion handler only prints.                       *)
SendWrite ==
  /\ FillWritePipeline
  /\ UNCHANGED <<authVars, orderVars, mainQueue, workerQueue, taken, restarts>>

BackendAnswers ==
  /\ HandleRejectedWrite \/ \E m \in inFlight : BackendApplies(m)
  /\ UNCHANGED <<authVars, orderVars, mainQueue, workerQueue, taken, restarts>>

(* The answer to the profile write ends registerUser, and the              *)
(* RegisterViewController, if it has not been left in the meantime, asks   *)
(* for checkAuthentication.                                                *)
WriteAcknowledged ==
  /\ HandleSuccessfulWrite
  /\ \/ UNCHANGED mainQueue
     \/ /\ NextWrite.collection = "users"
        /\ mainQueue' = Append(mainQueue, CheckAuthentication)
  /\ UNCHANGED <<authVars, orderVars, workerQueue, taken, restarts>>

Next ==
  \/ \E u \in Users : CreateUser(u) \/ SignIn(u) \/ RunCreateUserCompletion(u)
  \/ DidTapLogout \/ SignOutByForce
  \/ \E u \in Owners : RunAuthStateDidChange(u)
  \/ RunCheckAuthentication
  \/ \E s \in Submissions, exists \in BOOLEAN :
       AnswerGetDocument(s, exists) \/ RunGetDocumentCompletion(s, exists)
  \/ \E cart \in Carts : DidTapSubmitOrder(cart)
  \/ RunCredentialChange \/ RunWrite \/ RunListen
  \/ SendWrite \/ BackendAnswers \/ WriteAcknowledged
  \/ Restart

Spec == Init /\ [][Next]_vars

(* Blocks and operations run; reads are answered, by the server, by the    *)
(* client's online timeout or by the failure of a connection attempt, as   *)
(* DocumentRead!EveryReadIsAnswered shows of the client in detail; and the *)
(* write pipeline resends until it has an answer.  Nothing is assumed of   *)
(* people, of the signed-in user, of restarts, or of whether an answer is  *)
(* good.                                                                   *)
Fairness ==
  /\ WF_vars(\E u \in Owners : RunAuthStateDidChange(u))
  /\ WF_vars(RunCheckAuthentication)
  /\ WF_vars(\E u \in Users : RunCreateUserCompletion(u))
  /\ WF_vars(\E s \in Submissions, exists \in BOOLEAN :
                RunGetDocumentCompletion(s, exists))
  /\ \A s \in Submissions : WF_vars(\E exists \in BOOLEAN : AnswerGetDocument(s, exists))
  /\ WF_vars(RunCredentialChange \/ RunWrite \/ RunListen)
  /\ WF_vars(SendWrite)
  /\ WF_vars(BackendAnswers)
  /\ WF_vars(WriteAcknowledged)

LiveSpec == Spec /\ Fairness

--------------------------------------------------------------------------------

(* submitOrder captures its arguments and the uid in the closure of        *)
(* getDocument.  Whoever is signed in when the answer comes, and whatever  *)
(* was submitted in between, the order holds the cart of the tap it stems  *)
(* from and the contact of the user who made that tap.                     *)
OrdersMatchSubmissions ==
  \A n \in DOMAIN orders :
    LET submission == submissions[orders[n].submission] IN
      /\ orders[n].submission \in DOMAIN submissions
      /\ orders[n].contact = submission.uid
      /\ orders[n].cart = submission.cart

(* One tap on "Submit order" makes at most one order document, although    *)
(* the write is resent after every broken stream and every restart.        *)
AtMostOneOrderPerSubmission ==
  \A n1, n2 \in DOMAIN orders :
    orders[n1].submission = orders[n2].submission => n1 = n2

(* An order that was given to addDocument is not lost but in one way: the  *)
(* process ends while its write is still an operation of the worker queue. *)
(* Once the worker has persisted it, the queue of the user of that moment  *)
(* has it until the backend has it or has refused it, through restarts,    *)
(* changes of user and broken streams.                                     *)
NoOrderLeaks ==
  /\ \A n \in DOMAIN orders : \/ IsEnqueued(Write(OrderDoc(n)))
                              \/ \E t \in taken : t.order = n
                              \/ orders[n].launch < restarts
  /\ \A t \in taken : \/ InQueue(OrderDoc(t.order), t.under)
                      \/ t.order \in ordersStored
                      \/ OrderDoc(t.order) \in refused

(* An order does not reach the company ahead of the profile of the         *)
(* customer it names, when both went into that customer's queue:           *)
(* registerUser's setData may be unanswered when the first order is made.  *)
ProfileGoesFirst ==
  \A t \in taken :
    LET customer == orders[t.order].contact IN
      /\ t.under = customer
      /\ InQueue(UserDoc(customer), customer) \/ IsEnqueued(Write(UserDoc(customer)))
      /\ t.order \in ordersStored
      => customer \in usersStored

(* What the company reads is what was submitted: the documents in the     *)
(* backend's "orders", seen without the bookkeeping of this model, follow  *)
(* the intake specification.                                               *)
ReceivedOrder(n) == [contact    |-> orders[n].contact,
                     cart       |-> orders[n].cart,
                     submission |-> orders[n].submission]

Intake == INSTANCE OrderIntake
            WITH asked <- submissions,
                 received <- {ReceivedOrder(n) : n \in ordersStored}

OrdersFollowIntake == Intake!Spec

(* Every tap of a signed-in user comes to something, however long the      *)
(* network is away, whoever signs in and out meanwhile: unless the app is  *)
(* restarted first, Firestore has persisted its order, or its profile      *)
(* could not be read.                                                      *)
EverySubmissionIsAnswered ==
  \A s \in Submissions, launch \in 0..MaxRestarts :
    s \in reads /\ restarts = launch
      ~> \/ \E t \in taken : orders[t.order].submission = s
         \/ s \in dropped
         \/ restarts > launch


(* "Order Sent Successfully!" is shown of an order that is sent, or is     *)
(* still on its way: read, queued, or answered by the backend with success. *)
ShownOrderIsSent ==
  \A s \in sentShown :
    \/ s \in reads
    \/ \E i \in DOMAIN mainQueue : mainQueue[i] = GetDocumentCompletion(s, TRUE)
    \/ \E n \in DOMAIN orders : /\ orders[n].submission = s
                                /\ OrderDoc(n) \notin refused

================================================================================
