----------------------------- MODULE OrderingProofs -----------------------------
(***************************************************************************)
(* Safety of Ordering for every set of users and carts and every bound:    *)
(* types, the two invariants on orders, and that what the company reads    *)
(* follows OrderIntake.                                                    *)
(*                                                                         *)
(* The invariant is inductive once it says where a submission may be: its  *)
(* read is unanswered, or its answer is one block of the main queue, or it *)
(* is one order; and where an order may be: its write is one operation of  *)
(* the worker queue, or Firestore has taken it, or a restart has lost it.  *)
(* Never two of these.                                                     *)
(***************************************************************************)
EXTENDS Ordering, TLAPS

(* Position i of the main queue is the answer to submission s. *)
AnswerAt(i, s) ==
  \E exists \in BOOLEAN : mainQueue[i] = GetDocumentCompletion(s, exists)

(* Only submissions of a signed-in user are read, and what has been        *)
(* answered is no longer being read; an answer is posted once.             *)
ReadsAreSubmissions ==
  \A s \in reads : submissions[s].uid # NoUser

AnswersAreSubmissions ==
  \A i \in DOMAIN mainQueue : \A s \in Submissions :
    AnswerAt(i, s) => /\ s \in DOMAIN submissions
                      /\ submissions[s].uid # NoUser
                      /\ s \notin reads

AnswersAreUnique ==
  \A i, j \in DOMAIN mainQueue : \A s \in Submissions :
    AnswerAt(i, s) /\ AnswerAt(j, s) => i = j

(* An order's submission is neither being read nor waiting for its answer. *)
OrdersAreAnswered ==
  \A n \in DOMAIN orders :
    /\ orders[n].submission \notin reads
    /\ \A i \in DOMAIN mainQueue : ~AnswerAt(i, orders[n].submission)

(* Firestore's queues, streams and backend hold the orders it has taken,   *)
(* and no others.                                                          *)
IsTaken(n) == \E t \in taken : t.order = n
Made(m) == m.collection = "orders" => IsTaken(m.document)

OrderWritesWereMade ==
  /\ \A u \in Owners : \A i \in DOMAIN mutationQueue[u] : Made(mutationQueue[u][i])
  /\ \A m \in inFlight : Made(m)
  /\ \A n \in ordersStored : IsTaken(n)

(* Position i of the worker queue is the write of order n. *)
OrderAt(i, n) == workerQueue[i] = Write(OrderDoc(n))

(* The write of an order is enqueued once, and is not enqueued any more    *)
(* when the order has been taken.                                          *)
EnqueuedOrdersAreNew ==
  \A i \in DOMAIN workerQueue : \A n \in OrderIds :
    OrderAt(i, n) => /\ n \in DOMAIN orders
                     /\ ~IsTaken(n)
                     /\ \A j \in DOMAIN workerQueue : OrderAt(j, n) => i = j

IInv == /\ TypeOK
        /\ ReadsAreSubmissions
        /\ AnswersAreSubmissions
        /\ AnswersAreUnique
        /\ OrdersAreAnswered
        /\ OrdersMatchSubmissions
        /\ AtMostOneOrderPerSubmission
        /\ EnqueuedOrdersAreNew
        /\ OrderWritesWereMade

--------------------------------------------------------------------------------
(* The main queue. *)

OrdersNameSubmissions ==
  \A n \in DOMAIN orders : orders[n].submission \in Submissions

AnswersInv == /\ AnswersAreSubmissions
              /\ AnswersAreUnique
              /\ OrdersAreAnswered

(* The blocks that are no answers. *)
OtherBlock == {CheckAuthentication} \cup [block : {"authStateDidChange"}, uid : Owners]
                \cup [block : {"createUser"}, uid : Users]

LEMMA AnswerBlocks ==
  /\ \A b \in OtherBlock, s \in Submissions, e \in BOOLEAN :
       b \in Block /\ b # GetDocumentCompletion(s, e)
  /\ \A s, s2 \in Submissions, e, e2 \in BOOLEAN :
       /\ GetDocumentCompletion(s, e) \in Block
       /\ GetDocumentCompletion(s, e) = GetDocumentCompletion(s2, e2) => s = s2
BY DEF OtherBlock, Block, GetDocumentCompletion, AuthStateDidChange, CheckAuthentication

(* Posting blocks that are no answers changes no answer. *)
LEMMA PostOtherBlocks ==
  ASSUME mainQueue \in Seq(Block), AnswersInv, OrdersNameSubmissions,
         NEW blocks \in Seq(OtherBlock),
         mainQueue' = mainQueue \o blocks,
         UNCHANGED <<submissions, reads, orders>>
  PROVE  mainQueue' \in Seq(Block) /\ AnswersInv'
<1>1. blocks \in Seq(Block)
  BY AnswerBlocks DEF OtherBlock, Block
<1>2. mainQueue' \in Seq(Block)
  BY <1>1
<1>3. \A i \in DOMAIN mainQueue', s \in Submissions :
        AnswerAt(i, s)' => i \in DOMAIN mainQueue /\ AnswerAt(i, s)
  BY <1>1, AnswerBlocks DEF AnswerAt
<1>4. QED
  BY <1>2, <1>3 DEF AnswersInv, AnswersAreSubmissions, AnswersAreUnique, OrdersAreAnswered,
                       OrdersNameSubmissions

(* Running a block that is no answer, or whose answer adds no order. *)
LEMMA RunBlockKeepsAnswers ==
  ASSUME mainQueue \in Seq(Block), AnswersInv, OrdersNameSubmissions,
         mainQueue # <<>>,
         mainQueue' = Tail(mainQueue),
         UNCHANGED <<submissions, reads, orders>>
  PROVE  mainQueue' \in Seq(Block) /\ AnswersInv'
<1>1. mainQueue' \in Seq(Block)
  OBVIOUS
<1>2. \A i \in DOMAIN mainQueue', s \in Submissions :
        AnswerAt(i, s)' => i + 1 \in DOMAIN mainQueue /\ AnswerAt(i + 1, s)
  BY DEF AnswerAt
<1>3. DOMAIN mainQueue' \subseteq Nat
  BY <1>1
<1>4. QED
  BY <1>1, <1>2, <1>3 DEF AnswersInv, AnswersAreSubmissions, AnswersAreUnique, OrdersAreAnswered,
                       OrdersNameSubmissions

--------------------------------------------------------------------------------
(* The Firestore client. *)

LEMMA MutationTypes ==
  /\ \A u \in Users : UserDoc(u) \in Mutation /\ Made(UserDoc(u))
  /\ \A n \in OrderIds : OrderDoc(n) \in Mutation
BY DEF UserDoc, OrderDoc, Mutation, Made

(* Taking the head off the current user's queue. *)
LEMMA DropKeeps ==
  ASSUME FirestoreTypeOK, OrderWritesWereMade, HasWork, DropNextWrite
  PROVE  /\ mutationQueue' \in [Owners -> Seq(Mutation)]
         /\ NextWrite \in Mutation
         /\ \A u \in Owners : \A i \in DOMAIN mutationQueue'[u] : Made(mutationQueue'[u][i])
<1> DEFINE queue == mutationQueue[firestoreUser]
<1>1. queue \in Seq(Mutation) /\ queue # <<>> /\ firestoreUser \in Owners
  BY DEF FirestoreTypeOK, HasWork
<1>2. Head(queue) \in Mutation /\ Tail(queue) \in Seq(Mutation)
  BY <1>1
<1>3. \A i \in DOMAIN Tail(queue) : i + 1 \in DOMAIN queue /\ Tail(queue)[i] = queue[i + 1]
  BY <1>1
<1>4. mutationQueue' = [mutationQueue EXCEPT ![firestoreUser] = Tail(queue)]
  BY DEF DropNextWrite
<1>5. mutationQueue' \in [Owners -> Seq(Mutation)] /\ NextWrite \in Mutation
  BY <1>1, <1>2, <1>4 DEF FirestoreTypeOK, NextWrite
<1>6. ASSUME NEW u \in Owners, NEW i \in DOMAIN mutationQueue'[u]
      PROVE  Made(mutationQueue'[u][i])
  <2>1. CASE u = firestoreUser
    <3>1. mutationQueue'[u] = Tail(queue)
      BY <1>1, <1>4, <2>1 DEF FirestoreTypeOK
    <3>2. QED
      BY <1>3, <2>1, <3>1 DEF OrderWritesWereMade
  <2>2. CASE u # firestoreUser
    BY <1>4, <2>2 DEF OrderWritesWereMade, FirestoreTypeOK
  <2>3. QED
    BY <2>1, <2>2
<1>7. QED
  BY <1>5, <1>6

LEMMA FirestoreStepKeeps ==
  ASSUME FirestoreTypeOK, OrderWritesWereMade, UNCHANGED taken,
         \/ FillWritePipeline
         \/ \E m \in inFlight : BackendApplies(m)
         \/ HandleSuccessfulWrite
         \/ HandleRejectedWrite
  PROVE  FirestoreTypeOK' /\ OrderWritesWereMade'
<1> USE DEF FirestoreTypeOK, OrderWritesWereMade, Made, IsTaken
<1>1. CASE FillWritePipeline
  <2>1. PICK i \in DOMAIN mutationQueue[firestoreUser] :
          inFlight' = inFlight \cup {mutationQueue[firestoreUser][i]}
    BY <1>1 DEF FillWritePipeline
  <2>2. mutationQueue[firestoreUser][i] \in Mutation
    BY <2>1
  <2>3. UNCHANGED <<firestoreUser, mutationQueue, usersStored, ordersStored, refused>>
    BY <1>1 DEF FillWritePipeline
  <2>4. QED
    BY <2>1, <2>2, <2>3
<1>2. ASSUME NEW m \in inFlight, BackendApplies(m)
      PROVE  FirestoreTypeOK' /\ OrderWritesWereMade'
  <2>1. CASE m.collection = "users"
    BY <1>2, <2>1 DEF BackendApplies, Mutation
  <2>2. CASE m.collection # "users"
    BY <1>2, <2>2 DEF BackendApplies, Mutation
  <2>3. QED
    BY <2>1, <2>2
<1>3. CASE HandleSuccessfulWrite
  BY <1>3, DropKeeps DEF HandleSuccessfulWrite
<1>4. CASE HandleRejectedWrite
  BY <1>4, DropKeeps DEF HandleRejectedWrite
<1>5. QED
  BY <1>1, <1>2, <1>3, <1>4

LEMMA WriteKeeps ==
  ASSUME FirestoreTypeOK, OrderWritesWereMade,
         NEW m \in Mutation, WriteMutation(m),
         taken \subseteq taken', Made(m)'
  PROVE  FirestoreTypeOK' /\ OrderWritesWereMade'
<1> DEFINE queue == mutationQueue[firestoreUser]
<1>1. queue \in Seq(Mutation) /\ firestoreUser \in Owners
  BY DEF FirestoreTypeOK
<1>2. mutationQueue' = [mutationQueue EXCEPT ![firestoreUser] = Append(queue, m)]
  BY DEF WriteMutation
<1>3. FirestoreTypeOK'
  BY <1>1, <1>2 DEF WriteMutation, FirestoreTypeOK
<1>4. ASSUME NEW u \in Owners, NEW i \in DOMAIN mutationQueue'[u]
      PROVE  Made(mutationQueue[u][i])'
  <2>1. CASE u = firestoreUser
    <3>1. mutationQueue'[u] = Append(queue, m)
      BY <1>1, <1>2, <2>1 DEF FirestoreTypeOK
    <3>2. CASE i \in DOMAIN queue
      <4>1. mutationQueue'[u][i] = queue[i]
        BY <1>1, <3>1, <3>2
      <4>2. QED
        BY <1>1, <2>1, <3>2, <4>1 DEF OrderWritesWereMade, Made, IsTaken
    <3>3. CASE i \notin DOMAIN queue
      <4>1. mutationQueue'[u][i] = m
        BY <1>1, <3>1, <3>3
      <4>2. QED
        BY <4>1 DEF Made, IsTaken
    <3>4. QED
      BY <3>2, <3>3
  <2>2. CASE u # firestoreUser
    <3>1. mutationQueue'[u] = mutationQueue[u]
      BY <1>2, <2>2 DEF FirestoreTypeOK
    <3>2. QED
      BY <3>1 DEF OrderWritesWereMade, Made, IsTaken
  <2>3. QED
    BY <2>1, <2>2
<1>5. QED
  BY <1>3, <1>4 DEF OrderWritesWereMade, Made, IsTaken, WriteMutation

--------------------------------------------------------------------------------
(* The worker queue. *)

LEMMA OperationTypes ==
  /\ \A u \in Owners : CredentialChange(u) \in Operation
  /\ \A m \in Mutation : Write(m) \in Operation
  /\ \A s \in Submissions : Listen(s) \in Operation
  /\ \A n, k : Write(OrderDoc(n)) = Write(OrderDoc(k)) => n = k
  /\ \A u, n : Write(UserDoc(u)) # Write(OrderDoc(n))
  /\ \A u, n : CredentialChange(u) # Write(OrderDoc(n))
  /\ \A s, n : Listen(s) # Write(OrderDoc(n))
  /\ \A op \in Operation : op.operation = "write" =>
       op.mutation \in Mutation /\ op = Write(op.mutation)
BY DEF Operation, CredentialChange, Write, Listen, UserDoc, OrderDoc

(* An operation that writes no order joins the queue. *)
LEMMA EnqueueKeepsNew ==
  ASSUME workerQueue \in Seq(Operation), EnqueuedOrdersAreNew,
         NEW op \in Operation, \A n : op # Write(OrderDoc(n)), Enqueue(op),
         UNCHANGED <<orders, taken>>
  PROVE  workerQueue' \in Seq(Operation) /\ EnqueuedOrdersAreNew'
<1> DEFINE last == Len(workerQueue) + 1
<1>1. /\ workerQueue' \in Seq(Operation)
      /\ DOMAIN workerQueue' = DOMAIN workerQueue \cup {last}
      /\ workerQueue'[last] = op
      /\ \A i \in DOMAIN workerQueue : workerQueue'[i] = workerQueue[i]
  BY DEF Enqueue
<1>2. \A i \in DOMAIN workerQueue', n \in OrderIds :
        OrderAt(i, n)' => i \in DOMAIN workerQueue /\ OrderAt(i, n)
  BY <1>1 DEF OrderAt, Write, OrderDoc
<1>3. QED
  BY <1>1, <1>2 DEF EnqueuedOrdersAreNew, IsTaken

(* What is left of the queue were operations of it, in the same order. *)
LEMMA ShorterWorkerQueue ==
  ASSUME workerQueue \in Seq(Operation),
         \/ workerQueue' \in {workerQueue, <<>>}
         \/ workerQueue # <<>> /\ workerQueue' = Tail(workerQueue)
  PROVE  /\ workerQueue' \in Seq(Operation)
         /\ DOMAIN workerQueue' \subseteq Nat
         /\ \E k \in {0, 1} : \A i \in DOMAIN workerQueue' :
              i + k \in DOMAIN workerQueue /\ workerQueue'[i] = workerQueue[i + k]
<1>1. CASE workerQueue' \in {workerQueue, <<>>}
  <2>1. \A i \in DOMAIN workerQueue' :
          i + 0 \in DOMAIN workerQueue /\ workerQueue'[i] = workerQueue[i + 0]
    BY <1>1
  <2>2. DOMAIN workerQueue \subseteq Nat /\ DOMAIN <<>> = {} /\ <<>> \in Seq(Operation)
    OBVIOUS
  <2>3. workerQueue' \in Seq(Operation) /\ DOMAIN workerQueue' \subseteq Nat
    BY <1>1, <2>2, Zenon
  <2>4. QED
    BY <2>1, <2>3
<1>2. CASE workerQueue # <<>> /\ workerQueue' = Tail(workerQueue)
  <2>1. \A i \in DOMAIN workerQueue' :
          i + 1 \in DOMAIN workerQueue /\ workerQueue'[i] = workerQueue[i + 1]
    BY <1>2
  <2>2. workerQueue' \in Seq(Operation) /\ DOMAIN workerQueue' \subseteq Nat
    BY <1>2
  <2>3. QED
    BY <2>1, <2>2
<1>3. QED
  BY <1>1, <1>2

LEMMA ShorterWorkerQueueKeepsNew ==
  ASSUME workerQueue \in Seq(Operation), EnqueuedOrdersAreNew,
         \/ workerQueue' \in {workerQueue, <<>>}
         \/ workerQueue # <<>> /\ workerQueue' = Tail(workerQueue),
         DOMAIN orders \subseteq DOMAIN orders', UNCHANGED taken
  PROVE  workerQueue' \in Seq(Operation) /\ EnqueuedOrdersAreNew'
<1>1. PICK k \in {0, 1} : \A i \in DOMAIN workerQueue' :
         i + k \in DOMAIN workerQueue /\ workerQueue'[i] = workerQueue[i + k]
  BY ShorterWorkerQueue
<1>2. \A i \in DOMAIN workerQueue', n \in OrderIds :
        OrderAt(i, n)' => i + k \in DOMAIN workerQueue /\ OrderAt(i + k, n)
  BY <1>1 DEF OrderAt, Write, OrderDoc
<1>3. workerQueue' \in Seq(Operation) /\ DOMAIN workerQueue' \subseteq Nat
  BY ShorterWorkerQueue
<1>4. QED
  BY <1>2, <1>3 DEF EnqueuedOrdersAreNew, IsTaken

(* An order that is given to addDocument is a new one. *)
LEMMA EnqueueOrderKeepsNew ==
  ASSUME workerQueue \in Seq(Operation), EnqueuedOrdersAreNew,
         NEW id \in OrderIds, Enqueue(Write(OrderDoc(id))),
         id \notin DOMAIN orders, ~IsTaken(id),
         DOMAIN orders' = DOMAIN orders \cup {id}, UNCHANGED taken
  PROVE  workerQueue' \in Seq(Operation) /\ EnqueuedOrdersAreNew'
<1> DEFINE last == Len(workerQueue) + 1
           op == Write(OrderDoc(id))
<1>1. op \in Operation
  BY MutationTypes, OperationTypes
<1> HIDE DEF op
<1>2. /\ workerQueue' \in Seq(Operation)
      /\ DOMAIN workerQueue' = DOMAIN workerQueue \cup {last}
      /\ workerQueue'[last] = op
      /\ \A i \in DOMAIN workerQueue : workerQueue'[i] = workerQueue[i]
  BY <1>1 DEF Enqueue, op
<1>3. \A i \in DOMAIN workerQueue', n \in OrderIds :
        OrderAt(i, n)' => \/ i = last /\ n = id
                          \/ i \in DOMAIN workerQueue /\ OrderAt(i, n)
  BY <1>2, OperationTypes DEF OrderAt, op, Write, OrderDoc
<1>4. \A i \in DOMAIN workerQueue : ~OrderAt(i, id)
  BY DEF EnqueuedOrdersAreNew
<1>5. QED
  BY <1>2, <1>3, <1>4 DEF EnqueuedOrdersAreNew, IsTaken

--------------------------------------------------------------------------------
(* The inductive invariant. *)

LEMMA InitIInv == Init => IInv
<1> SUFFICES ASSUME Init PROVE IInv
  OBVIOUS
<1>1. TypeOK
  <2>1. FirestoreTypeOK
    BY DEF Init, FirestoreInit, FirestoreTypeOK, Owners
  <2>2. /\ currentUser \in Owners
        /\ mainQueue \in Seq(Block)
        /\ workerQueue \in Seq(Operation)
        /\ submissions \in Seq([uid : Owners, cart : Carts])
        /\ orders \in Seq(Order)
    BY DEF Init, Owners
  <2>3. Len(submissions) <= MaxSubmissions /\ authChanges \in 0..MaxAuthChanges
        /\ restarts \in 0..MaxRestarts
    BY BoundsAssumption DEF Init
  <2>4. QED
    BY <2>1, <2>2, <2>3 DEF Init, TypeOK
<1>2. OrderWritesWereMade /\ EnqueuedOrdersAreNew
  BY DEF Init, FirestoreInit, OrderWritesWereMade, EnqueuedOrdersAreNew
<1>3. QED
  BY <1>1, <1>2
  DEF Init, IInv, ReadsAreSubmissions, AnswersAreSubmissions, AnswersAreUnique,
      OrdersAreAnswered, OrdersMatchSubmissions, AtMostOneOrderPerSubmission

(* What IInv says of the submissions and orders alone. *)
OrdersInv == /\ ReadsAreSubmissions
             /\ OrdersMatchSubmissions
             /\ AtMostOneOrderPerSubmission

LEMMA IInvParts ==
  /\ IInv <=> /\ TypeOK /\ OrdersInv /\ AnswersInv
              /\ EnqueuedOrdersAreNew /\ OrderWritesWereMade
  /\ TypeOK => OrdersNameSubmissions
<1>1. IInv <=> /\ TypeOK /\ OrdersInv /\ AnswersInv
               /\ EnqueuedOrdersAreNew /\ OrderWritesWereMade
  BY DEF IInv, OrdersInv, AnswersInv
<1>2. ASSUME TypeOK, NEW n \in DOMAIN orders
      PROVE  orders[n].submission \in Submissions
  <2>1. orders \in Seq(Order)
    BY <1>2 DEF TypeOK
  <2>2. orders[n] \in Order
    BY <2>1
  <2>3. QED
    BY <2>2 DEF Order
<1>3. QED
  BY <1>1, <1>2 DEF OrdersNameSubmissions

LEMMA IInvPrimed ==
  ASSUME TypeOK', OrdersInv', AnswersInv', EnqueuedOrdersAreNew', OrderWritesWereMade'
  PROVE  IInv'
BY DEF IInv, OrdersInv, AnswersInv

(* Steps that leave the submissions, their reads and the orders alone.     *)
LEMMA OrdersInvKept ==
  ASSUME OrdersInv, UNCHANGED <<submissions, reads, orders>>
  PROVE  OrdersInv'
BY DEF OrdersInv, ReadsAreSubmissions, OrdersMatchSubmissions, AtMostOneOrderPerSubmission

LEMMA WritesMadeKept ==
  ASSUME OrderWritesWereMade, UNCHANGED <<mutationQueue, inFlight, ordersStored, taken>>
  PROVE  OrderWritesWereMade'
BY DEF OrderWritesWereMade, Made, IsTaken

LEMMA EnqueuedKept ==
  ASSUME EnqueuedOrdersAreNew, UNCHANGED <<workerQueue, orders, taken>>
  PROVE  EnqueuedOrdersAreNew'
BY DEF EnqueuedOrdersAreNew, OrderAt, IsTaken, Write, OrderDoc

LEMMA AnswersKept ==
  ASSUME AnswersInv, UNCHANGED <<mainQueue, submissions, reads, orders>>
  PROVE  AnswersInv'
BY DEF AnswersInv, AnswersAreSubmissions, AnswersAreUnique, OrdersAreAnswered, AnswerAt

(* The signed-in user changes: CreateUser, SignIn and both sign-outs.      *)
LEMMA ChangeCurrentUserKeeps ==
  ASSUME IInv, NEW u \in Owners, NEW blocks \in Seq(OtherBlock),
         ChangeCurrentUser(u, blocks), accounts' \subseteq Users, insideApp' \in BOOLEAN
  PROVE  IInv'
<1> USE IInvParts DEF ChangeCurrentUser, orderVars, firestoreVars
<1>1. mainQueue' \in Seq(Block) /\ AnswersInv'
  BY PostOtherBlocks DEF TypeOK
<1>2. OrdersInv' /\ OrderWritesWereMade' /\ EnqueuedOrdersAreNew'
  BY OrdersInvKept, WritesMadeKept, EnqueuedKept
<1>3. TypeOK'
  <2>1. authChanges' \in 0..MaxAuthChanges
    BY BoundsAssumption DEF TypeOK
  <2>2. FirestoreTypeOK'
    BY DEF TypeOK, FirestoreTypeOK
  <2>3. currentUser' \in Owners
    OBVIOUS
  <2>4. QED
    BY <1>1, <2>1, <2>2, <2>3 DEF TypeOK
<1>4. QED
  BY <1>1, <1>2, <1>3, IInvPrimed

(* Blocks that are no answers, and answers that find no profile. *)
LEMMA RunBlockKeeps ==
  ASSUME IInv, NEW block, RunBlock(block), insideApp' \in BOOLEAN,
         workerQueue' \in Seq(Operation), EnqueuedOrdersAreNew',
         dropped' \subseteq DOMAIN submissions,
         UNCHANGED <<firestoreVars, currentUser, accounts, authChanges, submissions, reads,
                     orders, sentShown, taken, restarts>>
  PROVE  IInv'
<1>1. /\ TypeOK /\ OrdersInv /\ AnswersInv
      /\ EnqueuedOrdersAreNew /\ OrderWritesWereMade /\ OrdersNameSubmissions
      /\ mainQueue # <<>> /\ mainQueue' = Tail(mainQueue)
  BY IInvParts DEF RunBlock
<1>2. mainQueue' \in Seq(Block) /\ AnswersInv'
  BY <1>1, RunBlockKeepsAnswers DEF TypeOK
<1>3. OrdersInv' /\ OrderWritesWereMade'
  BY <1>1, OrdersInvKept, WritesMadeKept DEF firestoreVars
<1>4. TypeOK'
  BY <1>1, <1>2 DEF TypeOK, FirestoreTypeOK, firestoreVars
<1>5. QED
  BY <1>2, <1>3, <1>4, IInvPrimed

(* The tap adds a submission that nothing refers to yet. *)
LEMMA DidTapSubmitOrderKeeps ==
  ASSUME IInv, NEW cart \in Carts, DidTapSubmitOrder(cart)
  PROVE  IInv'
<1> DEFINE s == Len(submissions) + 1
           submission == [uid |-> currentUser, cart |-> cart]
<1>1. /\ TypeOK /\ OrdersInv /\ AnswersInv /\ OrderWritesWereMade
      /\ EnqueuedOrdersAreNew /\ OrdersNameSubmissions
  BY IInvParts
<1>2. /\ submissions \in Seq([uid : Owners, cart : Carts])
      /\ submission \in [uid : Owners, cart : Carts]
      /\ Len(submissions) < MaxSubmissions
      /\ submissions' = Append(submissions, submission)
      /\ reads' = IF currentUser = NoUser THEN reads ELSE reads \cup {s}
      /\ sentShown' = sentShown \cup {s}
  BY <1>1 DEF DidTapSubmitOrder, TypeOK
<1>3. /\ UNCHANGED <<firestoreVars, authVars, mainQueue, orders, taken, dropped, restarts>>
      /\ insideApp' = insideApp
      /\ UNCHANGED workerQueue \/ Enqueue(Listen(s))
  BY DEF DidTapSubmitOrder, authVars
<1>4. /\ s \in Submissions
      /\ DOMAIN submissions' = DOMAIN submissions \cup {s}
      /\ s \notin DOMAIN submissions
      /\ submissions'[s] = submission
      /\ \A r \in DOMAIN submissions : submissions'[r] = submissions[r]
  BY <1>2, BoundsAssumption DEF Submissions
<1>5. workerQueue' \in Seq(Operation) /\ EnqueuedOrdersAreNew'
  <2>1. CASE UNCHANGED workerQueue
    BY <1>1, <1>3, <2>1, EnqueuedKept DEF TypeOK
  <2>2. CASE Enqueue(Listen(s))
    <3>1. Listen(s) \in Operation /\ \A n : Listen(s) # Write(OrderDoc(n))
      BY <1>4, OperationTypes
    <3>2. QED
      BY <1>1, <1>3, <2>2, <3>1, EnqueueKeepsNew DEF TypeOK
  <2>3. QED
    BY <1>3, <2>1, <2>2
<1>6. TypeOK'
  <2>1. FirestoreTypeOK'
    BY <1>1, <1>3 DEF TypeOK, FirestoreTypeOK, firestoreVars
  <2>2. /\ submissions' \in Seq([uid : Owners, cart : Carts])
        /\ Len(submissions') <= MaxSubmissions
    BY <1>2, BoundsAssumption
  <2>3. /\ reads' \subseteq DOMAIN submissions'
        /\ sentShown' \subseteq DOMAIN submissions'
        /\ dropped' \subseteq DOMAIN submissions'
    BY <1>1, <1>2, <1>3, <1>4 DEF TypeOK
  <2>4. QED
    BY <1>1, <1>3, <1>5, <2>1, <2>2, <2>3 DEF TypeOK, authVars
<1>7. OrdersInv'
  <2>1. ReadsAreSubmissions'
    BY <1>1, <1>2, <1>4 DEF TypeOK, OrdersInv, ReadsAreSubmissions
  <2>2. OrdersMatchSubmissions'
    BY <1>1, <1>3, <1>4 DEF OrdersInv, OrdersMatchSubmissions
  <2>3. AtMostOneOrderPerSubmission'
    BY <1>1, <1>3 DEF OrdersInv, AtMostOneOrderPerSubmission
  <2>4. QED
    BY <2>1, <2>2, <2>3 DEF OrdersInv
<1>8. AnswersInv'
  <2>1. \A i \in DOMAIN mainQueue, r \in Submissions : AnswerAt(i, r)' = AnswerAt(i, r)
    BY <1>3 DEF AnswerAt
  <2>2. AnswersAreSubmissions'
    BY <1>1, <1>2, <1>3, <1>4, <2>1 DEF AnswersInv, AnswersAreSubmissions
  <2>3. AnswersAreUnique'
    BY <1>1, <1>3, <2>1 DEF AnswersInv, AnswersAreUnique
  <2>4. \A n \in DOMAIN orders : orders[n].submission \in DOMAIN submissions
    BY <1>1 DEF OrdersInv, OrdersMatchSubmissions
  <2>5. OrdersAreAnswered'
    BY <1>1, <1>2, <1>3, <1>4, <2>1, <2>4 DEF AnswersInv, OrdersAreAnswered, OrdersNameSubmissions
  <2>6. QED
    BY <2>2, <2>3, <2>5 DEF AnswersInv
<1>9. OrderWritesWereMade'
  BY <1>1, <1>3, WritesMadeKept DEF firestoreVars
<1>10. QED
  BY <1>5, <1>6, <1>7, <1>8, <1>9, IInvPrimed

(* The answer moves a submission from the reads to the main queue. *)
LEMMA AnswerGetDocumentKeeps ==
  ASSUME IInv, NEW s \in Submissions, NEW exists \in BOOLEAN, AnswerGetDocument(s, exists)
  PROVE  IInv'
<1> DEFINE block == GetDocumentCompletion(s, exists)
           last == Len(mainQueue) + 1
<1>1. /\ TypeOK /\ OrdersInv /\ AnswersInv /\ OrderWritesWereMade
      /\ EnqueuedOrdersAreNew /\ OrdersNameSubmissions
  BY IInvParts
<1>2. /\ s \in reads
      /\ reads' = reads \ {s}
      /\ mainQueue' = Append(mainQueue, block)
      /\ UNCHANGED <<firestoreVars, authVars, submissions, orders, dropped, sentShown,
                     workerQueue, taken, restarts>>
  BY DEF AnswerGetDocument
<1>3. mainQueue \in Seq(Block) /\ block \in Block
  BY <1>1, AnswerBlocks DEF TypeOK
<1>4. /\ mainQueue' \in Seq(Block)
      /\ DOMAIN mainQueue' = DOMAIN mainQueue \cup {last}
      /\ mainQueue'[last] = block
      /\ \A i \in DOMAIN mainQueue : mainQueue'[i] = mainQueue[i]
  BY <1>2, <1>3
<1>5. \A i \in DOMAIN mainQueue', r \in Submissions :
        AnswerAt(i, r)' => \/ i = last /\ r = s
                           \/ i \in DOMAIN mainQueue /\ AnswerAt(i, r)
  BY <1>4, AnswerBlocks DEF AnswerAt
<1>6. TypeOK'
  <2>1. FirestoreTypeOK'
    BY <1>1, <1>2 DEF TypeOK, FirestoreTypeOK, firestoreVars
  <2>2. QED
    BY <1>1, <1>2, <1>4, <2>1 DEF TypeOK, authVars
<1>7. OrdersInv'
  BY <1>1, <1>2
  DEF OrdersInv, ReadsAreSubmissions, OrdersMatchSubmissions, AtMostOneOrderPerSubmission
<1>8. AnswersInv'
  <2>1. s \in DOMAIN submissions /\ submissions[s].uid # NoUser
    BY <1>1, <1>2 DEF TypeOK, OrdersInv, ReadsAreSubmissions
  <2>2. AnswersAreSubmissions'
    BY <1>1, <1>2, <1>5, <2>1 DEF AnswersInv, AnswersAreSubmissions
  <2>3. \A i \in DOMAIN mainQueue : ~AnswerAt(i, s)
    BY <1>1, <1>2 DEF AnswersInv, AnswersAreSubmissions
  <2>4. AnswersAreUnique'
    BY <1>1, <1>5, <2>3 DEF AnswersInv, AnswersAreUnique
  <2>5. \A n \in DOMAIN orders : orders[n].submission # s
    BY <1>1, <1>2 DEF AnswersInv, OrdersAreAnswered
  <2>6. OrdersAreAnswered'
    BY <1>1, <1>2, <1>5, <2>5 DEF AnswersInv, OrdersAreAnswered, OrdersNameSubmissions
  <2>7. QED
    BY <2>2, <2>4, <2>6 DEF AnswersInv
<1>9. OrderWritesWereMade' /\ EnqueuedOrdersAreNew'
  BY <1>1, <1>2, WritesMadeKept, EnqueuedKept DEF firestoreVars
<1>10. QED
  BY <1>6, <1>7, <1>8, <1>9, IInvPrimed

(* The answer leaves the main queue and becomes an order, or nothing. *)
LEMMA RunGetDocumentCompletionKeeps ==
  ASSUME IInv, NEW s \in Submissions, NEW exists \in BOOLEAN,
         RunGetDocumentCompletion(s, exists)
  PROVE  IInv'
<1>1. /\ TypeOK /\ OrdersInv /\ AnswersInv /\ OrderWritesWereMade
      /\ EnqueuedOrdersAreNew /\ OrdersNameSubmissions
  BY IInvParts
<1>2. /\ mainQueue # <<>>
      /\ Head(mainQueue) = GetDocumentCompletion(s, exists)
      /\ mainQueue' = Tail(mainQueue)
      /\ UNCHANGED <<firestoreVars, authVars, submissions, reads, sentShown, taken, restarts>>
  BY DEF RunGetDocumentCompletion, RunBlock
<1>3. /\ mainQueue \in Seq(Block) /\ 1 \in DOMAIN mainQueue
      /\ mainQueue[1] = GetDocumentCompletion(s, exists)
  BY <1>1, <1>2 DEF TypeOK
<1>4. CASE ~exists
  <2>1. UNCHANGED <<orders, workerQueue>> /\ dropped' = dropped \cup {s}
    BY <1>4 DEF RunGetDocumentCompletion
  <2>2. s \in DOMAIN submissions
    BY <1>1, <1>3 DEF AnswersInv, AnswersAreSubmissions, AnswerAt
  <2>3. dropped' \subseteq DOMAIN submissions
    BY <1>1, <2>1, <2>2 DEF TypeOK
  <2>4. workerQueue' \in Seq(Operation) /\ EnqueuedOrdersAreNew'
    BY <1>1, <1>2, <2>1, EnqueuedKept DEF TypeOK
  <2>5. RunBlock(GetDocumentCompletion(s, exists))
    BY DEF RunGetDocumentCompletion
  <2>6. QED
    BY <1>1, <1>2, <2>1, <2>3, <2>4, <2>5, RunBlockKeeps DEF TypeOK, authVars
<1>5. CASE exists
  <2>0. PICK id \in OrderIds : id = Len(orders) + 1
    BY <1>1 DEF TypeOK, OrderIds
  <2>1. /\ orders' = Append(orders, OrderData(s)) /\ Enqueue(Write(OrderDoc(id)))
        /\ UNCHANGED dropped
    BY <1>5, <2>0 DEF RunGetDocumentCompletion
  <2>2. AnswerAt(1, s)
    BY <1>3 DEF AnswerAt
  <2>3. /\ s \in DOMAIN submissions
        /\ submissions[s].uid # NoUser
        /\ s \notin reads
    BY <1>1, <1>3, <2>2 DEF AnswersInv, AnswersAreSubmissions
  <2>4. \A n \in DOMAIN orders : orders[n].submission # s
    BY <1>1, <1>3, <2>2 DEF AnswersInv, OrdersAreAnswered
  <2>5. OrderData(s) \in Order
    <3>1. submissions[s] \in [uid : Owners, cart : Carts]
      <4> DEFINE Submission == [uid : Owners, cart : Carts]
      <4>1. submissions \in Seq(Submission)
        BY <1>1 DEF TypeOK
      <4> HIDE DEF Submission
      <4>2. submissions[s] \in Submission
        BY <2>3, <4>1
      <4>3. QED
        BY <4>2 DEF Submission
    <3>2. restarts \in 0..MaxRestarts
      BY <1>1 DEF TypeOK
    <3>3. QED
      BY <2>3, <3>1, <3>2 DEF OrderData, Order, Owners
  <2>6. /\ orders' \in Seq(Order)
        /\ DOMAIN orders' = DOMAIN orders \cup {id}
        /\ orders'[id] = OrderData(s)
        /\ \A n \in DOMAIN orders : orders'[n] = orders[n]
    BY <1>1, <2>0, <2>1, <2>5 DEF TypeOK
  <2>7. /\ FirestoreTypeOK' /\ OrderWritesWereMade'
        /\ workerQueue' \in Seq(Operation) /\ EnqueuedOrdersAreNew'
    <3>1. id \notin DOMAIN orders
      BY <1>1, <2>0 DEF TypeOK
    <3>2. ~IsTaken(id)
      BY <1>1, <3>1 DEF TypeOK, IsTaken
    <3>3. FirestoreTypeOK' /\ OrderWritesWereMade'
      BY <1>1, <1>2, WritesMadeKept DEF TypeOK, FirestoreTypeOK, firestoreVars
    <3>4. QED
      BY <1>1, <1>2, <2>1, <2>6, <3>1, <3>2, <3>3, EnqueueOrderKeepsNew DEF TypeOK
  <2>8. mainQueue' \in Seq(Block)
    BY <1>2, <1>3
  <2>9. TypeOK'
    <3>1. taken' \subseteq [order : DOMAIN orders', under : Owners]
      BY <1>1, <1>2, <2>6 DEF TypeOK
    <3>2. QED
      BY <1>1, <1>2, <2>1, <2>6, <2>7, <2>8, <3>1 DEF TypeOK, authVars
  <2>10. OrdersInv'
    <3>1. ReadsAreSubmissions'
      BY <1>1, <1>2 DEF OrdersInv, ReadsAreSubmissions
    <3>2. OrdersMatchSubmissions'
      BY <1>1, <1>2, <2>3, <2>6 DEF OrdersInv, OrdersMatchSubmissions, OrderData
    <3>3. AtMostOneOrderPerSubmission'
      BY <1>1, <2>4, <2>6 DEF OrdersInv, AtMostOneOrderPerSubmission, OrderData
    <3>4. QED
      BY <3>1, <3>2, <3>3 DEF OrdersInv
  <2>11. AnswersInv'
    <3>1. \A i \in DOMAIN mainQueue', r \in Submissions :
            AnswerAt(i, r)' => i + 1 \in DOMAIN mainQueue /\ AnswerAt(i + 1, r)
      BY <1>2, <1>3 DEF AnswerAt
    <3>2. DOMAIN mainQueue' \subseteq Nat \ {0}
      BY <1>2, <1>3
    <3>3. \A i \in DOMAIN mainQueue' : ~AnswerAt(i, s)'
      BY <1>1, <1>3, <2>2, <3>1, <3>2 DEF AnswersInv, AnswersAreUnique
    <3>4. AnswersAreSubmissions'
      BY <1>1, <1>2, <3>1 DEF AnswersInv, AnswersAreSubmissions
    <3>5. AnswersAreUnique'
      BY <1>1, <3>1, <3>2 DEF AnswersInv, AnswersAreUnique
    <3>6. ASSUME NEW n \in DOMAIN orders'
          PROVE  /\ orders'[n].submission \notin reads'
                 /\ \A i \in DOMAIN mainQueue' : ~AnswerAt(i, orders[n].submission)'
      <4>1. CASE n = id
        <5>1. orders'[n].submission = s
          BY <2>6, <4>1 DEF OrderData
        <5>2. QED
          BY <1>2, <2>3, <3>3, <5>1 DEF AnswerAt
      <4>2. CASE n \in DOMAIN orders
        <5>1. orders'[n] = orders[n] /\ orders[n].submission \in Submissions
          BY <1>1, <2>6, <4>2 DEF OrdersNameSubmissions
        <5>2. \A i \in DOMAIN mainQueue' : ~AnswerAt(i, orders[n].submission)'
          BY <1>1, <3>1, <4>2, <5>1 DEF AnswersInv, OrdersAreAnswered, AnswerAt
        <5>3. QED
          BY <1>1, <1>2, <4>2, <5>1, <5>2 DEF AnswersInv, OrdersAreAnswered
      <4>3. QED
        BY <2>6, <4>1, <4>2
    <3>7. OrdersAreAnswered'
      BY <3>6 DEF OrdersAreAnswered
    <3>8. QED
      BY <3>4, <3>5, <3>7 DEF AnswersInv
  <2>12. QED
    BY <2>7, <2>9, <2>10, <2>11, IInvPrimed
<1>6. QED
  BY <1>4, <1>5

(* The operations of the worker queue.  Only a write of an order is taken. *)
LEMMA RunOperationKeeps ==
  ASSUME IInv, RunCredentialChange \/ RunListen
  PROVE  IInv'
<1>1. /\ TypeOK /\ OrdersInv /\ AnswersInv /\ OrderWritesWereMade
      /\ EnqueuedOrdersAreNew /\ OrdersNameSubmissions
  BY IInvParts
<1>2. /\ workerQueue # <<>> /\ workerQueue' = Tail(workerQueue)
      /\ UNCHANGED <<authVars, orderVars, mainQueue, taken, restarts>>
      /\ UNCHANGED <<mutationQueue, inFlight, usersStored, ordersStored, refused>>
      /\ firestoreUser' \in {firestoreUser, NextOperation.uid}
      /\ firestoreUser' = firestoreUser \/ NextOperation.operation = "credentialChange"
  BY DEF RunCredentialChange, RunListen, TakeOperation, HandleCredentialChange, firestoreVars
<1>3. NextOperation \in Operation
  BY <1>1, <1>2 DEF TypeOK, NextOperation
<1>4. firestoreUser' \in Owners
  <2>1. NextOperation.operation = "credentialChange" => NextOperation.uid \in Owners
    BY <1>3 DEF Operation
  <2>2. QED
    BY <1>1, <1>2, <2>1 DEF TypeOK, FirestoreTypeOK
<1>5. workerQueue' \in Seq(Operation) /\ EnqueuedOrdersAreNew'
  BY <1>1, <1>2, ShorterWorkerQueueKeepsNew DEF TypeOK, orderVars
<1>6. OrdersInv' /\ AnswersInv' /\ OrderWritesWereMade'
  BY <1>1, <1>2, OrdersInvKept, AnswersKept, WritesMadeKept DEF orderVars
<1>7. FirestoreTypeOK'
  BY <1>1, <1>2, <1>4 DEF TypeOK, FirestoreTypeOK
<1>8. TypeOK'
  BY <1>1, <1>2, <1>5, <1>7 DEF TypeOK, authVars, orderVars
<1>9. QED
  BY <1>5, <1>6, <1>8, IInvPrimed

(* What the worker does with the write at the head of its queue. *)
LEMMA RunWriteSteps ==
  ASSUME TypeOK, EnqueuedOrdersAreNew, RunWrite
  PROVE  \E m \in Mutation :
           /\ workerQueue # <<>> /\ 1 \in DOMAIN workerQueue
           /\ workerQueue[1] = Write(m) /\ workerQueue' = Tail(workerQueue)
           /\ WriteMutation(m)
           /\ taken' = IF m.collection = "orders"
                       THEN taken \cup {[order |-> m.document, under |-> firestoreUser]}
                       ELSE taken
           /\ m.collection = "orders" => /\ m = OrderDoc(m.document)
                                         /\ m.document \in DOMAIN orders
                                         /\ m.document \in OrderIds
                                         /\ ~IsTaken(m.document)
           /\ m.collection # "orders" => \E u \in Users : m = UserDoc(u)
           /\ UNCHANGED <<authVars, orderVars, mainQueue, restarts>>
<1> DEFINE m == NextOperation.mutation
<1>1. /\ workerQueue # <<>> /\ NextOperation.operation = "write"
      /\ workerQueue' = Tail(workerQueue) /\ WriteMutation(m)
      /\ taken' = IF m.collection = "orders"
                  THEN taken \cup {[order |-> m.document, under |-> firestoreUser]}
                  ELSE taken
      /\ UNCHANGED <<authVars, orderVars, mainQueue, restarts>>
  BY DEF RunWrite, TakeOperation
<1>2. /\ workerQueue \in Seq(Operation) /\ 1 \in DOMAIN workerQueue
      /\ NextOperation = workerQueue[1] /\ NextOperation \in Operation
  BY <1>1 DEF TypeOK, NextOperation
<1>3. m \in Mutation /\ NextOperation = Write(m)
  BY <1>1, <1>2, OperationTypes
<1> HIDE DEF m
<1>4. m.collection = "orders" => m = OrderDoc(m.document) /\ m.document \in OrderIds
  BY <1>3 DEF Mutation, OrderDoc
<1>5. m.collection = "orders" => m.document \in DOMAIN orders /\ ~IsTaken(m.document)
  <2>1. SUFFICES ASSUME m.collection = "orders"
                 PROVE  m.document \in DOMAIN orders /\ ~IsTaken(m.document)
    OBVIOUS
  <2>2. OrderAt(1, m.document) /\ m.document \in OrderIds
    BY <1>2, <1>3, <1>4, <2>1, Zenon DEF OrderAt
  <2>3. QED
    BY <1>2, <2>2 DEF EnqueuedOrdersAreNew
<1>6. m.collection # "orders" => \E u \in Users : m = UserDoc(u)
  BY <1>3 DEF Mutation, UserDoc
<1>7. workerQueue[1] = Write(m)
  BY <1>2, <1>3
<1>8. QED
  BY <1>1, <1>2, <1>3, <1>4, <1>5, <1>6, <1>7 DEF m

LEMMA RunWriteKeeps ==
  ASSUME IInv, RunWrite
  PROVE  IInv'
<1>1. /\ TypeOK /\ OrdersInv /\ AnswersInv /\ OrderWritesWereMade
      /\ EnqueuedOrdersAreNew /\ OrdersNameSubmissions
  BY IInvParts
<1>2. PICK m \in Mutation :
           /\ workerQueue # <<>> /\ 1 \in DOMAIN workerQueue
           /\ workerQueue[1] = Write(m) /\ workerQueue' = Tail(workerQueue)
           /\ WriteMutation(m)
           /\ taken' = IF m.collection = "orders"
                       THEN taken \cup {[order |-> m.document, under |-> firestoreUser]}
                       ELSE taken
           /\ m.collection = "orders" => /\ m = OrderDoc(m.document)
                                         /\ m.document \in DOMAIN orders
                                         /\ m.document \in OrderIds
                                         /\ ~IsTaken(m.document)
           /\ m.collection # "orders" => \E u \in Users : m = UserDoc(u)
           /\ UNCHANGED <<authVars, orderVars, mainQueue, restarts>>
  BY <1>1, RunWriteSteps
<1>3. workerQueue \in Seq(Operation)
  BY <1>1 DEF TypeOK
<1>4. /\ workerQueue' \in Seq(Operation)
      /\ \A i \in DOMAIN workerQueue' :
           i + 1 \in DOMAIN workerQueue /\ workerQueue'[i] = workerQueue[i + 1]
      /\ DOMAIN workerQueue' \subseteq Nat \ {0}
  BY <1>2, <1>3
<1>5. /\ taken \subseteq taken'
      /\ taken' \subseteq [order : DOMAIN orders, under : Owners]
      /\ \A n : IsTaken(n)' => IsTaken(n) \/ (m.collection = "orders" /\ n = m.document)
  BY <1>1, <1>2 DEF TypeOK, FirestoreTypeOK, IsTaken
<1>6. EnqueuedOrdersAreNew'
  <2>1. \A i \in DOMAIN workerQueue', n \in OrderIds :
          OrderAt(i, n)' => i + 1 \in DOMAIN workerQueue /\ OrderAt(i + 1, n)
    BY <1>4 DEF OrderAt, Write, OrderDoc
  <2>2. m.collection = "orders" => OrderAt(1, m.document)
    BY <1>2 DEF OrderAt
  <2>3. ASSUME NEW i \in DOMAIN workerQueue', NEW n \in OrderIds, OrderAt(i, n)'
        PROVE  n \in DOMAIN orders /\ ~IsTaken(n)'
    <3>1. i + 1 \in DOMAIN workerQueue /\ OrderAt(i + 1, n) /\ i + 1 # 1
      BY <1>4, <2>1, <2>3
    <3>2. ~(m.collection = "orders" /\ n = m.document)
      BY <1>1, <1>2, <2>2, <3>1 DEF EnqueuedOrdersAreNew
    <3>3. QED
      BY <1>1, <1>5, <3>1, <3>2 DEF EnqueuedOrdersAreNew
  <2>4. UNCHANGED orders
    BY <1>2 DEF orderVars
  <2>5. \A i, j \in DOMAIN workerQueue', n \in OrderIds :
          OrderAt(i, n)' /\ OrderAt(j, n)' => i = j
    BY <1>1, <1>4, <2>1 DEF EnqueuedOrdersAreNew
  <2>6. QED
    BY <2>3, <2>4, <2>5 DEF EnqueuedOrdersAreNew
<1>7. FirestoreTypeOK' /\ OrderWritesWereMade'
  <2>1. m.collection = "orders" =>
          [order |-> m.document, under |-> firestoreUser] \in taken'
    BY <1>2
  <2>2. Made(m)'
    BY <2>1 DEF Made, IsTaken
  <2>3. QED
    BY <1>1, <1>2, <1>5, <2>2, WriteKeeps DEF TypeOK
<1>8. OrdersInv' /\ AnswersInv'
  BY <1>1, <1>2, OrdersInvKept, AnswersKept DEF orderVars
<1>9. TypeOK'
  BY <1>1, <1>2, <1>4, <1>5, <1>7 DEF TypeOK, authVars, orderVars
<1>10. QED
  BY <1>6, <1>7, <1>8, <1>9, IInvPrimed

(* Steps of the client and its backend post at most one other block. *)
LEMMA FirestoreKeeps ==
  ASSUME IInv, SendWrite \/ BackendAnswers \/ WriteAcknowledged
  PROVE  IInv'
<1>1. /\ TypeOK /\ OrdersInv /\ AnswersInv /\ OrderWritesWereMade
      /\ EnqueuedOrdersAreNew /\ OrdersNameSubmissions
  BY IInvParts
<1>2. UNCHANGED <<authVars, orderVars, workerQueue, taken, restarts>>
  BY DEF SendWrite, BackendAnswers, WriteAcknowledged
<1>3. FirestoreTypeOK' /\ OrderWritesWereMade'
  BY <1>1, <1>2, FirestoreStepKeeps
  DEF TypeOK, SendWrite, BackendAnswers, WriteAcknowledged
<1>4. OrdersInv' /\ EnqueuedOrdersAreNew'
  BY <1>1, <1>2, OrdersInvKept, EnqueuedKept DEF orderVars
<1>5. mainQueue' \in Seq(Block) /\ AnswersInv'
  <2>1. CASE UNCHANGED mainQueue
    BY <1>1, <1>2, <2>1, AnswersKept DEF TypeOK, orderVars
  <2>2. CASE mainQueue' = Append(mainQueue, CheckAuthentication)
    <3>1. <<CheckAuthentication>> \in Seq(OtherBlock)
      BY DEF OtherBlock
    <3>2. mainQueue' = mainQueue \o <<CheckAuthentication>>
      BY <1>1, <2>2 DEF TypeOK
    <3>3. QED
      BY <1>1, <1>2, <3>1, <3>2, PostOtherBlocks DEF TypeOK, orderVars
  <2>3. QED
    BY <2>1, <2>2 DEF SendWrite, BackendAnswers, WriteAcknowledged
<1>6. TypeOK'
  BY <1>1, <1>2, <1>3, <1>5 DEF TypeOK, authVars, orderVars
<1>7. QED
  BY <1>3, <1>4, <1>5, <1>6, IInvPrimed

(* A restart forgets reads, blocks and operations: less is under way.      *)
LEMMA RestartKeeps ==
  ASSUME IInv, Restart
  PROVE  IInv'
<1>1. /\ TypeOK /\ OrdersInv /\ AnswersInv /\ OrderWritesWereMade
      /\ EnqueuedOrdersAreNew /\ OrdersNameSubmissions
  BY IInvParts
<1>2. /\ mainQueue' = <<>> /\ workerQueue' = <<>> /\ reads' = {} /\ restarts' = restarts + 1
      /\ restarts < MaxRestarts
      /\ insideApp' \in BOOLEAN
      /\ firestoreUser' = currentUser
      /\ UNCHANGED <<mutationQueue, inFlight, usersStored, ordersStored, refused>>
      /\ UNCHANGED <<currentUser, accounts, authChanges, submissions, orders, taken,
                     dropped, sentShown>>
  BY DEF Restart, HandleCredentialChange
<1>3. TypeOK'
  <2>1. FirestoreTypeOK'
    BY <1>1, <1>2 DEF TypeOK, FirestoreTypeOK
  <2>2. restarts' \in 0..MaxRestarts
    BY <1>1, <1>2, BoundsAssumption DEF TypeOK
  <2>3. mainQueue' \in Seq(Block) /\ workerQueue' \in Seq(Operation)
    BY <1>2
  <2>4. QED
    BY <1>1, <1>2, <2>1, <2>2, <2>3 DEF TypeOK
<1>4. OrdersInv'
  BY <1>1, <1>2
  DEF OrdersInv, ReadsAreSubmissions, OrdersMatchSubmissions, AtMostOneOrderPerSubmission
<1>5. AnswersInv'
  BY <1>2 DEF AnswersInv, AnswersAreSubmissions, AnswersAreUnique, OrdersAreAnswered
<1>6. OrderWritesWereMade' /\ EnqueuedOrdersAreNew'
  BY <1>1, <1>2, WritesMadeKept, ShorterWorkerQueueKeepsNew DEF TypeOK
<1>7. QED
  BY <1>3, <1>4, <1>5, <1>6, IInvPrimed

(* The other blocks of the main queue. *)
LEMMA RunOtherBlockKeeps ==
  ASSUME IInv,
         \/ \E u \in Owners : RunAuthStateDidChange(u)
         \/ RunCheckAuthentication
         \/ \E u \in Users : RunCreateUserCompletion(u)
  PROVE  IInv'
<1>1. TypeOK /\ EnqueuedOrdersAreNew
  BY IInvParts
<1>2. ASSUME NEW u \in Owners, RunAuthStateDidChange(u)
      PROVE  IInv'
  <2>1. /\ RunBlock(AuthStateDidChange(u)) /\ Enqueue(CredentialChange(u))
        /\ UNCHANGED <<firestoreVars, authVars, orderVars, taken, restarts>>
    BY <1>2 DEF RunAuthStateDidChange
  <2>2. workerQueue' \in Seq(Operation) /\ EnqueuedOrdersAreNew'
    BY <1>1, <2>1, OperationTypes, EnqueueKeepsNew DEF TypeOK, orderVars
  <2>3. QED
    BY <1>1, <2>1, <2>2, RunBlockKeeps DEF authVars, orderVars, TypeOK
<1>3. CASE RunCheckAuthentication
  <2>1. /\ RunBlock(CheckAuthentication) /\ insideApp' \in BOOLEAN
        /\ UNCHANGED <<firestoreVars, currentUser, accounts, authChanges, orderVars,
                       workerQueue, taken, restarts>>
    BY <1>3 DEF RunCheckAuthentication
  <2>2. workerQueue' \in Seq(Operation) /\ EnqueuedOrdersAreNew'
    BY <1>1, <2>1, EnqueuedKept DEF TypeOK, orderVars
  <2>3. QED
    BY <1>1, <2>1, <2>2, RunBlockKeeps DEF orderVars, TypeOK
<1>4. ASSUME NEW u \in Users, RunCreateUserCompletion(u)
      PROVE  IInv'
  <2>1. /\ RunBlock(CreateUserCompletion(u)) /\ Enqueue(Write(UserDoc(u)))
        /\ UNCHANGED <<firestoreVars, authVars, orderVars, taken, restarts>>
    BY <1>4 DEF RunCreateUserCompletion
  <2>2. Write(UserDoc(u)) \in Operation /\ \A n : Write(UserDoc(u)) # Write(OrderDoc(n))
    BY MutationTypes, OperationTypes
  <2>3. workerQueue' \in Seq(Operation) /\ EnqueuedOrdersAreNew'
    BY <1>1, <2>1, <2>2, EnqueueKeepsNew DEF TypeOK, orderVars
  <2>4. QED
    BY <1>1, <2>1, <2>3, RunBlockKeeps DEF authVars, orderVars, TypeOK
<1>5. QED
  BY <1>2, <1>3, <1>4

(* The four changes of the signed-in user. *)
LEMMA AuthKeeps ==
  ASSUME IInv,
         \/ \E u \in Users : CreateUser(u) \/ SignIn(u)
         \/ DidTapLogout \/ SignOutByForce
  PROVE  IInv'
<1>1. accounts \subseteq Users /\ insideApp \in BOOLEAN
  BY IInvParts DEF TypeOK
<1>2. NoUser \in Owners /\ Users \subseteq Owners
  BY DEF Owners
<1>3. ASSUME NEW u \in Users, CreateUser(u)
      PROVE  IInv'
  <2>1. <<AuthStateDidChange(u), CreateUserCompletion(u)>> \in Seq(OtherBlock)
    BY <1>2 DEF OtherBlock, AuthStateDidChange, CreateUserCompletion
  <2>2. QED
    BY <1>1, <1>2, <1>3, <2>1, ChangeCurrentUserKeeps DEF CreateUser
<1>4. ASSUME NEW u \in Users, SignIn(u)
      PROVE  IInv'
  <2>1. <<AuthStateDidChange(u), CheckAuthentication>> \in Seq(OtherBlock)
    BY <1>2 DEF OtherBlock, AuthStateDidChange
  <2>2. QED
    BY <1>1, <1>2, <1>4, <2>1, ChangeCurrentUserKeeps DEF SignIn
<1>5. CASE DidTapLogout \/ SignOutByForce
  <2>1. <<AuthStateDidChange(NoUser)>> \in Seq(OtherBlock)
    BY <1>2 DEF OtherBlock, AuthStateDidChange
  <2>2. QED
    BY <1>1, <1>2, <1>5, <2>1, ChangeCurrentUserKeeps DEF DidTapLogout, SignOutByForce
<1>6. QED
  BY <1>3, <1>4, <1>5

LEMMA StutterKeeps ==
  ASSUME IInv, UNCHANGED vars
  PROVE  IInv'
<1> USE IInvParts DEF vars, firestoreVars, authVars, orderVars
<1>1. OrdersInv' /\ AnswersInv' /\ OrderWritesWereMade' /\ EnqueuedOrdersAreNew'
  BY OrdersInvKept, AnswersKept, WritesMadeKept, EnqueuedKept
<1>2. TypeOK'
  BY DEF TypeOK, FirestoreTypeOK
<1>3. QED
  BY <1>1, <1>2, IInvPrimed

LEMMA NextKeepsIInv == IInv /\ [Next]_vars => IInv'
<1> SUFFICES ASSUME IInv, [Next]_vars PROVE IInv'
  OBVIOUS
<1>1. CASE \E u \in Users : CreateUser(u) \/ SignIn(u) \/ RunCreateUserCompletion(u)
  BY <1>1, AuthKeeps, RunOtherBlockKeeps
<1>2. CASE DidTapLogout \/ SignOutByForce
  BY <1>2, AuthKeeps
<1>3. CASE (\E u \in Owners : RunAuthStateDidChange(u)) \/ RunCheckAuthentication
  BY <1>3, RunOtherBlockKeeps
<1>4. CASE \E s \in Submissions, exists \in BOOLEAN :
             AnswerGetDocument(s, exists) \/ RunGetDocumentCompletion(s, exists)
  BY <1>4, AnswerGetDocumentKeeps, RunGetDocumentCompletionKeeps
<1>5. CASE \E cart \in Carts : DidTapSubmitOrder(cart)
  BY <1>5, DidTapSubmitOrderKeeps
<1>6. CASE SendWrite \/ BackendAnswers \/ WriteAcknowledged
  BY <1>6, FirestoreKeeps
<1>7. CASE RunCredentialChange \/ RunWrite \/ RunListen
  BY <1>7, RunOperationKeeps, RunWriteKeeps
<1>8. CASE Restart
  BY <1>8, RestartKeeps
<1>9. CASE UNCHANGED vars
  BY <1>9, StutterKeeps
<1>10. QED
  BY <1>1, <1>2, <1>3, <1>4, <1>5, <1>6, <1>7, <1>8, <1>9 DEF Next

LEMMA IInvHolds == Spec => []IInv
BY InitIInv, NextKeepsIInv, PTL DEF Spec

--------------------------------------------------------------------------------

(* Every variable stays in its type: in particular an order always names   *)
(* an account as its contact, never the "nobody" of a signed-out phone,    *)
(* and no step writes a document the backend could not tell apart.         *)
THEOREM TypeCorrect == Spec => []TypeOK
<1>1. IInv => TypeOK
  BY DEF IInv
<1>2. QED
  BY <1>1, IInvHolds, PTL

(* submitOrder's closure: whatever is tapped, answered or signed in and    *)
(* out in between, an order holds the cart and the contact of its tap.     *)
THEOREM OrdersMatch == Spec => []OrdersMatchSubmissions
<1>1. IInv => OrdersMatchSubmissions
  BY DEF IInv
<1>2. QED
  BY <1>1, IInvHolds, PTL

(* One tap makes at most one order document: getDocument answers once, and *)
(* only its answer reaches addDocument.                                    *)
THEOREM AtMostOne == Spec => []AtMostOneOrderPerSubmission
<1>1. IInv => AtMostOneOrderPerSubmission
  BY DEF IInv
<1>2. QED
  BY <1>1, IInvHolds, PTL

--------------------------------------------------------------------------------
(* No order leaks. *)

(* NoOrderLeaks in its two halves: of the orders made, and of those taken. *)
OrdersReachTheWorker ==
  \A n \in DOMAIN orders : \/ IsEnqueued(Write(OrderDoc(n)))
                          \/ IsTaken(n)
                          \/ orders[n].launch < restarts

TakenOrdersStay ==
  \A t \in taken : \/ InQueue(OrderDoc(t.order), t.under)
                  \/ t.order \in ordersStored
                  \/ OrderDoc(t.order) \in refused

LEMMA NoLeakParts == NoOrderLeaks <=> OrdersReachTheWorker /\ TakenOrdersStay
BY DEF NoOrderLeaks, OrdersReachTheWorker, TakenOrdersStay, IsTaken

(* No order is of a launch that is still to come. *)
LaunchesHaveBegun == \A n \in DOMAIN orders : orders[n].launch <= restarts

(* A step that only adds writes, answers and refusals loses no order. *)
LEMMA NoLeakIfKept ==
  ASSUME TakenOrdersStay, UNCHANGED taken,
         \A t \in taken : InQueue(OrderDoc(t.order), t.under) =>
           \/ \E i \in DOMAIN mutationQueue'[t.under] :
                mutationQueue'[t.under][i] = OrderDoc(t.order)
           \/ t.order \in ordersStored'
           \/ OrderDoc(t.order) \in refused',
         ordersStored \subseteq ordersStored',
         refused \subseteq refused'
  PROVE  TakenOrdersStay'
BY DEF TakenOrdersStay, InQueue, OrderDoc

(* The client drops the head of a queue only with the backend's answer. *)
LEMMA DropLeaksNothing ==
  ASSUME FirestoreTypeOK, HasWork, DropNextWrite, UNCHANGED taken,
         IsStored(NextWrite) \/ NextWrite \in refused',
         UNCHANGED ordersStored, refused \subseteq refused',
         TakenOrdersStay, \A t \in taken : t.under \in Owners
  PROVE  TakenOrdersStay'
<1> DEFINE queue == mutationQueue[firestoreUser]
<1>1. queue \in Seq(Mutation) /\ queue # <<>> /\ firestoreUser \in Owners
  BY DEF FirestoreTypeOK, HasWork
<1>2. mutationQueue' = [mutationQueue EXCEPT ![firestoreUser] = Tail(queue)]
  BY DEF DropNextWrite
<1>3. \A i \in DOMAIN queue : i # 1 =>
        i - 1 \in DOMAIN Tail(queue) /\ Tail(queue)[i - 1] = queue[i]
  BY <1>1
<1>4. NextWrite = queue[1]
  BY <1>1 DEF NextWrite
<1>5. ASSUME NEW t \in taken, InQueue(OrderDoc(t.order), t.under)
      PROVE  \/ \E i \in DOMAIN mutationQueue'[t.under] :
                  mutationQueue'[t.under][i] = OrderDoc(t.order)
             \/ t.order \in ordersStored'
             \/ OrderDoc(t.order) \in refused'
  <2>1. PICK i \in DOMAIN mutationQueue[t.under] :
          mutationQueue[t.under][i] = OrderDoc(t.order)
    BY <1>5 DEF InQueue
  <2>2. CASE t.under # firestoreUser
    <3>1. mutationQueue'[t.under] = mutationQueue[t.under]
      BY <1>2, <2>2 DEF FirestoreTypeOK
    <3>2. QED
      BY <2>1, <3>1
  <2>3. CASE t.under = firestoreUser /\ i # 1
    <3>1. mutationQueue'[t.under] = Tail(queue)
      BY <1>1, <1>2, <2>3 DEF FirestoreTypeOK
    <3>2. i - 1 \in DOMAIN Tail(queue) /\ Tail(queue)[i - 1] = OrderDoc(t.order)
      BY <1>3, <2>1, <2>3
    <3>3. QED
      BY <3>1, <3>2
  <2>4. CASE t.under = firestoreUser /\ i = 1
    <3>1. NextWrite = OrderDoc(t.order)
      BY <1>4, <2>1, <2>4
    <3>2. IsStored(OrderDoc(t.order)) => t.order \in ordersStored
      BY DEF IsStored, OrderDoc
    <3>3. QED
      BY <3>1, <3>2
  <2>5. QED
    BY <2>2, <2>3, <2>4
<1>6. QED
  BY <1>5, NoLeakIfKept

LEMMA WriteLeaksNothing ==
  ASSUME FirestoreTypeOK, NEW m \in Mutation, WriteMutation(m),
         NEW n, NEW u \in Owners, InQueue(OrderDoc(n), u) \/ (u = firestoreUser /\ m = OrderDoc(n))
  PROVE  \E i \in DOMAIN mutationQueue'[u] : mutationQueue'[u][i] = OrderDoc(n)
<1> DEFINE queue == mutationQueue[firestoreUser]
<1>1. queue \in Seq(Mutation) /\ firestoreUser \in Owners
  BY DEF FirestoreTypeOK
<1>2. mutationQueue' = [mutationQueue EXCEPT ![firestoreUser] = Append(queue, m)]
  BY DEF WriteMutation
<1>3. /\ DOMAIN Append(queue, m) = DOMAIN queue \cup {Len(queue) + 1}
      /\ Append(queue, m)[Len(queue) + 1] = m
      /\ \A i \in DOMAIN queue : Append(queue, m)[i] = queue[i]
  BY <1>1
<1>4. CASE u = firestoreUser
  <2>1. mutationQueue'[u] = Append(queue, m)
    BY <1>1, <1>2, <1>4 DEF FirestoreTypeOK
  <2>2. QED
    BY <1>3, <1>4, <2>1 DEF InQueue
<1>5. CASE u # firestoreUser
  BY <1>2, <1>5 DEF InQueue, FirestoreTypeOK
<1>6. QED
  BY <1>4, <1>5

(* Every step of Firestore keeps what it has taken. *)
LEMMA FirestoreLeaksNothing ==
  ASSUME IInv, TakenOrdersStay, UNCHANGED taken,
         \/ FillWritePipeline
         \/ \E m \in inFlight : BackendApplies(m)
         \/ HandleSuccessfulWrite
         \/ HandleRejectedWrite
  PROVE  TakenOrdersStay'
<1>1. FirestoreTypeOK /\ \A t \in taken : t.under \in Owners
  BY DEF IInv, TypeOK
<1>2. CASE FillWritePipeline
  BY <1>2 DEF FillWritePipeline, TakenOrdersStay, InQueue, OrderDoc
<1>3. CASE \E m \in inFlight : BackendApplies(m)
  <2>1. /\ ordersStored \subseteq ordersStored'
        /\ UNCHANGED <<mutationQueue, refused>>
    BY <1>3 DEF BackendApplies
  <2>2. QED
    BY <2>1 DEF TakenOrdersStay, InQueue, OrderDoc
<1>4. CASE HandleSuccessfulWrite
  BY <1>1, <1>4, DropLeaksNothing DEF HandleSuccessfulWrite
<1>5. CASE HandleRejectedWrite
  BY <1>1, <1>5, DropLeaksNothing DEF HandleRejectedWrite
<1>6. QED
  BY <1>2, <1>3, <1>4, <1>5

(* The worker takes an order into the queue of the user of that moment. *)
LEMMA RunWriteLeaksNothing ==
  ASSUME IInv, TakenOrdersStay, RunWrite
  PROVE  TakenOrdersStay'
<1>1. PICK m \in Mutation :
        /\ WriteMutation(m)
        /\ taken' = IF m.collection = "orders"
                    THEN taken \cup {[order |-> m.document, under |-> firestoreUser]}
                    ELSE taken
        /\ m.collection = "orders" => m = OrderDoc(m.document)
  BY RunWriteSteps DEF IInv
<1>2. FirestoreTypeOK /\ (\A t \in taken : t.under \in Owners) /\ firestoreUser \in Owners
  BY DEF IInv, TypeOK, FirestoreTypeOK
<1>3. UNCHANGED <<ordersStored, refused>>
  BY <1>1 DEF WriteMutation
<1>4. ASSUME NEW t \in taken'
      PROVE  \/ \E i \in DOMAIN mutationQueue'[t.under] :
                  mutationQueue'[t.under][i] = OrderDoc(t.order)
             \/ t.order \in ordersStored
             \/ OrderDoc(t.order) \in refused
  <2>1. CASE t \in taken
    BY <1>1, <1>2, <2>1, WriteLeaksNothing DEF TakenOrdersStay
  <2>2. CASE m.collection = "orders" /\ t = [order |-> m.document, under |-> firestoreUser]
    BY <1>1, <1>2, <2>2, WriteLeaksNothing
  <2>3. QED
    BY <1>1, <2>1, <2>2
<1>5. QED
  BY <1>3, <1>4 DEF TakenOrdersStay, InQueue, OrderDoc

LEMMA NextKeepsTaken == IInv /\ TakenOrdersStay /\ [Next]_vars => TakenOrdersStay'
<1> SUFFICES ASSUME IInv, TakenOrdersStay, [Next]_vars PROVE TakenOrdersStay'
  OBVIOUS
<1>1. CASE UNCHANGED <<mutationQueue, ordersStored, refused, taken>>
  BY <1>1 DEF TakenOrdersStay, InQueue, OrderDoc
<1>2. CASE SendWrite \/ BackendAnswers \/ WriteAcknowledged
  BY <1>2, FirestoreLeaksNothing DEF SendWrite, BackendAnswers, WriteAcknowledged
<1>3. CASE RunWrite
  BY <1>3, RunWriteLeaksNothing
<1>4. CASE RunCredentialChange \/ RunListen \/ Restart
  BY <1>1, <1>4 DEF RunCredentialChange, RunListen, Restart, HandleCredentialChange, firestoreVars
<1>5. CASE \E s \in Submissions, exists \in BOOLEAN :
             AnswerGetDocument(s, exists) \/ RunGetDocumentCompletion(s, exists)
  BY <1>1, <1>5 DEF AnswerGetDocument, RunGetDocumentCompletion, firestoreVars
<1>6. CASE \E u \in Users : CreateUser(u) \/ SignIn(u) \/ RunCreateUserCompletion(u)
  BY <1>1, <1>6
  DEF CreateUser, SignIn, ChangeCurrentUser, RunCreateUserCompletion, firestoreVars
<1>7. CASE DidTapLogout \/ SignOutByForce
  BY <1>1, <1>7 DEF DidTapLogout, SignOutByForce, ChangeCurrentUser, firestoreVars
<1>8. CASE (\E u \in Owners : RunAuthStateDidChange(u)) \/ RunCheckAuthentication
  BY <1>1, <1>8 DEF RunAuthStateDidChange, RunCheckAuthentication, firestoreVars
<1>9. CASE \E cart \in Carts : DidTapSubmitOrder(cart)
  BY <1>1, <1>9 DEF DidTapSubmitOrder, firestoreVars
<1>10. CASE UNCHANGED vars
  BY <1>1, <1>10 DEF vars, firestoreVars
<1>11. QED
  BY <1>2, <1>3, <1>4, <1>5, <1>6, <1>7, <1>8, <1>9, <1>10 DEF Next

(* The worker queue only grows at its end and is only run at its head. *)
LEMMA EnqueueReaches ==
  ASSUME IInv, OrdersReachTheWorker, LaunchesHaveBegun,
         UNCHANGED workerQueue \/ \E op \in Operation : Enqueue(op),
         UNCHANGED <<orders, taken, restarts>>
  PROVE  OrdersReachTheWorker' /\ LaunchesHaveBegun'
<1>1. workerQueue \in Seq(Operation)
  BY DEF IInv, TypeOK
<1>2. \A i \in DOMAIN workerQueue : i \in DOMAIN workerQueue' /\ workerQueue'[i] = workerQueue[i]
  BY <1>1 DEF Enqueue
<1>3. \A n : IsEnqueued(Write(OrderDoc(n))) =>
        \E i \in DOMAIN workerQueue' : workerQueue'[i] = Write(OrderDoc(n))
  BY <1>2 DEF IsEnqueued
<1>4. QED
  BY <1>3 DEF OrdersReachTheWorker, LaunchesHaveBegun, IsEnqueued, IsTaken, Write, OrderDoc

LEMMA OperationReaches ==
  ASSUME IInv, OrdersReachTheWorker, LaunchesHaveBegun,
         RunCredentialChange \/ RunWrite \/ RunListen
  PROVE  OrdersReachTheWorker' /\ LaunchesHaveBegun'
<1>1. /\ workerQueue # <<>> /\ workerQueue' = Tail(workerQueue)
      /\ UNCHANGED <<orders, restarts>>
  BY DEF RunCredentialChange, RunWrite, RunListen, TakeOperation, orderVars
<1>2. TypeOK /\ EnqueuedOrdersAreNew /\ workerQueue \in Seq(Operation)
  BY DEF IInv, TypeOK
<1>3. /\ 1 \in DOMAIN workerQueue /\ NextOperation = workerQueue[1]
      /\ \A i \in DOMAIN workerQueue : i # 1 =>
           i - 1 \in DOMAIN workerQueue' /\ workerQueue'[i - 1] = workerQueue[i]
  BY <1>1, <1>2 DEF NextOperation
<1>4. \A n : NextOperation = Write(OrderDoc(n)) => IsTaken(n)'
  <2>1. CASE RunCredentialChange \/ RunListen
    BY <2>1 DEF RunCredentialChange, RunListen, TakeOperation, Write
  <2>2. CASE RunWrite
    <3>1. SUFFICES ASSUME NEW n, NextOperation = Write(OrderDoc(n)) PROVE IsTaken(n)'
      OBVIOUS
    <3>2. NextOperation.mutation = OrderDoc(n)
      BY <3>1 DEF Write
    <3>3. OrderDoc(n).collection = "orders" /\ OrderDoc(n).document = n
      BY DEF OrderDoc
    <3>4. [order |-> n, under |-> firestoreUser] \in taken'
      BY <2>2, <3>2, <3>3 DEF RunWrite
    <3>5. QED
      BY <3>4 DEF IsTaken
  <2>3. QED
    BY <2>1, <2>2
<1>5. \A n : IsTaken(n) => IsTaken(n)'
  BY DEF IsTaken, RunWrite, RunCredentialChange, RunListen
<1>6. ASSUME NEW n \in DOMAIN orders, IsEnqueued(Write(OrderDoc(n)))
      PROVE  IsTaken(n)' \/ \E i \in DOMAIN workerQueue' : workerQueue'[i] = Write(OrderDoc(n))
  <2>1. PICK i \in DOMAIN workerQueue : workerQueue[i] = Write(OrderDoc(n))
    BY <1>6 DEF IsEnqueued
  <2>2. CASE i = 1
    BY <1>3, <1>4, <2>1, <2>2
  <2>3. CASE i # 1
    BY <1>3, <2>1, <2>3
  <2>4. QED
    BY <2>2, <2>3
<1>7. QED
  BY <1>1, <1>5, <1>6
  DEF OrdersReachTheWorker, LaunchesHaveBegun, IsEnqueued, IsTaken, Write, OrderDoc

LEMMA NewOrderReaches ==
  ASSUME IInv, OrdersReachTheWorker, LaunchesHaveBegun,
         NEW s \in Submissions, RunGetDocumentCompletion(s, TRUE)
  PROVE  OrdersReachTheWorker' /\ LaunchesHaveBegun'
<1>1. orders \in Seq(Order) /\ workerQueue \in Seq(Operation) /\ restarts \in Nat
  BY DEF IInv, TypeOK
<1>2. PICK id \in OrderIds : id = Len(orders) + 1
  BY <1>1 DEF OrderIds
<1>3. /\ orders' = Append(orders, OrderData(s)) /\ Enqueue(Write(OrderDoc(id)))
      /\ UNCHANGED <<taken, restarts>>
  BY <1>2 DEF RunGetDocumentCompletion
<1>4. /\ DOMAIN orders' = DOMAIN orders \cup {id}
      /\ orders'[id] = OrderData(s) /\ orders'[id].launch = restarts
      /\ \A n \in DOMAIN orders : orders'[n] = orders[n]
  BY <1>1, <1>2, <1>3 DEF OrderData
<1>5. /\ \A i \in DOMAIN workerQueue :
           i \in DOMAIN workerQueue' /\ workerQueue'[i] = workerQueue[i]
      /\ \E i \in DOMAIN workerQueue' : workerQueue'[i] = Write(OrderDoc(id))
  <2> DEFINE op == Write(OrderDoc(id))
             last == Len(workerQueue) + 1
  <2>1. op \in Operation /\ Enqueue(op)
    BY <1>3, MutationTypes, OperationTypes
  <2> HIDE DEF op
  <2>2. /\ last \in DOMAIN workerQueue' /\ workerQueue'[last] = op
        /\ \A i \in DOMAIN workerQueue :
             i \in DOMAIN workerQueue' /\ workerQueue'[i] = workerQueue[i]
    BY <1>1, <2>1 DEF Enqueue
  <2>3. QED
    BY <2>2 DEF op
<1>6. \A n : IsEnqueued(Write(OrderDoc(n))) =>
        \E i \in DOMAIN workerQueue' : workerQueue'[i] = Write(OrderDoc(n))
  BY <1>5 DEF IsEnqueued
<1>7. LaunchesHaveBegun'
  BY <1>1, <1>3, <1>4 DEF LaunchesHaveBegun
<1>8. OrdersReachTheWorker'
  BY <1>3, <1>4, <1>5, <1>6
  DEF OrdersReachTheWorker, IsEnqueued, IsTaken, Write, OrderDoc
<1>9. QED
  BY <1>7, <1>8

(* A restart loses the operations of the worker queue, and no other order. *)
LEMMA RestartReaches ==
  ASSUME IInv, LaunchesHaveBegun, Restart
  PROVE  OrdersReachTheWorker' /\ LaunchesHaveBegun'
<1>1. restarts \in Nat /\ restarts' = restarts + 1 /\ UNCHANGED orders
  BY DEF IInv, TypeOK, Restart
<1>2. \A n \in DOMAIN orders : orders[n].launch \in Nat
  <2>1. \A n \in DOMAIN orders : orders[n] \in Order
    BY DEF IInv, TypeOK
  <2>2. QED
    BY <2>1 DEF Order
<1>3. \A n \in DOMAIN orders' : /\ orders'[n].launch < restarts'
                               /\ orders'[n].launch <= restarts'
  BY <1>1, <1>2 DEF LaunchesHaveBegun
<1>4. QED
  BY <1>3 DEF OrdersReachTheWorker, LaunchesHaveBegun

LEMMA NextReaches ==
  IInv /\ OrdersReachTheWorker /\ LaunchesHaveBegun /\ [Next]_vars
    => OrdersReachTheWorker' /\ LaunchesHaveBegun'
<1> SUFFICES ASSUME IInv, OrdersReachTheWorker, LaunchesHaveBegun, [Next]_vars
             PROVE  OrdersReachTheWorker' /\ LaunchesHaveBegun'
  OBVIOUS
<1> DEFINE Kept == UNCHANGED <<orders, taken, restarts>>
<1>1. ASSUME NEW op \in Operation, Enqueue(op), Kept
      PROVE  OrdersReachTheWorker' /\ LaunchesHaveBegun'
  BY <1>1, EnqueueReaches
<1>2. CASE UNCHANGED workerQueue /\ Kept
  BY <1>2, EnqueueReaches
<1>3. CASE SendWrite \/ BackendAnswers \/ WriteAcknowledged
  BY <1>2, <1>3 DEF SendWrite, BackendAnswers, WriteAcknowledged, orderVars
<1>4. CASE RunCredentialChange \/ RunWrite \/ RunListen
  BY <1>4, OperationReaches
<1>5. CASE Restart
  BY <1>5, RestartReaches
<1>6. CASE \E s \in Submissions, exists \in BOOLEAN :
             AnswerGetDocument(s, exists) \/ RunGetDocumentCompletion(s, exists)
  <2>1. PICK s \in Submissions, exists \in BOOLEAN :
          AnswerGetDocument(s, exists) \/ RunGetDocumentCompletion(s, exists)
    BY <1>6
  <2>2. CASE exists /\ RunGetDocumentCompletion(s, exists)
    BY <2>2, NewOrderReaches
  <2>3. CASE ~exists \/ AnswerGetDocument(s, exists)
    BY <1>2, <2>1, <2>3 DEF AnswerGetDocument, RunGetDocumentCompletion
  <2>4. QED
    BY <2>1, <2>2, <2>3
<1>7. CASE \E u \in Users : CreateUser(u) \/ SignIn(u)
  BY <1>2, <1>7 DEF CreateUser, SignIn, ChangeCurrentUser, orderVars
<1>8. CASE \E u \in Users : RunCreateUserCompletion(u)
  BY <1>1, <1>8, MutationTypes, OperationTypes DEF RunCreateUserCompletion, orderVars
<1>9. CASE DidTapLogout \/ SignOutByForce
  BY <1>2, <1>9 DEF DidTapLogout, SignOutByForce, ChangeCurrentUser, orderVars
<1>10. CASE \E u \in Owners : RunAuthStateDidChange(u)
  BY <1>1, <1>10, OperationTypes DEF RunAuthStateDidChange, orderVars
<1>11. CASE RunCheckAuthentication
  BY <1>2, <1>11 DEF RunCheckAuthentication, orderVars
<1>12. CASE \E cart \in Carts : DidTapSubmitOrder(cart)
  <2>1. PICK cart \in Carts : DidTapSubmitOrder(cart)
    BY <1>12
  <2>2. UNCHANGED workerQueue \/ Enqueue(Listen(Len(submissions) + 1))
    BY <2>1 DEF DidTapSubmitOrder
  <2>3. Len(submissions) + 1 \in Submissions
    BY <2>1, BoundsAssumption DEF DidTapSubmitOrder, IInv, TypeOK, Submissions
  <2>4. QED
    BY <1>1, <1>2, <2>1, <2>2, <2>3, OperationTypes DEF DidTapSubmitOrder
<1>13. CASE UNCHANGED vars
  BY <1>2, <1>13 DEF vars, orderVars
<1>14. QED
  BY <1>3, <1>4, <1>5, <1>6, <1>7, <1>8, <1>9, <1>10, <1>11, <1>12, <1>13 DEF Next

(* An order given to addDocument is lost in one way only, by a process     *)
(* that ends before the worker has run the write; once the worker has, it  *)
(* is queued, stored or refused, through restarts, broken streams and      *)
(* changes of the signed-in user.                                          *)
THEOREM NoLeak == Spec => []NoOrderLeaks
<1>1. Init => OrdersReachTheWorker /\ LaunchesHaveBegun /\ TakenOrdersStay
  BY DEF Init, OrdersReachTheWorker, LaunchesHaveBegun, TakenOrdersStay
<1>2. QED
  BY <1>1, IInvHolds, NextKeepsTaken, NextReaches, NoLeakParts, PTL DEF Spec

--------------------------------------------------------------------------------
(* What the company reads follows the intake specification. *)

Received == {ReceivedOrder(n) : n \in ordersStored}

(* A step that stores no order leaves what the company reads unchanged:    *)
(* the orders made are only added to.                                      *)
LEMMA StoredOrdersWereMade ==
  ASSUME TypeOK, OrderWritesWereMade
  PROVE  ordersStored \subseteq DOMAIN orders
BY DEF TypeOK, OrderWritesWereMade, IsTaken

LEMMA ReceivedUnchanged ==
  ASSUME TypeOK, OrderWritesWereMade, UNCHANGED ordersStored,
         \A n \in DOMAIN orders : orders'[n] = orders[n]
  PROVE  Received' = Received
BY StoredOrdersWereMade DEF Received, ReceivedOrder

(* The backend applies an order it has not stored: the company receives it. *)
LEMMA StoringReceives ==
  ASSUME IInv, UNCHANGED <<submissions, orders>>,
         NEW n \in DOMAIN orders, n \notin ordersStored,
         ordersStored' = ordersStored \cup {n}
  PROVE  Intake!Receive(orders[n].submission) /\ orders[n].submission \in DOMAIN submissions
<1> DEFINE s == orders[n].submission
<1>1. /\ s \in DOMAIN submissions
      /\ orders[n].contact = submissions[s].uid
      /\ orders[n].cart = submissions[s].cart
  BY DEF IInv, OrdersMatchSubmissions
<1>2. orders[n].contact # NoUser
  <2>1. orders[n] \in Order
    BY DEF IInv, TypeOK
  <2>2. QED
    BY <2>1, NoUserAssumption DEF Order
<1>3. \A order \in Received : order.submission # s
  BY StoredOrdersWereMade DEF Received, ReceivedOrder, IInv, AtMostOneOrderPerSubmission
<1>4. Received' = Received \cup {[contact    |-> submissions[s].uid,
                                  cart       |-> submissions[s].cart,
                                  submission |-> s]}
  BY <1>1 DEF Received, ReceivedOrder
<1>5. QED
  BY <1>1, <1>2, <1>3, <1>4 DEF Intake!Receive, Received

LEMMA InitIsIntakeInit == Init => Intake!Init
BY DEF Init, FirestoreInit, Intake!Init

LEMMA NextIsIntakeNext == IInv /\ [Next]_vars => [Intake!Next]_Intake!vars
<1> SUFFICES ASSUME IInv, [Next]_vars PROVE [Intake!Next]_Intake!vars
  OBVIOUS
<1>1. TypeOK /\ OrderWritesWereMade
  BY DEF IInv
<1>2. CASE UNCHANGED <<submissions, orders, ordersStored>>
  BY <1>1, <1>2, ReceivedUnchanged DEF Intake!vars, Received
<1>3. CASE \E cart \in Carts : DidTapSubmitOrder(cart)
  <2>1. PICK cart \in Carts : DidTapSubmitOrder(cart)
    BY <1>3
  <2>2. Received' = Received
    BY <1>1, <2>1, ReceivedUnchanged DEF DidTapSubmitOrder, firestoreVars
  <2>3. currentUser \in Users \cup {NoUser}
    BY <1>1 DEF TypeOK, Owners
  <2>4. Intake!Ask(currentUser, cart)
    BY <2>1, <2>2 DEF Intake!Ask, DidTapSubmitOrder, Received
  <2>5. QED
    BY <2>3, <2>4 DEF Intake!Next
<1>4. CASE \E s \in Submissions, exists \in BOOLEAN :
             AnswerGetDocument(s, exists) \/ RunGetDocumentCompletion(s, exists)
  <2>1. PICK s \in Submissions, exists \in BOOLEAN :
          AnswerGetDocument(s, exists) \/ RunGetDocumentCompletion(s, exists)
    BY <1>4
  <2>2. CASE exists /\ RunGetDocumentCompletion(s, exists)
    <3>1. /\ orders' = Append(orders, OrderData(s))
          /\ UNCHANGED <<submissions, ordersStored>>
      BY <2>2 DEF RunGetDocumentCompletion, firestoreVars
    <3>2. \A n \in DOMAIN orders : orders'[n] = orders[n]
      BY <1>1, <3>1 DEF TypeOK
    <3>3. QED
      BY <1>1, <3>1, <3>2, ReceivedUnchanged DEF Intake!vars, Received
  <2>3. CASE ~exists \/ AnswerGetDocument(s, exists)
    BY <1>2, <2>1, <2>3 DEF AnswerGetDocument, RunGetDocumentCompletion, firestoreVars
  <2>4. QED
    BY <2>1, <2>2, <2>3
<1>5. CASE BackendAnswers
  <2>1. UNCHANGED <<submissions, orders>>
    BY <1>5 DEF BackendAnswers, orderVars
  <2>2. CASE HandleRejectedWrite
    BY <1>2, <2>1, <2>2 DEF HandleRejectedWrite
  <2>3. ASSUME NEW m \in inFlight, BackendApplies(m)
        PROVE  [Intake!Next]_Intake!vars
    <3>1. CASE m.collection = "users" \/ m.document \in ordersStored
      <4>1. UNCHANGED ordersStored
        BY <2>3, <3>1 DEF BackendApplies
      <4>2. QED
        BY <1>2, <2>1, <4>1
    <3>2. CASE m.collection # "users" /\ m.document \notin ordersStored
      <4>1. m \in Mutation
        BY <1>1 DEF TypeOK, FirestoreTypeOK
      <4>2. m.collection = "orders"
        BY <3>2, <4>1 DEF Mutation
      <4>3. m.document \in DOMAIN orders
        BY <1>1, <4>2 DEF OrderWritesWereMade, Made, IsTaken, TypeOK
      <4>4. ordersStored' = ordersStored \cup {m.document}
        BY <2>3, <3>2 DEF BackendApplies
      <4>5. QED
        BY <2>1, <3>2, <4>3, <4>4, StoringReceives DEF Intake!Next
    <3>3. QED
      BY <3>1, <3>2
  <2>4. QED
    BY <1>5, <2>2, <2>3 DEF BackendAnswers
<1>6. CASE \E u \in Users : CreateUser(u) \/ SignIn(u) \/ RunCreateUserCompletion(u)
  BY <1>2, <1>6
  DEF CreateUser, SignIn, RunCreateUserCompletion, ChangeCurrentUser, firestoreVars, orderVars
<1>7. CASE DidTapLogout \/ SignOutByForce
  BY <1>2, <1>7 DEF DidTapLogout, SignOutByForce, ChangeCurrentUser, firestoreVars, orderVars
<1>8. CASE (\E u \in Owners : RunAuthStateDidChange(u)) \/ RunCheckAuthentication \/ Restart
  BY <1>2, <1>8
  DEF RunAuthStateDidChange, RunCheckAuthentication, Restart, HandleCredentialChange,
      firestoreVars, orderVars
<1>9. CASE SendWrite \/ WriteAcknowledged
  BY <1>2, <1>9
  DEF SendWrite, FillWritePipeline, WriteAcknowledged, HandleSuccessfulWrite, orderVars
<1>10. CASE RunCredentialChange \/ RunWrite \/ RunListen
  BY <1>2, <1>10
  DEF RunCredentialChange, RunWrite, RunListen, TakeOperation, HandleCredentialChange,
      WriteMutation, firestoreVars, orderVars
<1>11. CASE UNCHANGED vars
  BY <1>2, <1>11 DEF vars, firestoreVars, orderVars
<1>12. QED
  BY <1>3, <1>4, <1>5, <1>6, <1>7, <1>8, <1>9, <1>10, <1>11 DEF Next

(* The app and the client together implement the intake: each submission   *)
(* reaches the company at most once, from a signed-in user, and unaltered. *)
THEOREM IntakeImplemented == Spec => OrdersFollowIntake
BY InitIsIntakeInit, NextIsIntakeNext, IInvHolds, PTL
DEF Spec, OrdersFollowIntake, Intake!Spec

--------------------------------------------------------------------------------
(***************************************************************************)
(* ProfileGoesFirst for every set of users and carts and every bound.      *)
(*                                                                         *)
(* The order of two writes is settled long before they are sent: the       *)
(* profile's completion handler is ahead of every answer to a submission   *)
(* of its customer on the main queue, so the profile is ahead of every     *)
(* order on the worker queue, so it is ahead of every order in the         *)
(* customer's queue of writes, and the backend applies that queue in order. *)
(***************************************************************************)

ProfileWaitsAt(i, u) == mainQueue[i] = CreateUserCompletion(u)

(* Who submits has an account. *)
CustomersHaveAccounts ==
  /\ currentUser \in accounts \cup {NoUser}
  /\ \A s \in DOMAIN submissions : submissions[s].uid \in accounts \cup {NoUser}
  /\ \A i \in DOMAIN mainQueue : \A u \in Users : ProfileWaitsAt(i, u) => u \in accounts

(* While a profile is waiting to be saved, its customer has no order, and  *)
(* answers to submissions of that customer are further down the queue.     *)
ProfilesWaitFirst ==
  \A i \in DOMAIN mainQueue : \A u \in Users :
    ProfileWaitsAt(i, u) =>
      /\ \A n \in DOMAIN orders : orders[n].contact # u
      /\ \A j \in DOMAIN mainQueue : \A s \in Submissions :
           AnswerAt(j, s) /\ submissions[s].uid = u => i < j

(* While its write waits for the worker, no order of the customer has been *)
(* taken, and the writes of such orders are further down the worker queue. *)
EnqueuedProfilesFirst ==
  \A i \in DOMAIN workerQueue : \A u \in Users :
    workerQueue[i] = Write(UserDoc(u)) =>
      /\ \A n \in DOMAIN orders : orders[n].contact = u => ~IsTaken(n)
      /\ \A j \in DOMAIN workerQueue : \A n \in DOMAIN orders :
           OrderAt(j, n) /\ orders[n].contact = u => i < j

(* In the customer's own queue the profile is ahead of the order, which    *)
(* has not left the queue before the profile.                              *)
ProfileQueuesFirst(n, u) ==
  \A i \in DOMAIN mutationQueue[u] :
    mutationQueue[u][i] = UserDoc(u) =>
      /\ InQueue(OrderDoc(n), u)
      /\ \A j \in DOMAIN mutationQueue[u] : mutationQueue[u][j] = OrderDoc(n) => i < j
      /\ n \in ordersStored => u \in usersStored

WritesInv ==
  \A t \in taken : \A u \in Users :
    orders[t.order].contact = u /\ t.under = u => ProfileQueuesFirst(t.order, u)

PInv == CustomersHaveAccounts /\ ProfilesWaitFirst /\ EnqueuedProfilesFirst /\ WritesInv

LEMMA InitPInv == Init => PInv
BY DEF Init, FirestoreInit, PInv, CustomersHaveAccounts, ProfilesWaitFirst,
       EnqueuedProfilesFirst, WritesInv

--------------------------------------------------------------------------------
(* The main queue. *)

LEMMA ProfileBlocks ==
  \A u, v \in Users :
    /\ CreateUserCompletion(u) = CreateUserCompletion(v) => u = v
    /\ CreateUserCompletion(u) # CheckAuthentication
    /\ \A s \in Submissions, e \in BOOLEAN :
         CreateUserCompletion(u) # GetDocumentCompletion(s, e)
    /\ \A w \in Owners : CreateUserCompletion(u) # AuthStateDidChange(w)
BY DEF CreateUserCompletion, CheckAuthentication, GetDocumentCompletion, AuthStateDidChange

(* What is left of the main queue after a step were blocks of it, in the   *)
(* same order, and neither customers nor orders have changed.              *)
LEMMA ShorterQueueKeeps ==
  ASSUME TypeOK, CustomersHaveAccounts, ProfilesWaitFirst,
         mainQueue' \in {mainQueue, <<>>} \/ (mainQueue # <<>> /\ mainQueue' = Tail(mainQueue)),
         UNCHANGED <<currentUser, accounts, submissions>>,
         \A n \in DOMAIN orders' : n \in DOMAIN orders /\ orders'[n] = orders[n]
  PROVE  CustomersHaveAccounts' /\ ProfilesWaitFirst'
<1>1. PICK k \in {0, 1} : \A i \in DOMAIN mainQueue' :
         i + k \in DOMAIN mainQueue /\ mainQueue'[i] = mainQueue[i + k]
  <2>1. mainQueue \in Seq(Block)
    BY DEF TypeOK
  <2>2. CASE mainQueue' \in {mainQueue, <<>>}
    <3>1. \A i \in DOMAIN mainQueue' : i + 0 \in DOMAIN mainQueue /\ mainQueue'[i] = mainQueue[i + 0]
      BY <2>1, <2>2
    <3>2. QED
      BY <3>1
  <2>3. CASE mainQueue # <<>> /\ mainQueue' = Tail(mainQueue)
    <3>1. \A i \in DOMAIN mainQueue' : i + 1 \in DOMAIN mainQueue /\ mainQueue'[i] = mainQueue[i + 1]
      BY <2>1, <2>3
    <3>2. QED
      BY <3>1
  <2>4. QED
    BY <2>2, <2>3
<1>2. DOMAIN mainQueue' \subseteq Nat
  BY DEF TypeOK
<1>3. \A i \in DOMAIN mainQueue', u \in Users :
        ProfileWaitsAt(i, u)' => i + k \in DOMAIN mainQueue /\ ProfileWaitsAt(i + k, u)
  BY <1>1 DEF ProfileWaitsAt, CreateUserCompletion
<1>4. \A i \in DOMAIN mainQueue', s \in Submissions :
        AnswerAt(i, s)' => i + k \in DOMAIN mainQueue /\ AnswerAt(i + k, s)
  BY <1>1 DEF AnswerAt, GetDocumentCompletion
<1>5. CustomersHaveAccounts'
  BY <1>3 DEF CustomersHaveAccounts
<1>6. ProfilesWaitFirst'
  BY <1>2, <1>3, <1>4 DEF ProfilesWaitFirst
<1>7. QED
  BY <1>5, <1>6

LEMMA OrdersAreOfCustomers ==
  ASSUME IInv, CustomersHaveAccounts
  PROVE  \A n \in DOMAIN orders : orders[n].contact \in accounts
<1> SUFFICES ASSUME NEW n \in DOMAIN orders PROVE orders[n].contact \in accounts
  OBVIOUS
<1>1. orders[n] \in Order
  BY DEF IInv, TypeOK
<1>2. orders[n].contact \in Users
  BY <1>1 DEF Order
<1>3. QED
  BY <1>2, NoUserAssumption DEF IInv, OrdersMatchSubmissions, CustomersHaveAccounts

(* The signed-in user changes.  A profile is waited for only by somebody   *)
(* whose account is new, and who has submitted nothing yet.                *)
LEMMA NewCustomerKeeps ==
  ASSUME IInv, CustomersHaveAccounts, ProfilesWaitFirst,
         NEW blocks \in Seq(OtherBlock), mainQueue' = mainQueue \o blocks,
         accounts \subseteq accounts', currentUser' \in accounts' \cup {NoUser},
         \A i \in DOMAIN blocks : \A u \in Users :
           blocks[i] = CreateUserCompletion(u) => u \in accounts' \ accounts,
         UNCHANGED <<submissions, orders>>
  PROVE  CustomersHaveAccounts' /\ ProfilesWaitFirst'
<1>1. mainQueue \in Seq(Block) /\ blocks \in Seq(Block)
  BY AnswerBlocks DEF OtherBlock, Block, IInv, TypeOK
<1>2. \A i \in DOMAIN mainQueue' :
        \/ i \in DOMAIN mainQueue /\ mainQueue'[i] = mainQueue[i]
        \/ i - Len(mainQueue) \in DOMAIN blocks
           /\ mainQueue'[i] = blocks[i - Len(mainQueue)]
  BY <1>1
<1>3. \A j \in DOMAIN mainQueue', s \in Submissions :
        AnswerAt(j, s)' => j \in DOMAIN mainQueue /\ AnswerAt(j, s)
  <2>1. \A k \in DOMAIN blocks : blocks[k] \in OtherBlock
    OBVIOUS
  <2>2. QED
    BY <1>2, <2>1, AnswerBlocks DEF AnswerAt
<1>4. \A i \in DOMAIN mainQueue', u \in Users :
        ProfileWaitsAt(i, u)' => \/ i \in DOMAIN mainQueue /\ ProfileWaitsAt(i, u)
                                 \/ u \in accounts' \ accounts
  BY <1>2 DEF ProfileWaitsAt
<1>5. CustomersHaveAccounts'
  BY <1>4 DEF CustomersHaveAccounts
<1>6. \A u \in accounts' \ accounts : u \in Users =>
        /\ \A n \in DOMAIN orders : orders[n].contact # u
        /\ \A j \in DOMAIN mainQueue, s \in Submissions :
             AnswerAt(j, s) => submissions[s].uid # u
  <2>1. \A n \in DOMAIN orders : orders[n].contact \in accounts
    BY OrdersAreOfCustomers
  <2>2. \A j \in DOMAIN mainQueue, s \in Submissions :
          AnswerAt(j, s) => submissions[s].uid \in accounts
    BY DEF IInv, AnswersAreSubmissions, CustomersHaveAccounts
  <2>3. QED
    BY <2>1, <2>2
<1>7. ProfilesWaitFirst'
  BY <1>3, <1>4, <1>6 DEF ProfilesWaitFirst
<1>8. QED
  BY <1>5, <1>7

LEMMA TapKeepsProfiles ==
  ASSUME IInv, CustomersHaveAccounts, ProfilesWaitFirst,
         NEW cart \in Carts, DidTapSubmitOrder(cart)
  PROVE  CustomersHaveAccounts' /\ ProfilesWaitFirst'
<1> DEFINE submission == [uid |-> currentUser, cart |-> cart]
<1>1. /\ submissions' = Append(submissions, submission)
      /\ UNCHANGED <<currentUser, accounts, mainQueue, orders>>
  BY DEF DidTapSubmitOrder, authVars
<1>2. /\ submissions \in Seq([uid : Owners, cart : Carts])
      /\ submission \in [uid : Owners, cart : Carts]
  BY DEF IInv, TypeOK
<1>3. /\ \A s \in DOMAIN submissions' : submissions'[s].uid \in accounts \cup {NoUser}
      /\ \A s \in DOMAIN submissions : submissions'[s] = submissions[s]
  BY <1>1, <1>2 DEF CustomersHaveAccounts
<1>4. \A j \in DOMAIN mainQueue, s \in Submissions : AnswerAt(j, s) => s \in DOMAIN submissions
  BY DEF IInv, AnswersAreSubmissions
<1>5. /\ \A i, s : AnswerAt(i, s)' = AnswerAt(i, s)
      /\ \A i, u : ProfileWaitsAt(i, u)' = ProfileWaitsAt(i, u)
  BY <1>1 DEF AnswerAt, ProfileWaitsAt
<1>6. CustomersHaveAccounts'
  BY <1>1, <1>3, <1>5 DEF CustomersHaveAccounts
<1>7. ProfilesWaitFirst'
  BY <1>1, <1>3, <1>4, <1>5 DEF ProfilesWaitFirst
<1>8. QED
  BY <1>6, <1>7

LEMMA AnswerKeepsProfiles ==
  ASSUME IInv, CustomersHaveAccounts, ProfilesWaitFirst,
         NEW s \in Submissions, NEW exists \in BOOLEAN, AnswerGetDocument(s, exists)
  PROVE  CustomersHaveAccounts' /\ ProfilesWaitFirst'
<1> DEFINE last == Len(mainQueue) + 1
<1>1. /\ mainQueue' = Append(mainQueue, GetDocumentCompletion(s, exists))
      /\ UNCHANGED <<currentUser, accounts, submissions, orders>>
  BY DEF AnswerGetDocument, authVars
<1>2. mainQueue \in Seq(Block) /\ GetDocumentCompletion(s, exists) \in Block
  BY AnswerBlocks DEF IInv, TypeOK
<1>3. /\ DOMAIN mainQueue' = DOMAIN mainQueue \cup {last}
      /\ \A i \in DOMAIN mainQueue : mainQueue'[i] = mainQueue[i] /\ i < last
      /\ mainQueue'[last] = GetDocumentCompletion(s, exists)
  BY <1>1, <1>2
<1>4. \A i \in DOMAIN mainQueue', u \in Users :
        ProfileWaitsAt(i, u)' => i \in DOMAIN mainQueue /\ ProfileWaitsAt(i, u)
  BY <1>3, ProfileBlocks DEF ProfileWaitsAt
<1>5. \A j \in DOMAIN mainQueue', r \in Submissions :
        AnswerAt(j, r)' => j = last \/ (j \in DOMAIN mainQueue /\ AnswerAt(j, r))
  BY <1>3 DEF AnswerAt
<1>6. CustomersHaveAccounts'
  BY <1>1, <1>4 DEF CustomersHaveAccounts
<1>7. ProfilesWaitFirst'
  BY <1>1, <1>3, <1>4, <1>5 DEF ProfilesWaitFirst
<1>8. QED
  BY <1>6, <1>7

(* The answer that makes an order is at the head of the queue: no profile  *)
(* of its customer is waiting any more.                                    *)
LEMMA OrderKeepsProfiles ==
  ASSUME IInv, CustomersHaveAccounts, ProfilesWaitFirst,
         NEW s \in Submissions, RunGetDocumentCompletion(s, TRUE)
  PROVE  CustomersHaveAccounts' /\ ProfilesWaitFirst'
<1>1. /\ mainQueue # <<>> /\ Head(mainQueue) = GetDocumentCompletion(s, TRUE)
      /\ mainQueue' = Tail(mainQueue)
      /\ orders' = Append(orders, OrderData(s))
      /\ UNCHANGED <<currentUser, accounts, submissions>>
  BY DEF RunGetDocumentCompletion, RunBlock, authVars
<1>2. mainQueue \in Seq(Block) /\ orders \in Seq(Order)
  BY DEF IInv, TypeOK
<1>3. /\ 1 \in DOMAIN mainQueue /\ AnswerAt(1, s)
      /\ \A i \in DOMAIN mainQueue' :
           i + 1 \in DOMAIN mainQueue /\ mainQueue'[i] = mainQueue[i + 1]
      /\ DOMAIN mainQueue' \subseteq Nat \ {0}
  <2>0. mainQueue # <<>> /\ Head(mainQueue) = GetDocumentCompletion(s, TRUE)
    BY <1>1
  <2>1. 1 \in DOMAIN mainQueue /\ mainQueue[1] = Head(mainQueue)
    BY <1>2, <2>0
  <2>2. /\ \A i \in DOMAIN mainQueue' :
             i + 1 \in DOMAIN mainQueue /\ mainQueue'[i] = mainQueue[i + 1]
        /\ DOMAIN mainQueue' \subseteq Nat \ {0}
    BY <1>1, <1>2
  <2>3. QED
    BY <2>0, <2>1, <2>2 DEF AnswerAt
<1>4. \A n \in DOMAIN orders' : \/ n \in DOMAIN orders /\ orders'[n] = orders[n]
                                \/ orders'[n] = OrderData(s)
  BY <1>1, <1>2
<1>5. \A i \in DOMAIN mainQueue', u \in Users :
        ProfileWaitsAt(i, u)' => i + 1 \in DOMAIN mainQueue /\ ProfileWaitsAt(i + 1, u)
  BY <1>3 DEF ProfileWaitsAt
<1>6. \A j \in DOMAIN mainQueue', r \in Submissions :
        AnswerAt(j, r)' => j + 1 \in DOMAIN mainQueue /\ AnswerAt(j + 1, r)
  BY <1>3 DEF AnswerAt
<1>7. CustomersHaveAccounts'
  BY <1>1, <1>5 DEF CustomersHaveAccounts
<1>8. ASSUME NEW i \in DOMAIN mainQueue', NEW u \in Users, ProfileWaitsAt(i, u)'
      PROVE  submissions[s].uid # u
  <2>1. i + 1 \in DOMAIN mainQueue /\ ProfileWaitsAt(i + 1, u) /\ ~(i + 1 < 1)
    BY <1>3, <1>5, <1>8
  <2>2. QED
    BY <1>3, <2>1 DEF ProfilesWaitFirst
<1>9. OrderData(s).contact = submissions[s].uid
  BY DEF OrderData
<1>10. ProfilesWaitFirst'
  BY <1>1, <1>3, <1>4, <1>5, <1>6, <1>8, <1>9 DEF ProfilesWaitFirst
<1>11. QED
  BY <1>7, <1>10

--------------------------------------------------------------------------------
(* The customer's queue of writes. *)

LEMMA WriteNames ==
  /\ \A u, v : UserDoc(u) = UserDoc(v) => u = v
  /\ \A n, k : OrderDoc(n) = OrderDoc(k) => n = k
  /\ \A u, n : UserDoc(u) # OrderDoc(n)
BY DEF UserDoc, OrderDoc

(* What a write does to the queues. *)
LEMMA WriteAppends ==
  ASSUME FirestoreTypeOK, NEW m \in Mutation, WriteMutation(m), NEW u \in Users
  PROVE  /\ u = firestoreUser =>
              LET last == Len(mutationQueue[u]) + 1 IN
                /\ DOMAIN mutationQueue'[u] = DOMAIN mutationQueue[u] \cup {last}
                /\ mutationQueue'[u][last] = m
                /\ \A i \in DOMAIN mutationQueue[u] :
                     mutationQueue'[u][i] = mutationQueue[u][i] /\ i < last
         /\ u # firestoreUser => mutationQueue'[u] = mutationQueue[u]
<1> DEFINE queue == mutationQueue[firestoreUser]
<1>1. queue \in Seq(Mutation) /\ firestoreUser \in Owners
  BY DEF FirestoreTypeOK
<1>2. mutationQueue' = [mutationQueue EXCEPT ![firestoreUser] = Append(queue, m)]
  BY DEF WriteMutation
<1>3. u \in Owners
  BY DEF Owners
<1>4. CASE u = firestoreUser
  <2>1. mutationQueue'[u] = Append(queue, m)
    BY <1>1, <1>2, <1>4 DEF FirestoreTypeOK
  <2>2. QED
    BY <1>1, <1>4, <2>1
<1>5. CASE u # firestoreUser
  BY <1>2, <1>3, <1>5 DEF FirestoreTypeOK
<1>6. QED
  BY <1>4, <1>5

(* A write that joins a queue leaves an older order behind its profile,    *)
(* unless it is that profile.                                              *)
LEMMA WriteKeepsFirst ==
  ASSUME FirestoreTypeOK, NEW m \in Mutation, WriteMutation(m),
         NEW n \in Nat, NEW u \in Users, ProfileQueuesFirst(n, u),
         m # UserDoc(u), m # OrderDoc(n)
  PROVE  \A i \in DOMAIN mutationQueue'[u] :
           mutationQueue'[u][i] = UserDoc(u) =>
             /\ \E j \in DOMAIN mutationQueue'[u] : mutationQueue'[u][j] = OrderDoc(n)
             /\ \A j \in DOMAIN mutationQueue'[u] :
                  mutationQueue'[u][j] = OrderDoc(n) => i < j
             /\ n \in ordersStored => u \in usersStored
BY WriteAppends DEF ProfileQueuesFirst, InQueue

(* The worker takes the profile: no order of its customer is there yet. *)
LEMMA TakingProfileKeepsFirst ==
  ASSUME IInv, PInv, NEW u \in Users, workerQueue # <<>>,
         1 \in DOMAIN workerQueue, workerQueue[1] = Write(UserDoc(u)),
         WriteMutation(UserDoc(u)), UNCHANGED <<orders, taken>>
  PROVE  WritesInv'
<1>1. /\ FirestoreTypeOK /\ UserDoc(u) \in Mutation /\ WritesInv
      /\ UNCHANGED <<usersStored, ordersStored>>
  BY MutationTypes DEF IInv, TypeOK, PInv, WriteMutation
<1>2. \A t \in taken : /\ t.order \in DOMAIN orders /\ t.order \in Nat
                      /\ orders[t.order].contact # u
  BY DEF PInv, EnqueuedProfilesFirst, IInv, TypeOK, IsTaken
<1>3. ASSUME NEW t \in taken, NEW v \in Users,
             orders[t.order].contact = v, t.under = v
      PROVE  ProfileQueuesFirst(t.order, v)'
  <2>1. ProfileQueuesFirst(t.order, v)
    BY <1>1, <1>3 DEF WritesInv
  <2>2. UserDoc(u) # UserDoc(v) /\ UserDoc(u) # OrderDoc(t.order)
    BY <1>2, <1>3, WriteNames
  <2>3. QED
    BY <1>1, <1>2, <2>1, <2>2, WriteKeepsFirst
    DEF ProfileQueuesFirst, InQueue, UserDoc, OrderDoc
<1>4. QED
  BY <1>3 DEF WritesInv

(* The worker takes an order: it goes behind whatever is queued. *)
LEMMA TakingOrderKeepsFirst ==
  ASSUME IInv, PInv, NEW id \in OrderIds, ~IsTaken(id), WriteMutation(OrderDoc(id)),
         taken' = taken \cup {[order |-> id, under |-> firestoreUser]}, UNCHANGED orders
  PROVE  WritesInv'
<1>1. /\ FirestoreTypeOK /\ WritesInv /\ OrderWritesWereMade
      /\ \A t \in taken : t.order \in Nat
      /\ OrderDoc(id) \in Mutation /\ UNCHANGED <<usersStored, ordersStored>>
  BY MutationTypes DEF IInv, TypeOK, PInv, WriteMutation
<1>2. \A u \in Users : OrderDoc(id) # UserDoc(u)
  BY WriteNames
<1>3. ASSUME NEW t \in taken, NEW u \in Users,
             orders[t.order].contact = u, t.under = u
      PROVE  ProfileQueuesFirst(t.order, u)'
  <2>1. ProfileQueuesFirst(t.order, u)
    BY <1>1, <1>3 DEF WritesInv
  <2>2. OrderDoc(id) # OrderDoc(t.order)
    BY WriteNames DEF IsTaken
  <2>3. \A i \in DOMAIN mutationQueue'[u] :
          mutationQueue'[u][i] = UserDoc(u) =>
            /\ \E j \in DOMAIN mutationQueue'[u] : mutationQueue'[u][j] = OrderDoc(t.order)
            /\ \A j \in DOMAIN mutationQueue'[u] :
                 mutationQueue'[u][j] = OrderDoc(t.order) => i < j
            /\ t.order \in ordersStored => u \in usersStored
    BY <1>1, <1>2, <2>1, <2>2, WriteKeepsFirst
  <2>4. QED
    BY <1>1, <2>3 DEF ProfileQueuesFirst, InQueue, UserDoc, OrderDoc
<1>4. ASSUME NEW u \in Users, u = firestoreUser
      PROVE  ProfileQueuesFirst(id, u)'
  <2>1. id \notin ordersStored
    BY <1>1 DEF OrderWritesWereMade
  <2>2. \A j \in DOMAIN mutationQueue[u] : mutationQueue[u][j] # OrderDoc(id)
    BY <1>1 DEF OrderWritesWereMade, Made, OrderDoc, Owners
  <2>3. \A i \in DOMAIN mutationQueue'[u] :
          mutationQueue'[u][i] = UserDoc(u) =>
            /\ \E j \in DOMAIN mutationQueue'[u] : mutationQueue'[u][j] = OrderDoc(id)
            /\ \A j \in DOMAIN mutationQueue'[u] :
                 mutationQueue'[u][j] = OrderDoc(id) => i < j
    BY <1>1, <1>2, <1>4, <2>2, WriteAppends
  <2>4. QED
    BY <1>1, <2>1, <2>3 DEF ProfileQueuesFirst, InQueue, UserDoc, OrderDoc
<1>5. QED
  BY <1>3, <1>4 DEF WritesInv

LEMMA RunWriteKeepsFirst ==
  ASSUME IInv, PInv, RunWrite
  PROVE  WritesInv'
<1>1. PICK m \in Mutation :
        /\ workerQueue # <<>> /\ 1 \in DOMAIN workerQueue
        /\ workerQueue[1] = Write(m)
        /\ WriteMutation(m)
        /\ taken' = IF m.collection = "orders"
                    THEN taken \cup {[order |-> m.document, under |-> firestoreUser]}
                    ELSE taken
        /\ m.collection = "orders" => /\ m = OrderDoc(m.document)
                                      /\ m.document \in OrderIds
                                      /\ ~IsTaken(m.document)
        /\ m.collection # "orders" => \E u \in Users : m = UserDoc(u)
        /\ UNCHANGED orders
  BY RunWriteSteps DEF IInv, orderVars
<1>2. CASE m.collection = "orders"
  BY <1>1, <1>2, TakingOrderKeepsFirst
<1>3. CASE m.collection # "orders"
  BY <1>1, <1>3, TakingProfileKeepsFirst
<1>4. QED
  BY <1>2, <1>3

(* Queues lose their heads only, and a stored order stays behind a stored  *)
(* profile when the backend keeps to the order of the queue.               *)
LEMMA DropKeepsFirst ==
  ASSUME FirestoreTypeOK, WritesInv, HasWork, DropNextWrite,
         UNCHANGED <<orders, taken, usersStored, ordersStored>>
  PROVE  WritesInv'
<1> DEFINE queue == mutationQueue[firestoreUser]
<1>1. queue \in Seq(Mutation) /\ queue # <<>> /\ firestoreUser \in Owners
  BY DEF FirestoreTypeOK, HasWork
<1>2. mutationQueue' = [mutationQueue EXCEPT ![firestoreUser] = Tail(queue)]
  BY DEF DropNextWrite
<1>3. /\ \A i \in DOMAIN Tail(queue) : i + 1 \in DOMAIN queue /\ Tail(queue)[i] = queue[i + 1]
      /\ \A j \in DOMAIN queue : j > 1 =>
           j - 1 \in DOMAIN Tail(queue) /\ Tail(queue)[j - 1] = queue[j]
      /\ DOMAIN queue \subseteq Nat \ {0} /\ DOMAIN Tail(queue) \subseteq Nat \ {0}
  BY <1>1
<1>4. ASSUME NEW n, NEW u \in Users, ProfileQueuesFirst(n, u)
      PROVE  ProfileQueuesFirst(n, u)'
  <2>1. ProfileQueuesFirst(n, u) /\ u \in Owners
    BY <1>4 DEF Owners
  <2>2. CASE u = firestoreUser
    <3>1. mutationQueue'[u] = Tail(queue)
      BY <1>1, <1>2, <2>2 DEF FirestoreTypeOK
    <3>2. ASSUME NEW i \in DOMAIN Tail(queue), Tail(queue)[i] = UserDoc(u)
          PROVE  /\ \E j \in DOMAIN Tail(queue) : Tail(queue)[j] = OrderDoc(n)
                 /\ \A j \in DOMAIN Tail(queue) : Tail(queue)[j] = OrderDoc(n) => i < j
                 /\ n \in ordersStored => u \in usersStored
      <4>1. i + 1 \in DOMAIN queue /\ queue[i + 1] = UserDoc(u) /\ i \in Nat \ {0}
        BY <1>3, <3>2
      <4>2. PICK j \in DOMAIN queue : queue[j] = OrderDoc(n)
        BY <2>1, <2>2, <4>1 DEF ProfileQueuesFirst, InQueue
      <4>3. \A k \in DOMAIN queue : queue[k] = OrderDoc(n) => i + 1 < k
        BY <2>1, <2>2, <4>1 DEF ProfileQueuesFirst
      <4>4. j - 1 \in DOMAIN Tail(queue) /\ Tail(queue)[j - 1] = OrderDoc(n)
        BY <1>3, <4>1, <4>2, <4>3
      <4>5. \A k \in DOMAIN Tail(queue) : Tail(queue)[k] = OrderDoc(n) => i < k
        BY <1>3, <4>1, <4>3
      <4>6. n \in ordersStored => u \in usersStored
        BY <2>1, <2>2, <4>1 DEF ProfileQueuesFirst
      <4>7. QED
        BY <4>4, <4>5, <4>6
    <3>3. QED
      BY <3>1, <3>2 DEF ProfileQueuesFirst, InQueue, UserDoc, OrderDoc
  <2>3. CASE u # firestoreUser
    <3>1. mutationQueue'[u] = mutationQueue[u]
      BY <1>2, <2>1, <2>3 DEF FirestoreTypeOK
    <3>2. QED
      BY <2>1, <3>1 DEF ProfileQueuesFirst, InQueue, UserDoc, OrderDoc
  <2>4. QED
    BY <2>2, <2>3
<1>5. QED
  BY <1>4 DEF WritesInv

LEMMA ApplyKeepsFirst ==
  ASSUME FirestoreTypeOK, WritesInv, UNCHANGED <<orders, taken>>,
         NEW m \in inFlight, BackendApplies(m)
  PROVE  WritesInv'
<1>1. m \in Mutation /\ UNCHANGED mutationQueue
  BY DEF FirestoreTypeOK, BackendApplies
<1>2. ASSUME NEW n, NEW u \in Users, ProfileQueuesFirst(n, u),
             NEW i \in DOMAIN mutationQueue[u], mutationQueue[u][i] = UserDoc(u),
             n \in ordersStored'
      PROVE  u \in usersStored'
  <2>1. ProfileQueuesFirst(n, u)
    BY <1>2
  <2>2. CASE n \in ordersStored
    BY <1>1, <1>2, <2>1, <2>2 DEF ProfileQueuesFirst, BackendApplies
  <2>3. CASE n \notin ordersStored
    <3>1. m = OrderDoc(n) /\ usersStored' = usersStored
      BY <1>1, <1>2, <2>3 DEF BackendApplies, Mutation, OrderDoc
    <3>2. PICK j \in DOMAIN mutationQueue[u] : mutationQueue[u][j] = OrderDoc(n)
      BY <1>2, <2>1 DEF ProfileQueuesFirst, InQueue
    <3>3. i < j
      BY <1>2, <2>1, <3>2 DEF ProfileQueuesFirst
    <3>4. mutationQueue[u] \in Seq(Mutation) /\ u \in Owners
      BY DEF FirestoreTypeOK, Owners
    <3>5. i \in 1..(j - 1)
      BY <3>3, <3>4
    <3>6. IsStored(UserDoc(u))
      BY <1>2, <3>1, <3>2, <3>4, <3>5 DEF BackendApplies
    <3>7. QED
      BY <3>1, <3>6 DEF IsStored, UserDoc
  <2>4. QED
    BY <2>2, <2>3
<1>3. QED
  BY <1>1, <1>2 DEF WritesInv, ProfileQueuesFirst, InQueue, UserDoc, OrderDoc

--------------------------------------------------------------------------------

(* Steps that leave the writes and the orders taken alone. *)
LEMMA WritesKept ==
  ASSUME WritesInv, UNCHANGED <<mutationQueue, usersStored, ordersStored, taken>>,
         \A t \in taken : orders'[t.order] = orders[t.order]
  PROVE  WritesInv'
BY DEF WritesInv, ProfileQueuesFirst, InQueue, UserDoc, OrderDoc

LEMMA NextKeepsQueues == IInv /\ PInv /\ [Next]_vars => WritesInv'
<1> SUFFICES ASSUME IInv, PInv, [Next]_vars PROVE WritesInv'
  OBVIOUS
<1>1. WritesInv /\ FirestoreTypeOK /\ TypeOK
  BY DEF PInv, IInv, TypeOK
<1>2. CASE UNCHANGED <<mutationQueue, usersStored, ordersStored, orders, taken>>
  BY <1>1, <1>2, WritesKept
<1>3. CASE \E u \in Users : CreateUser(u) \/ SignIn(u) \/ RunCreateUserCompletion(u)
  BY <1>2, <1>3
  DEF CreateUser, SignIn, ChangeCurrentUser, RunCreateUserCompletion, firestoreVars, orderVars
<1>4. CASE DidTapLogout \/ SignOutByForce
  BY <1>2, <1>4 DEF DidTapLogout, SignOutByForce, ChangeCurrentUser, firestoreVars, orderVars
<1>5. CASE (\E u \in Owners : RunAuthStateDidChange(u)) \/ RunCheckAuthentication \/ Restart
  BY <1>2, <1>5
  DEF RunAuthStateDidChange, RunCheckAuthentication, Restart, HandleCredentialChange,
      firestoreVars, orderVars
<1>6. CASE \E s \in Submissions, exists \in BOOLEAN :
             AnswerGetDocument(s, exists) \/ RunGetDocumentCompletion(s, exists)
  <2>1. PICK s \in Submissions, exists \in BOOLEAN :
          AnswerGetDocument(s, exists) \/ RunGetDocumentCompletion(s, exists)
    BY <1>6
  <2>2. CASE exists /\ RunGetDocumentCompletion(s, exists)
    <3>1. /\ UNCHANGED <<mutationQueue, usersStored, ordersStored, taken>>
          /\ orders' = Append(orders, OrderData(s))
      BY <2>2 DEF RunGetDocumentCompletion, firestoreVars
    <3>2. \A n \in DOMAIN orders : orders'[n] = orders[n]
      BY <1>1, <3>1 DEF TypeOK
    <3>3. \A t \in taken : t.order \in DOMAIN orders
      BY <1>1 DEF TypeOK
    <3>4. QED
      BY <1>1, <3>1, <3>2, <3>3, WritesKept
  <2>3. CASE ~exists \/ AnswerGetDocument(s, exists)
    BY <1>2, <2>1, <2>3 DEF AnswerGetDocument, RunGetDocumentCompletion, firestoreVars
  <2>4. QED
    BY <2>1, <2>2, <2>3
<1>7. CASE \E cart \in Carts : DidTapSubmitOrder(cart)
  BY <1>2, <1>7 DEF DidTapSubmitOrder, firestoreVars
<1>8. CASE RunCredentialChange \/ RunListen
  BY <1>2, <1>8
  DEF RunCredentialChange, RunListen, TakeOperation, HandleCredentialChange,
      firestoreVars, orderVars
<1>9. CASE RunWrite
  BY <1>9, RunWriteKeepsFirst
<1>10. CASE SendWrite
  BY <1>2, <1>10 DEF SendWrite, FillWritePipeline, orderVars
<1>11. CASE BackendAnswers
  BY <1>1, <1>11, DropKeepsFirst, ApplyKeepsFirst
  DEF BackendAnswers, HandleRejectedWrite, orderVars
<1>12. CASE WriteAcknowledged
  BY <1>1, <1>12, DropKeepsFirst DEF WriteAcknowledged, HandleSuccessfulWrite, orderVars
<1>13. CASE UNCHANGED vars
  BY <1>2, <1>13 DEF vars, firestoreVars, orderVars
<1>14. QED
  BY <1>3, <1>4, <1>5, <1>6, <1>7, <1>8, <1>9, <1>10, <1>11, <1>12, <1>13 DEF Next

--------------------------------------------------------------------------------
(* The worker queue. *)

(* An operation that is neither a profile nor an order joins the queue. *)
LEMMA EnqueueKeepsProfiles ==
  ASSUME IInv, EnqueuedProfilesFirst, NEW op \in Operation, Enqueue(op),
         \A u : op # Write(UserDoc(u)), \A n : op # Write(OrderDoc(n)),
         UNCHANGED <<orders, taken>>
  PROVE  EnqueuedProfilesFirst'
<1> DEFINE last == Len(workerQueue) + 1
<1>1. workerQueue \in Seq(Operation)
  BY DEF IInv, TypeOK
<1>2. /\ DOMAIN workerQueue' = DOMAIN workerQueue \cup {last}
      /\ workerQueue'[last] = op
      /\ \A i \in DOMAIN workerQueue : workerQueue'[i] = workerQueue[i]
  BY <1>1 DEF Enqueue
<1>3. /\ \A i \in DOMAIN workerQueue', u \in Users :
           workerQueue'[i] = Write(UserDoc(u)) =>
             i \in DOMAIN workerQueue /\ workerQueue[i] = Write(UserDoc(u))
      /\ \A i \in DOMAIN workerQueue' : \A n :
           OrderAt(i, n)' => i \in DOMAIN workerQueue /\ OrderAt(i, n)
  BY <1>2 DEF OrderAt, Write, UserDoc, OrderDoc
<1>4. QED
  BY <1>3 DEF EnqueuedProfilesFirst, IsTaken, Write, UserDoc

(* registerUser's completion enqueues the profile: as long as it waited on *)
(* the main queue its customer had no order.                               *)
LEMMA EnqueueProfileKeepsProfiles ==
  ASSUME IInv, PInv, NEW u \in Users, RunCreateUserCompletion(u)
  PROVE  EnqueuedProfilesFirst'
<1> DEFINE last == Len(workerQueue) + 1
           op == Write(UserDoc(u))
<1>1. /\ mainQueue \in Seq(Block) /\ workerQueue \in Seq(Operation)
      /\ mainQueue # <<>> /\ Head(mainQueue) = CreateUserCompletion(u)
      /\ UNCHANGED <<orders, taken>>
  BY DEF IInv, TypeOK, RunCreateUserCompletion, RunBlock, orderVars
<1>2. 1 \in DOMAIN mainQueue /\ mainQueue[1] = CreateUserCompletion(u)
  BY <1>1
<1>3. \A n \in DOMAIN orders : orders[n].contact # u
  BY <1>2 DEF PInv, ProfilesWaitFirst, ProfileWaitsAt
<1>4. op \in Operation /\ Enqueue(op)
  BY MutationTypes, OperationTypes DEF RunCreateUserCompletion
<1>5. \A v \in Users : op = Write(UserDoc(v)) => u = v
  BY DEF Write, UserDoc
<1>6. \A n : op # Write(OrderDoc(n))
  BY OperationTypes
<1> HIDE DEF op
<1>7. /\ DOMAIN workerQueue' = DOMAIN workerQueue \cup {last}
      /\ workerQueue'[last] = op
      /\ \A i \in DOMAIN workerQueue : workerQueue'[i] = workerQueue[i]
  BY <1>1, <1>4 DEF Enqueue
<1>8. /\ \A i \in DOMAIN workerQueue', v \in Users :
           workerQueue'[i] = Write(UserDoc(v)) =>
             \/ v = u
             \/ i \in DOMAIN workerQueue /\ workerQueue[i] = Write(UserDoc(v))
      /\ \A i \in DOMAIN workerQueue' : \A n :
           OrderAt(i, n)' => i \in DOMAIN workerQueue /\ OrderAt(i, n)
  BY <1>5, <1>6, <1>7 DEF OrderAt, Write, UserDoc, OrderDoc
<1>9. QED
  BY <1>1, <1>3, <1>8 DEF PInv, EnqueuedProfilesFirst, IsTaken, Write, UserDoc

(* An order is enqueued behind every profile that is. *)
LEMMA EnqueueOrderKeepsProfiles ==
  ASSUME IInv, PInv, NEW s \in Submissions, RunGetDocumentCompletion(s, TRUE)
  PROVE  EnqueuedProfilesFirst'
<1> DEFINE last == Len(workerQueue) + 1
<1>1. orders \in Seq(Order) /\ workerQueue \in Seq(Operation)
  BY DEF IInv, TypeOK
<1>2. PICK id \in OrderIds : id = Len(orders) + 1
  BY <1>1 DEF OrderIds
<1> DEFINE op == Write(OrderDoc(id))
<1>3. /\ orders' = Append(orders, OrderData(s)) /\ Enqueue(op) /\ UNCHANGED taken
  BY <1>2 DEF RunGetDocumentCompletion
<1>4. op \in Operation /\ \A u : op # Write(UserDoc(u))
  BY MutationTypes, OperationTypes
<1>5. \A n : op = Write(OrderDoc(n)) => n = id
  BY OperationTypes
<1> HIDE DEF op
<1>6. /\ DOMAIN orders' = DOMAIN orders \cup {id} /\ id \notin DOMAIN orders
      /\ \A n \in DOMAIN orders : orders'[n] = orders[n]
  BY <1>1, <1>2, <1>3
<1>7. /\ DOMAIN workerQueue' = DOMAIN workerQueue \cup {last}
      /\ workerQueue'[last] = op
      /\ \A i \in DOMAIN workerQueue : workerQueue'[i] = workerQueue[i] /\ i < last
  BY <1>1, <1>3, <1>4 DEF Enqueue
<1>8. /\ \A i \in DOMAIN workerQueue', u \in Users :
           workerQueue'[i] = Write(UserDoc(u)) =>
             i \in DOMAIN workerQueue /\ workerQueue[i] = Write(UserDoc(u))
      /\ \A i \in DOMAIN workerQueue' : \A n :
           OrderAt(i, n)' => \/ i = last
                             \/ i \in DOMAIN workerQueue /\ OrderAt(i, n)
  BY <1>4, <1>7 DEF OrderAt, Write, UserDoc, OrderDoc
<1>9. \A i \in DOMAIN workerQueue : \A n : OrderAt(i, n) /\ n \in OrderIds => n \in DOMAIN orders
  BY DEF IInv, EnqueuedOrdersAreNew
<1>10. \A n : IsTaken(n) => n \in DOMAIN orders
  BY DEF IsTaken, IInv, TypeOK
<1>11. \A n \in DOMAIN orders' : n \in OrderIds
  BY <1>1, <1>6 DEF OrderIds
<1>12. QED
  BY <1>3, <1>6, <1>7, <1>8, <1>9, <1>10, <1>11
  DEF PInv, EnqueuedProfilesFirst, IsTaken, Write, UserDoc

(* What is left of the worker queue keeps its order; what has been taken   *)
(* from its head was behind no profile.                                    *)
LEMMA ShorterWorkerQueueKeepsProfiles ==
  ASSUME IInv, EnqueuedProfilesFirst,
         \/ workerQueue' \in {workerQueue, <<>>}
         \/ workerQueue # <<>> /\ workerQueue' = Tail(workerQueue),
         UNCHANGED <<orders, taken>>
  PROVE  EnqueuedProfilesFirst'
<1>1. workerQueue \in Seq(Operation)
  BY DEF IInv, TypeOK
<1>2. PICK k \in {0, 1} : \A i \in DOMAIN workerQueue' :
         i + k \in DOMAIN workerQueue /\ workerQueue'[i] = workerQueue[i + k]
  BY <1>1, ShorterWorkerQueue
<1>3. DOMAIN workerQueue' \subseteq Nat
  BY <1>1, ShorterWorkerQueue
<1>4. /\ \A i \in DOMAIN workerQueue', u \in Users :
           workerQueue'[i] = Write(UserDoc(u)) =>
             i + k \in DOMAIN workerQueue /\ workerQueue[i + k] = Write(UserDoc(u))
      /\ \A i \in DOMAIN workerQueue' : \A n :
           OrderAt(i, n)' => i + k \in DOMAIN workerQueue /\ OrderAt(i + k, n)
  BY <1>2 DEF OrderAt, Write, OrderDoc
<1>5. QED
  BY <1>3, <1>4 DEF EnqueuedProfilesFirst, IsTaken, Write, UserDoc

LEMMA RunWriteKeepsProfiles ==
  ASSUME IInv, EnqueuedProfilesFirst, RunWrite
  PROVE  EnqueuedProfilesFirst'
<1>1. PICK m \in Mutation :
        /\ workerQueue # <<>> /\ 1 \in DOMAIN workerQueue
        /\ workerQueue[1] = Write(m) /\ workerQueue' = Tail(workerQueue)
        /\ taken' = IF m.collection = "orders"
                    THEN taken \cup {[order |-> m.document, under |-> firestoreUser]}
                    ELSE taken
        /\ m.collection = "orders" => m = OrderDoc(m.document)
        /\ UNCHANGED orders
  BY RunWriteSteps DEF IInv, orderVars
<1>2. /\ \A i \in DOMAIN workerQueue' :
           i + 1 \in DOMAIN workerQueue /\ workerQueue'[i] = workerQueue[i + 1]
      /\ DOMAIN workerQueue' \subseteq Nat \ {0}
  BY <1>1 DEF IInv, TypeOK
<1>3. /\ \A i \in DOMAIN workerQueue', u \in Users :
           workerQueue'[i] = Write(UserDoc(u)) =>
             i + 1 \in DOMAIN workerQueue /\ workerQueue[i + 1] = Write(UserDoc(u))
      /\ \A i \in DOMAIN workerQueue' : \A n :
           OrderAt(i, n)' => i + 1 \in DOMAIN workerQueue /\ OrderAt(i + 1, n)
  BY <1>2 DEF OrderAt, Write, OrderDoc
<1>4. \A n : IsTaken(n)' => IsTaken(n) \/ OrderAt(1, n)
  <2>1. \A n : IsTaken(n)' => IsTaken(n) \/ (m.collection = "orders" /\ n = m.document)
    BY <1>1 DEF IsTaken
  <2>2. m.collection = "orders" => OrderAt(1, m.document)
    BY <1>1 DEF OrderAt
  <2>3. QED
    BY <2>1, <2>2
<1>5. ASSUME NEW i \in DOMAIN workerQueue', NEW u \in Users,
             workerQueue'[i] = Write(UserDoc(u))
      PROVE  /\ \A n \in DOMAIN orders : orders[n].contact = u => ~IsTaken(n)'
             /\ \A j \in DOMAIN workerQueue' : \A n \in DOMAIN orders :
                  OrderAt(j, n)' /\ orders[n].contact = u => i < j
  <2>1. /\ i + 1 \in DOMAIN workerQueue /\ workerQueue[i + 1] = Write(UserDoc(u))
        /\ i \in Nat \ {0} /\ ~(i + 1 < 1)
    BY <1>2, <1>3, <1>5
  <2>2. \A n \in DOMAIN orders : orders[n].contact = u => ~OrderAt(1, n)
    BY <1>1, <2>1 DEF EnqueuedProfilesFirst
  <2>3. \A n \in DOMAIN orders : orders[n].contact = u => ~IsTaken(n)'
    BY <1>4, <2>1, <2>2 DEF EnqueuedProfilesFirst
  <2>4. \A j \in DOMAIN workerQueue' : \A n \in DOMAIN orders :
          OrderAt(j, n)' /\ orders[n].contact = u => i < j
    BY <1>2, <1>3, <2>1 DEF EnqueuedProfilesFirst
  <2>5. QED
    BY <2>3, <2>4
<1>6. QED
  BY <1>1, <1>5 DEF EnqueuedProfilesFirst, Write, UserDoc

LEMMA NextKeepsEnqueued == IInv /\ PInv /\ [Next]_vars => EnqueuedProfilesFirst'
<1> SUFFICES ASSUME IInv, PInv, [Next]_vars PROVE EnqueuedProfilesFirst'
  OBVIOUS
<1> DEFINE Kept == UNCHANGED <<orders, taken>>
<1>1. EnqueuedProfilesFirst
  BY DEF PInv
<1>2. CASE workerQueue' \in {workerQueue, <<>>} /\ Kept
  BY <1>1, <1>2, ShorterWorkerQueueKeepsProfiles
<1>3. CASE SendWrite \/ BackendAnswers \/ WriteAcknowledged \/ Restart
  BY <1>2, <1>3 DEF SendWrite, BackendAnswers, WriteAcknowledged, Restart, orderVars
<1>4. CASE RunCredentialChange \/ RunListen
  BY <1>1, <1>4, ShorterWorkerQueueKeepsProfiles
  DEF RunCredentialChange, RunListen, TakeOperation, orderVars
<1>5. CASE RunWrite
  BY <1>1, <1>5, RunWriteKeepsProfiles
<1>6. CASE \E s \in Submissions, exists \in BOOLEAN :
             AnswerGetDocument(s, exists) \/ RunGetDocumentCompletion(s, exists)
  <2>1. PICK s \in Submissions, exists \in BOOLEAN :
          AnswerGetDocument(s, exists) \/ RunGetDocumentCompletion(s, exists)
    BY <1>6
  <2>2. CASE exists /\ RunGetDocumentCompletion(s, exists)
    BY <2>2, EnqueueOrderKeepsProfiles
  <2>3. CASE ~exists \/ AnswerGetDocument(s, exists)
    BY <1>2, <2>1, <2>3 DEF AnswerGetDocument, RunGetDocumentCompletion
  <2>4. QED
    BY <2>1, <2>2, <2>3
<1>7. CASE \E u \in Users : CreateUser(u) \/ SignIn(u)
  BY <1>2, <1>7 DEF CreateUser, SignIn, ChangeCurrentUser, orderVars
<1>8. CASE \E u \in Users : RunCreateUserCompletion(u)
  BY <1>8, EnqueueProfileKeepsProfiles
<1>9. CASE DidTapLogout \/ SignOutByForce
  BY <1>2, <1>9 DEF DidTapLogout, SignOutByForce, ChangeCurrentUser, orderVars
<1>10. CASE \E u \in Owners : RunAuthStateDidChange(u)
  <2>1. PICK u \in Owners : RunAuthStateDidChange(u)
    BY <1>10
  <2>2. /\ CredentialChange(u) \in Operation
        /\ \A v : CredentialChange(u) # Write(UserDoc(v))
        /\ \A n : CredentialChange(u) # Write(OrderDoc(n))
    <3>1. \A m : CredentialChange(u) # Write(m)
      BY DEF CredentialChange, Write
    <3>2. QED
      BY <3>1, OperationTypes
  <2>3. QED
    BY <1>1, <2>1, <2>2, EnqueueKeepsProfiles DEF RunAuthStateDidChange, orderVars
<1>11. CASE RunCheckAuthentication
  BY <1>2, <1>11 DEF RunCheckAuthentication, orderVars
<1>12. CASE \E cart \in Carts : DidTapSubmitOrder(cart)
  <2>1. PICK cart \in Carts : DidTapSubmitOrder(cart)
    BY <1>12
  <2> DEFINE s == Len(submissions) + 1
  <2>2. Kept /\ (UNCHANGED workerQueue \/ Enqueue(Listen(s)))
    BY <2>1 DEF DidTapSubmitOrder
  <2>3. s \in Submissions
    BY <2>1, BoundsAssumption DEF DidTapSubmitOrder, IInv, TypeOK, Submissions
  <2>4. \A m : Listen(s) # Write(m)
    BY DEF Listen, Write
  <2>5. /\ Listen(s) \in Operation
        /\ \A v : Listen(s) # Write(UserDoc(v))
        /\ \A n : Listen(s) # Write(OrderDoc(n))
    BY <2>3, <2>4, OperationTypes
  <2>6. QED
    BY <1>1, <1>2, <2>2, <2>5, EnqueueKeepsProfiles
<1>13. CASE UNCHANGED vars
  BY <1>2, <1>13 DEF vars, orderVars
<1>14. QED
  BY <1>3, <1>4, <1>5, <1>6, <1>7, <1>8, <1>9, <1>10, <1>11, <1>12, <1>13 DEF Next

LEMMA NextKeepsCustomers ==
  IInv /\ PInv /\ [Next]_vars => CustomersHaveAccounts' /\ ProfilesWaitFirst'
<1> SUFFICES ASSUME IInv, PInv, [Next]_vars
             PROVE  CustomersHaveAccounts' /\ ProfilesWaitFirst'
  OBVIOUS
<1> DEFINE Shorter ==
      /\ mainQueue' \in {mainQueue, <<>>} \/ (mainQueue # <<>> /\ mainQueue' = Tail(mainQueue))
      /\ UNCHANGED <<currentUser, accounts, submissions, orders>>
<1>1. TypeOK /\ CustomersHaveAccounts /\ ProfilesWaitFirst
  BY DEF IInv, PInv
<1>2. CASE Shorter
  BY <1>1, <1>2, ShorterQueueKeeps
<1>3. ASSUME NEW u \in Users, CreateUser(u)
      PROVE  CustomersHaveAccounts' /\ ProfilesWaitFirst'
  <2> DEFINE blocks == <<AuthStateDidChange(u), CreateUserCompletion(u)>>
  <2>1. blocks \in Seq(OtherBlock)
    BY DEF OtherBlock, AuthStateDidChange, CreateUserCompletion, Owners
  <2>2. \A i \in DOMAIN blocks : \A v \in Users :
          blocks[i] = CreateUserCompletion(v) => v = u
    <3>1. \A i \in DOMAIN blocks : blocks[i] \in {AuthStateDidChange(u), CreateUserCompletion(u)}
      OBVIOUS
    <3>2. u \in Owners
      BY DEF Owners
    <3>3. QED
      BY <3>1, <3>2, ProfileBlocks
  <2>3. /\ u \notin accounts /\ accounts' = accounts \cup {u} /\ currentUser' = u
        /\ mainQueue' = mainQueue \o blocks
        /\ UNCHANGED <<submissions, orders>>
    BY <1>3 DEF CreateUser, ChangeCurrentUser, orderVars
  <2>4. QED
    BY <1>1, <2>1, <2>2, <2>3, NewCustomerKeeps
<1>4. ASSUME NEW u \in accounts \cup {NoUser}, NEW blocks \in Seq(OtherBlock),
             ChangeCurrentUser(u, blocks), UNCHANGED accounts,
             \A i \in DOMAIN blocks : \A v \in Users : blocks[i] # CreateUserCompletion(v)
      PROVE  CustomersHaveAccounts' /\ ProfilesWaitFirst'
  BY <1>1, <1>4, NewCustomerKeeps DEF ChangeCurrentUser, orderVars
<1>5. ASSUME NEW u \in Users, SignIn(u)
      PROVE  CustomersHaveAccounts' /\ ProfilesWaitFirst'
  <2> DEFINE blocks == <<AuthStateDidChange(u), CheckAuthentication>>
  <2>1. u \in Owners /\ u \in accounts
    BY <1>5 DEF Owners, SignIn
  <2>2. blocks \in Seq(OtherBlock)
    BY <2>1 DEF OtherBlock, AuthStateDidChange, CheckAuthentication
  <2>3. \A i \in DOMAIN blocks : blocks[i] \in {AuthStateDidChange(u), CheckAuthentication}
    OBVIOUS
  <2>4. \A i \in DOMAIN blocks : \A v \in Users : blocks[i] # CreateUserCompletion(v)
    BY <2>1, <2>3, ProfileBlocks
  <2>5. QED
    BY <1>4, <1>5, <2>1, <2>2, <2>4 DEF SignIn
<1>6. CASE DidTapLogout \/ SignOutByForce
  <2> DEFINE blocks == <<AuthStateDidChange(NoUser)>>
  <2>1. NoUser \in Owners
    BY DEF Owners
  <2>2. blocks \in Seq(OtherBlock)
    BY <2>1 DEF OtherBlock, AuthStateDidChange
  <2>3. \A i \in DOMAIN blocks : blocks[i] = AuthStateDidChange(NoUser)
    OBVIOUS
  <2>4. \A i \in DOMAIN blocks : \A v \in Users : blocks[i] # CreateUserCompletion(v)
    BY <2>1, <2>3, ProfileBlocks
  <2>5. QED
    BY <1>4, <1>6, <2>2, <2>4 DEF DidTapLogout, SignOutByForce
<1>7. CASE \E u \in Users : RunCreateUserCompletion(u)
  BY <1>2, <1>7 DEF RunCreateUserCompletion, RunBlock, authVars, orderVars
<1>8. CASE (\E u \in Owners : RunAuthStateDidChange(u)) \/ RunCheckAuthentication \/ Restart
  BY <1>2, <1>8 DEF RunAuthStateDidChange, RunCheckAuthentication, RunBlock, Restart, authVars, orderVars
<1>9. CASE \E s \in Submissions, exists \in BOOLEAN :
             AnswerGetDocument(s, exists) \/ RunGetDocumentCompletion(s, exists)
  <2>1. PICK s \in Submissions, exists \in BOOLEAN :
          AnswerGetDocument(s, exists) \/ RunGetDocumentCompletion(s, exists)
    BY <1>9
  <2>2. CASE AnswerGetDocument(s, exists)
    BY <1>1, <2>2, AnswerKeepsProfiles
  <2>3. CASE exists /\ RunGetDocumentCompletion(s, exists)
    BY <1>1, <2>3, OrderKeepsProfiles
  <2>4. CASE ~exists /\ RunGetDocumentCompletion(s, exists)
    BY <1>2, <2>4 DEF RunGetDocumentCompletion, RunBlock, authVars
  <2>5. QED
    BY <2>1, <2>2, <2>3, <2>4
<1>10. CASE \E cart \in Carts : DidTapSubmitOrder(cart)
  BY <1>1, <1>10, TapKeepsProfiles
<1>11. CASE SendWrite \/ BackendAnswers
  BY <1>2, <1>11 DEF SendWrite, BackendAnswers, authVars, orderVars
<1>12. CASE WriteAcknowledged
  <2>1. UNCHANGED <<currentUser, accounts, submissions, orders>>
    BY <1>12 DEF WriteAcknowledged, authVars, orderVars
  <2>2. CASE UNCHANGED mainQueue
    BY <1>2, <2>1, <2>2
  <2>3. CASE mainQueue' = Append(mainQueue, CheckAuthentication)
    <3> DEFINE blocks == <<CheckAuthentication>>
    <3>1. blocks \in Seq(OtherBlock)
      BY DEF OtherBlock
    <3>2. \A i \in DOMAIN blocks : \A v \in Users : blocks[i] # CreateUserCompletion(v)
      <4>1. \A i \in DOMAIN blocks : blocks[i] = CheckAuthentication
        OBVIOUS
      <4>2. QED
        BY <4>1, ProfileBlocks
    <3>3. mainQueue' = mainQueue \o blocks
      <4>1. mainQueue \in Seq(Block) /\ CheckAuthentication \in Block
        BY <1>1 DEF TypeOK, Block
      <4>2. QED
        BY <2>3, <4>1
    <3>4. currentUser' \in accounts' \cup {NoUser}
      BY <1>1, <2>1 DEF CustomersHaveAccounts
    <3>5. QED
      BY <1>1, <2>1, <3>1, <3>2, <3>3, <3>4, NewCustomerKeeps
  <2>4. QED
    BY <1>12, <2>2, <2>3 DEF WriteAcknowledged
<1>13. CASE UNCHANGED vars
  BY <1>2, <1>13 DEF vars, authVars, orderVars
<1>14. CASE RunCredentialChange \/ RunWrite \/ RunListen
  BY <1>2, <1>14
  DEF RunCredentialChange, RunWrite, RunListen, TakeOperation, authVars, orderVars
<1>15. QED
  BY <1>3, <1>5, <1>6, <1>7, <1>8, <1>9, <1>10, <1>11, <1>12, <1>13, <1>14 DEF Next

(* No order reaches the company ahead of the profile of its customer,      *)
(* whoever signs in or out between createUser, the tap and the answers,    *)
(* and however often the writes are sent.                                  *)
THEOREM ProfileFirst == Spec => []ProfileGoesFirst
<1>1. IInv /\ PInv /\ [Next]_vars => PInv'
  BY NextKeepsCustomers, NextKeepsEnqueued, NextKeepsQueues DEF PInv
<1>2. IInv /\ PInv => ProfileGoesFirst
  <2> SUFFICES ASSUME IInv, PInv, NEW t \in taken,
                      t.under = orders[t.order].contact, t.order \in ordersStored,
                      \/ InQueue(UserDoc(t.under), t.under)
                      \/ IsEnqueued(Write(UserDoc(t.under)))
               PROVE  t.under \in usersStored
    BY DEF ProfileGoesFirst
  <2>1. t.order \in DOMAIN orders /\ orders[t.order] \in Order
    BY DEF IInv, TypeOK
  <2>2. t.under \in Users
    BY <2>1 DEF Order
  <2>3. ~IsEnqueued(Write(UserDoc(t.under)))
    BY <2>1, <2>2 DEF PInv, EnqueuedProfilesFirst, IsEnqueued, IsTaken
  <2>4. PICK i \in DOMAIN mutationQueue[t.under] :
          mutationQueue[t.under][i] = UserDoc(t.under)
    BY <2>3 DEF InQueue
  <2>5. ProfileQueuesFirst(t.order, t.under)
    BY <2>2 DEF PInv, WritesInv
  <2>6. QED
    BY <2>4, <2>5 DEF ProfileQueuesFirst
<1>3. QED
  BY <1>1, <1>2, InitPInv, IInvHolds, PTL DEF Spec

================================================================================
