---------------------------- MODULE FirestoreClient ----------------------------
(***************************************************************************)
(* The part of the Firestore client that the app relies on (vendored, see  *)
(* Pods/FirebaseFirestoreInternal): one persisted queue of writes per      *)
(* user, sent in order under the credential of the user Firestore knows    *)
(* of, and a latency-compensated local view that reads see.                *)
(*                                                                         *)
(* A write stays in its queue until the backend has answered it.  A change *)
(* of credential or a restart in between loses the answer, not the write:  *)
(* it is sent again, and may be applied twice.                             *)
(***************************************************************************)
EXTENDS Naturals, Sequences

CONSTANTS Users,    \* uids of the accounts people may create
          NoUser    \* Firestore's "unauthenticated" user, and Auth's nil

ASSUME NoUserAssumption == NoUser \notin Users

VARIABLES firestoreUser, \* the user whose credential Firestore uses
          mutationQueue, \* persisted queue of unanswered writes of each user
          inFlight,      \* writes on their way to the backend
          usersStored,   \* uids with a document in the backend's "users"
          ordersStored,  \* ids of the documents in the backend's "orders"
          refused        \* writes the backend has answered with an error

firestoreVars == <<firestoreUser, mutationQueue, inFlight,
                   usersStored, ordersStored, refused>>

Owners == Users \cup {NoUser}

(* addDocument draws an id of its own for every document, here the next number. *)
OrderIds == Nat \ {0}

(* A write names the document it sets.  Its data is fixed when it is made: *)
(* a users document is written once, an orders document has a fresh id.    *)
UserDoc(u)  == [collection |-> "users",  document |-> u]
OrderDoc(n) == [collection |-> "orders", document |-> n]

Mutation == [collection : {"users"},  document : Users]
              \cup [collection : {"orders"}, document : OrderIds]

FirestoreTypeOK ==
  /\ firestoreUser \in Owners
  /\ mutationQueue \in [Owners -> Seq(Mutation)]
  /\ inFlight \subseteq Mutation
  /\ usersStored \subseteq Users
  /\ ordersStored \subseteq OrderIds
  /\ refused \subseteq Mutation

FirestoreInit ==
  /\ firestoreUser = NoUser
  /\ mutationQueue = [u \in Owners |-> <<>>]
  /\ inFlight = {}
  /\ usersStored = {}
  /\ ordersStored = {}
  /\ refused = {}

InQueue(m, u) ==
  \E i \in DOMAIN mutationQueue[u] : mutationQueue[u][i] = m

IsStored(m) == \/ m.collection = "users"  /\ m.document \in usersStored
               \/ m.collection = "orders" /\ m.document \in ordersStored

(* What a read of users/{u} finds: the backend's document under the        *)
(* writes that the current user has not had answered yet.                  *)
UserDocExists(u) == u \in usersStored \/ InQueue(UserDoc(u), firestoreUser)

--------------------------------------------------------------------------------

(* Faulty variants, named for the fault, stand before the definition they  *)
(* vary; no specification uses them.                                       *)
NewestWriteFirst(m) ==
  /\ mutationQueue' = [mutationQueue EXCEPT ![firestoreUser] = <<m>> \o @]
  /\ UNCHANGED <<firestoreUser, inFlight, usersStored, ordersStored, refused>>

(* setData and addDocument: the write joins the current user's queue and   *)
(* is persisted before anything is sent.                                   *)
WriteMutation(m) ==
  /\ mutationQueue' = [mutationQueue EXCEPT ![firestoreUser] = Append(@, m)]
  /\ UNCHANGED <<firestoreUser, inFlight, usersStored, ordersStored, refused>>

CredentialChangeForgetsWrites(u) ==
  /\ firestoreUser' = u
  /\ mutationQueue' = [mutationQueue EXCEPT ![firestoreUser] = <<>>]
  /\ UNCHANGED <<inFlight, usersStored, ordersStored, refused>>

(* The queues are swapped; what the previous user had queued waits.        *)
HandleCredentialChange(u) ==
  /\ firestoreUser' = u
  /\ UNCHANGED <<mutationQueue, inFlight, usersStored, ordersStored, refused>>

HasWork == mutationQueue[firestoreUser] # <<>>
NextWrite == Head(mutationQueue[firestoreUser])
DropNextWrite ==
  mutationQueue' = [mutationQueue EXCEPT ![firestoreUser] = Tail(@)]

(* The write stream carries the writes of the queue in order, without     *)
(* waiting for answers (ten at most, more than a queue ever holds here).   *)
(* A reopened stream carries again what was carried, or even applied.      *)
FillWritePipeline ==
  LET queue == mutationQueue[firestoreUser] IN
    \E i \in DOMAIN queue :
      /\ queue[i] \notin inFlight
      /\ \A j \in 1..i-1 : queue[j] \in inFlight \/ IsStored(queue[j])
      /\ inFlight' = inFlight \cup {queue[i]}
      /\ UNCHANGED <<firestoreUser, mutationQueue, usersStored, ordersStored, refused>>

(* The backend applies the writes of a stream in order, whoever is signed  *)
(* in on the phone by now.                                                 *)
BackendApplies(m) ==
  /\ m \in inFlight
  /\ \A u \in Owners : \A i \in DOMAIN mutationQueue[u] :
       mutationQueue[u][i] = m => \A j \in 1..i-1 : IsStored(mutationQueue[u][j])
  /\ inFlight' = inFlight \ {m}
  /\ IF m.collection = "users"
     THEN usersStored' = usersStored \cup {m.document} /\ UNCHANGED ordersStored
     ELSE ordersStored' = ordersStored \cup {m.document} /\ UNCHANGED usersStored
  /\ UNCHANGED <<firestoreUser, mutationQueue, refused>>

HandleSuccessfulWrite ==
  /\ HasWork
  /\ IsStored(NextWrite)
  /\ DropNextWrite
  /\ UNCHANGED <<firestoreUser, inFlight, usersStored, ordersStored, refused>>


(* The security rules, which the repository does not hold, may refuse any  *)
(* write; a refused write leaves the queue for good.  The refusal may be   *)
(* that of a second attempt, with the first still on its way, or applied.  *)
HandleRejectedWrite ==
  /\ HasWork
  /\ NextWrite \in inFlight \/ IsStored(NextWrite)
  /\ inFlight' \in {inFlight, inFlight \ {NextWrite}}
  /\ DropNextWrite
  /\ refused' = refused \cup {NextWrite}
  /\ UNCHANGED <<firestoreUser, usersStored, ordersStored>>

--------------------------------------------------------------------------------

(* The client on its own, for an app that makes the given writes. *)
ClientNext(writes) ==
  \/ \E m \in writes : WriteMutation(m) \/ BackendApplies(m)
  \/ \E u \in Owners : HandleCredentialChange(u)
  \/ FillWritePipeline
  \/ HandleSuccessfulWrite
  \/ HandleRejectedWrite

================================================================================
