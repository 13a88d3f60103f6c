----------------------------- MODULE WritePipeline -----------------------------
(***************************************************************************)
(* How the Firestore client gets writes to the backend: SyncEngine, the    *)
(* mutation queue of LocalStore, the write half of RemoteStore, and the    *)
(* write stream with its credentials, handshake, backoff and idle timer.   *)
(*                                                                         *)
(* All of it runs on one worker queue, a handler at a time.  Credentials,  *)
(* timers and the network answer at any moment.  The stream can break at   *)
(* any point, and what it carried may still be applied afterwards.         *)
(***************************************************************************)
EXTENDS Naturals, Sequences, FiniteSets, SequencesExt

CONSTANTS Users,             \* uids
          NoUser,            \* the unauthenticated user
          MaxPendingWrites,  \* kMaxPendingWrites: the size of the pipeline
          MaxWrites,         \* bound on the writes the app makes
          MaxAuthChanges,    \* bound on the changes of the signed-in user
          MaxMishaps         \* bound on failed streams, changes of connectivity
                             \* and restarts of the app, taken together

ASSUME NoUserIsNoUid == NoUser \notin Users
ASSUME PipelineHasRoom == MaxPendingWrites \in Nat \ {0}
ASSUME PipelineBounds == {MaxWrites, MaxAuthChanges, MaxMishaps} \subseteq Nat

VARIABLES authUser,       \* Auth's current user, whose tokens it hands out
          mainQueue,      \* blocks that Auth has posted to the main queue
          workerQueue,    \* what the app's thread has enqueued on the worker queue
          syncUser,       \* SyncEngine's current user, whose queue LocalStore has open
          mutationQueue,  \* persisted batches of each user
          nextBatchId,    \* of the open mutation queue
          callbacks,      \* SyncEngine's mutation_callbacks_
          store,          \* RemoteStore: the pipeline and the write stream
          wire,           \* requests of the current stream on the network
          down,           \* responses of the current stream not yet read
          refusing,       \* the backend has refused a write and ended the stream
          leftovers,      \* requests of closed streams still on the network
          stored,         \* writes that the backend has applied
          outcomes,       \* history: what the app was told of which write
          carried,        \* history: writes on the network and not applied since
          refused,        \* history: writes dropped as rejected
          made, authChanges, mishaps

client == <<syncUser, mutationQueue, nextBatchId, callbacks>>
network == <<wire, down, refusing, leftovers, stored>>
counts == <<made, authChanges, mishaps>>
vars == <<authUser, mainQueue, workerQueue, client, store, network,
          outcomes, carried, refused, counts>>

Owners == Users \cup {NoUser}
Writes == 1..MaxWrites
Batch == [id : Nat \ {0}, write : Writes]

(* The first message on a stream; the others are writes, or their results. *)
Handshake == 0

StreamStates == {"Initial", "Starting", "Open", "Error", "Backoff"}

(* A request for a token remembers the close count of its stream, and      *)
(* whether the token counter of the credentials provider has moved since.  *)
TokenRequest == [closeCount : Nat, stale : BOOLEAN]

(* Blocks of the main queue and operations of the worker queue. *)
AuthStateDidChange(u)     == [block |-> "authStateDidChange", user |-> u]
GetTokenCallback(q, u)    == [block |-> "getToken", request |-> q, token |-> u]
WriteOp(w)                == [op |-> "write", write |-> w]
CredentialChangeOp(u)     == [op |-> "credentialChange", user |-> u]
ResumeStartOp(count, u)   == [op |-> "resumeStart", closeCount |-> count, token |-> u]

Block == [block : {"authStateDidChange"}, user : Owners]
           \cup [block : {"getToken"}, request : TokenRequest, token : Owners]
Operation == [op : {"write"}, write : Writes]
               \cup [op : {"credentialChange"}, user : Owners]
               \cup [op : {"resumeStart"}, closeCount : Nat, token : Owners]

TypeOK ==
  /\ authUser \in Owners
  /\ mainQueue \in Seq(Block)
  /\ workerQueue \in Seq(Operation)
  /\ syncUser \in Owners
  /\ mutationQueue \in [Owners -> Seq(Batch)]
  /\ nextBatchId \in Nat \ {0}
  /\ callbacks \subseteq [user : Owners, id : Nat \ {0}, write : Writes]
  /\ store \in [pipeline : Seq(Batch), stream : StreamStates, handshakeComplete : BOOLEAN,
                idle : BOOLEAN, up : Seq(Writes \cup {Handshake}), token : Owners,
                closeCount : Nat, asked : SUBSET TokenRequest]
  /\ wire \in Seq(Writes \cup {Handshake})
  /\ down \in Seq(Writes \cup {Handshake})
  /\ refusing \in BOOLEAN
  /\ leftovers \subseteq Seq(Writes)
  /\ stored \subseteq Writes
  /\ outcomes \subseteq [told : Writes, of : Writes, success : BOOLEAN]
  /\ carried \subseteq Writes
  /\ refused \subseteq Writes
  /\ made \in 0..MaxWrites
  /\ authChanges \in 0..MaxAuthChanges
  /\ mishaps \in 0..MaxMishaps

Closed == [pipeline |-> <<>>, stream |-> "Initial", handshakeComplete |-> FALSE,
           idle |-> FALSE, up |-> <<>>, token |-> NoUser, closeCount |-> 0, asked |-> {}]

Init ==
  /\ authUser = NoUser
  /\ mainQueue = <<>>
  /\ workerQueue = <<>>
  /\ syncUser = NoUser
  /\ mutationQueue = [u \in Owners |-> <<>>]
  /\ nextBatchId = 1
  /\ callbacks = {}
  /\ store = Closed
  /\ wire = <<>>
  /\ down = <<>>
  /\ refusing = FALSE
  /\ leftovers = {}
  /\ stored = {}
  /\ outcomes = {}
  /\ carried = {}
  /\ refused = {}
  /\ made = 0
  /\ authChanges = 0
  /\ mishaps = 0

--------------------------------------------------------------------------------
(* The stream and the pipeline: what their methods make of the record store. *)

IsOpen(s)    == s.stream = "Open"
IsStarted(s) == s.stream \in {"Starting", "Backoff", "Open"}

(* Stream::Start: after an error it backs off, else it asks for credentials. *)
Start(s) ==
  IF s.stream = "Error" THEN [s EXCEPT !.stream = "Backoff"]
  ELSE [s EXCEPT !.stream = "Starting",
                 !.asked = @ \cup {[closeCount |-> s.closeCount, stale |-> FALSE]}]

StartIfNeeded(s) ==
  IF IsStarted(s) \/ s.pipeline = <<>> THEN s ELSE Start(s)

(* Faulty variants, named for the fault, stand before the definition they  *)
(* vary; no specification uses them.                                       *)
CloseKeepsCount(s, state) ==
  [s EXCEPT !.stream = state, !.idle = FALSE, !.up = <<>>]

(* Stream::Close: callbacks of before are invalidated by the close count.  *)
(* The flag handshake_complete_ outlives the notification of the listener. *)
Close(s, state) ==
  [s EXCEPT !.stream = state, !.closeCount = @ + 1, !.idle = FALSE, !.up = <<>>]

ForgetHandshake(s) == [s EXCEPT !.handshakeComplete = FALSE]

Sendable(s) == IsOpen(s) /\ s.handshakeComplete

WritesOf(batches) == [i \in DOMAIN batches |-> batches[i].write]

(* NextMutationBatchAfterBatchId, asked again and again. *)
BatchesAfter(queue, id) ==
  LET higher == {i \in DOMAIN queue : queue[i].id > id}
      first  == CHOOSE i \in higher : \A j \in higher : i <= j
  IN IF higher = {} THEN <<>> ELSE SubSeq(queue, first, Len(queue))

LastBatchId(s) == IF s.pipeline = <<>> THEN 0 ELSE Last(s.pipeline).id

FillKeepsIdleTimer(s, queue) ==
  LET after == BatchesAfter(queue, LastBatchId(s))
      room  == MaxPendingWrites - Len(s.pipeline)
      added == SubSeq(after, 1, IF Len(after) < room THEN Len(after) ELSE room)
  IN StartIfNeeded([s EXCEPT !.pipeline = @ \o added,
                             !.up   = IF Sendable(s) THEN @ \o WritesOf(added) ELSE @,
                             !.idle = @ \/ (IsOpen(s) /\ s.pipeline = <<>>)])

(* Batches after the last of the pipeline, while it has room.  Nothing to  *)
(* add and nothing pending: an open stream is idle.                        *)
FillWritePipeline(s, queue) ==
  LET after == BatchesAfter(queue, LastBatchId(s))
      room  == MaxPendingWrites - Len(s.pipeline)
      added == SubSeq(after, 1, IF Len(after) < room THEN Len(after) ELSE room)
      full  == [s EXCEPT !.pipeline = @ \o added,
                         !.up   = IF Sendable(s) THEN @ \o WritesOf(added) ELSE @,
                         !.idle = IF added # <<>> THEN @ /\ ~Sendable(s)
                                  ELSE @ \/ (IsOpen(s) /\ s.pipeline = <<>>)]
  IN StartIfNeeded(full)

RestartKeepsPipeline(s, queue) ==
  LET stopped == IF IsStarted(s) THEN ForgetHandshake(Close(s, "Initial")) ELSE s
  IN FillWritePipeline([stopped EXCEPT !.stream = "Initial"], queue)

(* Stop both streams, forget the pipeline and the backoff, and fill again. *)
RestartNetwork(s, queue) ==
  LET stopped == IF IsStarted(s) THEN ForgetHandshake(Close(s, "Initial")) ELSE s
  IN FillWritePipeline([stopped EXCEPT !.pipeline = <<>>, !.stream = "Initial"], queue)

WritesOn(requests) ==
  IF requests # <<>> /\ Head(requests) = Handshake THEN Tail(requests) ELSE requests

(* What a closed stream leaves on the network, unless the backend has      *)
(* ended it.                                                               *)
StreamEnds ==
  /\ leftovers' = IF refusing THEN leftovers
                  ELSE leftovers \cup ({WritesOn(wire)} \ {<<>>})
  /\ wire' = <<>>
  /\ down' = <<>>
  /\ refusing' = FALSE

EndStreamIf(closed) == IF closed THEN StreamEnds /\ UNCHANGED stored ELSE UNCHANGED network

--------------------------------------------------------------------------------
(* The app's threads *)

(* setData or addDocument: enqueued on the worker queue. *)
WriteMutations ==
  /\ made < MaxWrites
  /\ made' = made + 1
  /\ workerQueue' = Append(workerQueue, WriteOp(made + 1))
  /\ UNCHANGED <<authUser, mainQueue, client, store, network, outcomes, carried,
                 refused, authChanges, mishaps>>

(* Auth has another user, or another token for the same one, at once and   *)
(* posts the notification.                                                 *)
ChangeAuthUser(u) ==
  /\ authChanges < MaxAuthChanges
  /\ {u, authUser} # {NoUser}
  /\ authChanges' = authChanges + 1
  /\ authUser' = u
  /\ mainQueue' = Append(mainQueue, AuthStateDidChange(u))
  /\ UNCHANGED <<workerQueue, client, store, network, outcomes, carried, refused,
                 made, mishaps>>

(* getTokenForcingRefresh on Auth's work queue.  A token that has to be    *)
(* fetched only comes later: if the user changes meanwhile, it is stale.   *)
AuthGetsToken(request) ==
  /\ request \in store.asked
  /\ store' = [store EXCEPT !.asked = @ \ {request}]
  /\ mainQueue' = Append(mainQueue, GetTokenCallback(request, authUser))
  /\ UNCHANGED <<authUser, workerQueue, client, network, outcomes, carried, refused, counts>>

--------------------------------------------------------------------------------
(* FirebaseAuthCredentialsProvider on the main queue *)

Stale(request) == [request EXCEPT !.stale = TRUE]

(* The token counter moves, so that tokens asked for before are asked for  *)
(* again; the change is enqueued on the worker queue.                      *)
RunAuthStateDidChange ==
  /\ mainQueue # <<>>
  /\ Head(mainQueue).block = "authStateDidChange"
  /\ mainQueue' = [i \in DOMAIN Tail(mainQueue) |->
                     LET b == Tail(mainQueue)[i] IN
                       IF b.block = "getToken" THEN [b EXCEPT !.request = Stale(@)] ELSE b]
  /\ store' = [store EXCEPT !.asked = {Stale(q) : q \in @}]
  /\ workerQueue' = Append(workerQueue, CredentialChangeOp(Head(mainQueue).user))
  /\ UNCHANGED <<authUser, client, network, outcomes, carried, refused, counts>>

RunGetTokenCallback ==
  /\ mainQueue # <<>>
  /\ Head(mainQueue).block = "getToken"
  /\ mainQueue' = Tail(mainQueue)
  /\ LET request == Head(mainQueue).request IN
       IF request.stale
       THEN /\ store' = [store EXCEPT !.asked = @ \cup {[request EXCEPT !.stale = FALSE]}]
            /\ UNCHANGED workerQueue
       ELSE /\ workerQueue' = Append(workerQueue, ResumeStartOp(request.closeCount,
                                                               Head(mainQueue).token))
            /\ UNCHANGED store
  /\ UNCHANGED <<authUser, client, network, outcomes, carried, refused, counts>>

--------------------------------------------------------------------------------
(* SyncEngine on the worker queue *)

RunWriteMutations ==
  /\ workerQueue # <<>>
  /\ Head(workerQueue).op = "write"
  /\ workerQueue' = Tail(workerQueue)
  /\ LET batch == [id |-> nextBatchId, write |-> Head(workerQueue).write] IN
       /\ mutationQueue' = [mutationQueue EXCEPT ![syncUser] = Append(@, batch)]
       /\ callbacks' = callbacks \cup {[user |-> syncUser, id |-> batch.id, write |-> batch.write]}
       /\ nextBatchId' = nextBatchId + 1
       /\ store' = FillWritePipeline(store, mutationQueue'[syncUser])
  /\ UNCHANGED <<authUser, mainQueue, syncUser, network, outcomes, carried, refused, counts>>

(* LoadNextBatchIdFromDb: one more than the highest batch of any user. *)
NextBatchId ==
  Max({0} \cup UNION {{b.id : b \in ToSet(mutationQueue[u])} : u \in Owners}) + 1

StreamOutlivesCredential ==
  /\ workerQueue # <<>>
  /\ Head(workerQueue).op = "credentialChange"
  /\ workerQueue' = Tail(workerQueue)
  /\ syncUser' = Head(workerQueue).user
  /\ nextBatchId' = IF syncUser' = syncUser THEN nextBatchId ELSE NextBatchId
  /\ store' = FillWritePipeline([store EXCEPT !.pipeline = <<>>], mutationQueue[syncUser'])
  /\ UNCHANGED <<authUser, mainQueue, mutationQueue, callbacks, network, outcomes, carried,
                 refused, counts>>

(* The queues are swapped and the streams restarted for a new token. *)
HandleCredentialChange ==
  /\ workerQueue # <<>>
  /\ Head(workerQueue).op = "credentialChange"
  /\ workerQueue' = Tail(workerQueue)
  /\ syncUser' = Head(workerQueue).user
  /\ nextBatchId' = IF syncUser' = syncUser THEN nextBatchId ELSE NextBatchId
  /\ store' = RestartNetwork(store, mutationQueue[syncUser'])
  /\ EndStreamIf(IsStarted(store))
  /\ UNCHANGED <<authUser, mainQueue, mutationQueue, callbacks, outcomes, carried,
                 refused, counts>>

CallbackStays(batch, success) ==
  LET kept == {c \in callbacks : c.user = syncUser /\ c.id = batch.id} IN
    /\ outcomes' = outcomes \cup
         {[told |-> c.write, of |-> batch.write, success |-> success] : c \in kept}
    /\ UNCHANGED callbacks

(* NotifyUser: the callback kept for the batch, if there is one. *)
NotifyUser(batch, success) ==
  LET kept == {c \in callbacks : c.user = syncUser /\ c.id = batch.id} IN
    /\ callbacks' = callbacks \ kept
    /\ outcomes' = outcomes \cup
         {[told |-> c.write, of |-> batch.write, success |-> success] : c \in kept}

RemoveLastBatch(batch) ==
  mutationQueue' = [mutationQueue EXCEPT ![syncUser] = Front(@)]

RemoveBatch(batch) ==
  LET position == CHOOSE i \in DOMAIN mutationQueue[syncUser] :
                    mutationQueue[syncUser][i].id = batch.id
  IN mutationQueue' = [mutationQueue EXCEPT ![syncUser] = RemoveAt(@, position)]

--------------------------------------------------------------------------------
(* The write stream *)

(* Credentials for a stream that was closed in the meantime are dropped;   *)
(* the others open it, and the handshake is sent.                          *)
ResumeStartWithCredentials ==
  /\ workerQueue # <<>>
  /\ Head(workerQueue).op = "resumeStart"
  /\ workerQueue' = Tail(workerQueue)
  /\ IF Head(workerQueue).closeCount # store.closeCount THEN UNCHANGED store
     ELSE store' = [store EXCEPT !.stream = "Open", !.token = Head(workerQueue).token,
                                 !.up = <<Handshake>>]
  /\ UNCHANGED <<authUser, mainQueue, client, network, outcomes, carried, refused, counts>>

(* Auth has no token to give: the stream fails before it is opened. *)
ResumeStartFails ==
  /\ mishaps < MaxMishaps
  /\ mishaps' = mishaps + 1
  /\ workerQueue # <<>>
  /\ Head(workerQueue).op = "resumeStart"
  /\ Head(workerQueue).closeCount = store.closeCount
  /\ workerQueue' = Tail(workerQueue)
  /\ store' = StartIfNeeded(Close(store, "Error"))
  /\ UNCHANGED <<authUser, mainQueue, client, network, outcomes, carried, refused,
                 made, authChanges>>

BackoffJustEnds ==
  /\ store.stream = "Backoff"
  /\ store' = [store EXCEPT !.stream = "Initial"]
  /\ UNCHANGED <<authUser, mainQueue, workerQueue, client, network, outcomes, carried,
                 refused, counts>>

BackoffElapses ==
  /\ store.stream = "Backoff"
  /\ store' = Start([store EXCEPT !.stream = "Initial"])
  /\ UNCHANGED <<authUser, mainQueue, workerQueue, client, network, outcomes, carried,
                 refused, counts>>

IdleTimeout ==
  /\ store.idle
  /\ store' = ForgetHandshake(Close(store, "Initial"))
  /\ StreamEnds
  /\ UNCHANGED <<authUser, mainQueue, workerQueue, client, stored, outcomes, carried,
                 refused, counts>>

HandshakeSendsNothing ==
  /\ down # <<>>
  /\ Head(down) = Handshake
  /\ down' = Tail(down)
  /\ store' = [store EXCEPT !.handshakeComplete = TRUE]
  /\ UNCHANGED <<authUser, mainQueue, workerQueue, client, wire, refusing, leftovers,
                 stored, outcomes, carried, refused, counts>>

(* OnWriteStreamHandshakeComplete: all that is pending is sent. *)
OnHandshakeResponse ==
  /\ down # <<>>
  /\ Head(down) = Handshake
  /\ down' = Tail(down)
  /\ store' = [store EXCEPT !.handshakeComplete = TRUE,
                            !.idle = @ /\ store.pipeline = <<>>,
                            !.up = @ \o WritesOf(store.pipeline)]
  /\ UNCHANGED <<authUser, mainQueue, workerQueue, client, wire, refusing, leftovers,
                 stored, outcomes, carried, refused, counts>>

ResultIsOfTheNewest ==
  /\ down # <<>>
  /\ Head(down) # Handshake
  /\ down' = Tail(down)
  /\ LET batch == Last(store.pipeline) IN
       /\ NotifyUser(batch, TRUE)
       /\ RemoveBatch(batch)
       /\ store' = FillWritePipeline([store EXCEPT !.pipeline = Front(@)],
                                     mutationQueue'[syncUser])
  /\ UNCHANGED <<authUser, mainQueue, workerQueue, syncUser, nextBatchId, wire, refusing,
                 leftovers, stored, carried, refused, counts>>

(* OnWriteStreamMutationResult: a result belongs to the first of the       *)
(* pipeline, which is acknowledged.                                        *)
OnMutationResult ==
  /\ down # <<>>
  /\ Head(down) # Handshake
  /\ down' = Tail(down)
  /\ LET batch == Head(store.pipeline) IN
       /\ NotifyUser(batch, TRUE)
       /\ RemoveBatch(batch)
       /\ store' = FillWritePipeline([store EXCEPT !.pipeline = Tail(@)],
                                     mutationQueue'[syncUser])
  /\ UNCHANGED <<authUser, mainQueue, workerQueue, syncUser, nextBatchId, wire, refusing,
                 leftovers, stored, carried, refused, counts>>

(* OnWriteStreamClose after a transient error, or one before the handshake *)
(* (a stream token too old): the pipeline stays and is sent again after    *)
(* the backoff.                                                            *)
StreamFails ==
  /\ mishaps < MaxMishaps
  /\ mishaps' = mishaps + 1
  /\ IsOpen(store)
  /\ store' = LET s == StartIfNeeded(Close(store, "Error")) IN ForgetHandshake(s)
  /\ StreamEnds
  /\ UNCHANGED <<authUser, mainQueue, workerQueue, client, stored, outcomes, carried,
                 refused, made, authChanges>>

(* HandleWriteError: a permanent error is taken to be that of the first of *)
(* the pipeline, which is rejected.  When the failure of a write is        *)
(* noticed first, results that were not read yet are dropped unread        *)
(* (FastFinishCompletionsBlocking).                                        *)
HandleWriteError ==
  /\ refusing
  /\ down = <<>> \/ store.up # <<>>
  /\ store.handshakeComplete
  /\ LET batch  == Head(store.pipeline)
         reset  == [Close(store, "Error") EXCEPT !.pipeline = Tail(@), !.stream = "Initial"]
     IN
       /\ NotifyUser(batch, FALSE)
       /\ RemoveBatch(batch)
       /\ store' = ForgetHandshake(StartIfNeeded(
                     FillWritePipeline(reset, mutationQueue'[syncUser])))
       /\ refused' = refused \cup {batch.write}
       /\ StreamEnds
       /\ carried' = IF \E l \in leftovers' : batch.write \in ToSet(l)
                     THEN carried ELSE carried \ {batch.write}
  /\ UNCHANGED <<authUser, mainQueue, workerQueue, syncUser, nextBatchId, stored, counts>>

(* The connectivity monitor: the network is back, or another one. *)
ConnectivityChanges ==
  /\ mishaps < MaxMishaps
  /\ mishaps' = mishaps + 1
  /\ store' = RestartNetwork(store, mutationQueue[syncUser])
  /\ EndStreamIf(IsStarted(store))
  /\ UNCHANGED <<authUser, mainQueue, workerQueue, client, outcomes, carried, refused,
                 made, authChanges>>

--------------------------------------------------------------------------------
(* The network and the backend *)

Carry ==
  /\ store.up # <<>>
  /\ IsOpen(store)
  /\ wire' = Append(wire, Head(store.up))
  /\ store' = [store EXCEPT !.up = Tail(@)]
  /\ carried' = carried \cup ({Head(store.up)} \ {Handshake})
  /\ UNCHANGED <<authUser, mainQueue, workerQueue, client, down, refusing, leftovers,
                 stored, outcomes, refused, counts>>

Apply(write) ==
  /\ stored' = stored \cup {write}
  /\ carried' = carried \ {write}

(* The backend takes the requests of a stream in order; a write that the   *)
(* rules refuse ends it.                                                   *)
BackendAnswers ==
  /\ wire # <<>>
  /\ ~refusing
  /\ wire' = Tail(wire)
  /\ \/ /\ Head(wire) = Handshake
        /\ down' = Append(down, Handshake)
        /\ UNCHANGED <<refusing, stored, carried>>
     \/ /\ Head(wire) # Handshake
        /\ down' = Append(down, Head(wire))
        /\ Apply(Head(wire))
        /\ UNCHANGED refusing
     \/ /\ Head(wire) # Handshake
        /\ refusing' = TRUE
        /\ UNCHANGED <<down, stored, carried>>
  /\ UNCHANGED <<authUser, mainQueue, workerQueue, client, store, leftovers, outcomes,
                 refused, counts>>

(* What a closed stream had carried is applied in order, or refused. *)
BackendAppliesLeftover(l) ==
  /\ l \in leftovers
  /\ \/ /\ Apply(Head(l))
        /\ leftovers' = (leftovers \ {l}) \cup ({Tail(l)} \ {<<>>})
     \/ /\ leftovers' = leftovers \ {l}
        /\ UNCHANGED <<stored, carried>>
  /\ UNCHANGED <<authUser, mainQueue, workerQueue, client, store, wire, down, refusing,
                 outcomes, refused, counts>>

(* The process ends and the client is initialized again for the user Auth  *)
(* then has.  Callbacks, and writes still on the worker queue, are gone.   *)
Restart ==
  /\ mishaps < MaxMishaps
  /\ mishaps' = mishaps + 1
  /\ mainQueue' = <<>>
  /\ workerQueue' = <<>>
  /\ syncUser' = authUser
  /\ nextBatchId' = NextBatchId
  /\ callbacks' = {}
  /\ store' = FillWritePipeline(Closed, mutationQueue[authUser])
  /\ StreamEnds
  /\ UNCHANGED <<authUser, mutationQueue, stored, outcomes, carried, refused, made,
                 authChanges>>

Next ==
  \/ WriteMutations \/ RunWriteMutations
  \/ \E u \in Owners : ChangeAuthUser(u)
  \/ \E request \in store.asked : AuthGetsToken(request)
  \/ RunAuthStateDidChange \/ RunGetTokenCallback
  \/ HandleCredentialChange \/ ResumeStartWithCredentials \/ ResumeStartFails
  \/ BackoffElapses \/ IdleTimeout
  \/ OnHandshakeResponse \/ OnMutationResult
  \/ StreamFails \/ HandleWriteError \/ ConnectivityChanges
  \/ Carry \/ BackendAnswers
  \/ \E l \in leftovers : BackendAppliesLeftover(l)
  \/ Restart

Spec == Init /\ [][Next]_vars

(* The queues are served, timers fire, Auth answers, and an open stream is *)
(* carried and answered.  Nothing is assumed of the app, of the signed-in  *)
(* user, or of whether an answer is good; mishaps end, as MaxMishaps       *)
(* bounds them.                                                            *)
Fairness ==
  /\ WF_vars(RunAuthStateDidChange \/ RunGetTokenCallback)
  /\ WF_vars(\E request \in store.asked : AuthGetsToken(request))
  /\ WF_vars(RunWriteMutations \/ HandleCredentialChange \/ ResumeStartWithCredentials)
  /\ WF_vars(BackoffElapses)
  /\ WF_vars(OnHandshakeResponse \/ OnMutationResult)
  /\ WF_vars(HandleWriteError)
  /\ WF_vars(Carry)
  /\ WF_vars(BackendAnswers)

LiveSpec == Spec /\ Fairness

--------------------------------------------------------------------------------

(* FillWritePipeline skips nothing, and neither a change of user nor an    *)
(* answer leaves a batch of the past in the pipeline.                      *)
PipelineIsPrefix ==
  /\ Len(store.pipeline) <= MaxPendingWrites
  /\ IsPrefix(store.pipeline, mutationQueue[syncUser])
  /\ mutationQueue[syncUser] # <<>> => store.pipeline # <<>>

(* The pipeline is the beginning of the current user's queue, as far as it *)
(* has been taken up, and the stream carries it.  A result carries no      *)
(* name: OnWriteStreamMutationResult takes it to answer the first batch of *)
(* the pipeline.  It does: once the handshake is over, what is unread, on  *)
(* the network and unsent, taken in this order, is the pipeline.           *)
StreamMirrorsQueue ==
  /\ PipelineIsPrefix
  /\ Sendable(store) /\ ~refusing
       => down \o wire \o store.up = WritesOf(store.pipeline)

ResumesOfThisStart ==
  {op \in ToSet(workerQueue) : op.op = "resumeStart" /\ op.closeCount = store.closeCount}

(* No state is reached that the code asserts away.  "Write stream was      *)
(* stopped gracefully while still needed": the idle timer never runs over  *)
(* a pending write.  "State should still be 'Starting'": a token asked for *)
(* before the stream was closed opens no stream, as the close count tells  *)
(* it apart.                                                               *)
StatesAreLegal ==
  /\ TypeOK
  /\ store.idle => IsOpen(store) /\ store.pipeline = <<>>
  /\ ResumesOfThisStart # {} => store.stream = "Starting"
  /\ Cardinality(ResumesOfThisStart) <= 1

(* Writes of one user are sent with another's token only for as long as a  *)
(* change of credential is on its way, which then restarts the stream.     *)
WrongTokenIsTransient ==
  IsOpen(store) /\ store.token # syncUser
    => \/ \E b \in ToSet(mainQueue) : b.block = "authStateDidChange"
       \/ \E op \in ToSet(workerQueue) : op.op = "credentialChange"

(* Every callback waits for a batch that is still queued, so that no       *)
(* completion handler of the app is forgotten; and no two callbacks wait   *)
(* for the same batch.                                                     *)
CallbacksHaveBatches ==
  /\ \A c \in callbacks : [id |-> c.id, write |-> c.write] \in ToSet(mutationQueue[c.user])
  /\ \A c1, c2 \in callbacks : c1.user = c2.user /\ c1.id = c2.id => c1 = c2

(* What the app is told of a write, it is told of that write, once, and    *)
(* "success" only when the backend has it: NotifyUser finds the callback   *)
(* by user and batch id, and batch ids are used again once a queue is      *)
(* empty.                                                                  *)
OutcomesAreTrue ==
  /\ CallbacksHaveBatches
  /\ \A o \in outcomes : o.told = o.of /\ (o.success => o.of \in stored)
  /\ \A o1, o2 \in outcomes : o1.told = o2.told => o1 = o2

(* The client as the rest of the project knows it: writes of a user join   *)
(* that user's queue, are applied in the order of the queue, and leave it  *)
(* from the front with an answer, whatever becomes of the streams between. *)
Document(write) == [collection |-> "orders", document |-> write]

Client == INSTANCE FirestoreClient
            WITH firestoreUser <- syncUser,
                 mutationQueue <- [u \in Owners |-> [i \in DOMAIN mutationQueue[u] |->
                                                     Document(mutationQueue[u][i].write)]],
                 inFlight      <- {Document(w) : w \in carried},
                 usersStored   <- {},
                 ordersStored  <- stored,
                 refused       <- {Document(w) : w \in refused}

ImplementsClient ==
  /\ Client!FirestoreInit
  /\ [][Client!ClientNext({Document(w) : w \in Writes})]_(Client!firestoreVars)

(* A write of a user who stays signed in is answered in the end, whatever  *)
(* broke, changed or restarted before.                                     *)
QueueDrains ==
  \A u \in Owners :
    <>[](authUser = u) => (mutationQueue[u] # <<>> ~> mutationQueue[u] = <<>>)

================================================================================
