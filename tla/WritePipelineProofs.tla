-------------------------- MODULE WritePipelineProofs --------------------------
(***************************************************************************)
(* The token of the write stream, for any users and any number of writes,  *)
(* changes of the signed-in user, broken streams and restarts.             *)
(*                                                                         *)
(* A change of the signed-in user travels as a block of the main queue,    *)
(* then as an operation of the worker queue.  Everything that holds a user *)
(* on the way, a notification, a token, the open stream, SyncEngine,       *)
(* either has Auth's current user or has a change behind it.               *)
(***************************************************************************)
EXTENDS WritePipeline, TLAPS, SequenceTheorems, FiniteSetTheorems

IsNotice(block) == block.block = "authStateDidChange"
IsChange(operation) == operation.op = "credentialChange"

(* A change of user is at position "from" of the queue or behind it. *)
NoticeFrom(main, from)   == \E j \in DOMAIN main : from <= j /\ IsNotice(main[j])
ChangeFrom(worker, from) == \E j \in DOMAIN worker : from <= j /\ IsChange(worker[j])

(* What is seen on the main queue, or on the worker queue, at the position *)
(* before "from" is of Auth's user, or a change comes after it.            *)
FreshOnMain(u, auth, main, from) == u = auth \/ NoticeFrom(main, from)
Fresh(u, auth, main, worker, from) ==
  u = auth \/ NoticeFrom(main, 1) \/ ChangeFrom(worker, from)

MainIsFresh(auth, main) ==
  \A i \in DOMAIN main :
    /\ IsNotice(main[i]) => FreshOnMain(main[i].user, auth, main, i + 1)
    /\ main[i].block = "getToken" /\ ~main[i].request.stale
         => FreshOnMain(main[i].token, auth, main, i + 1)

WorkerIsFresh(auth, main, worker) ==
  \A i \in DOMAIN worker :
    /\ IsChange(worker[i]) => Fresh(worker[i].user, auth, main, worker, i + 1)
    /\ worker[i].op = "resumeStart" => Fresh(worker[i].token, auth, main, worker, i + 1)

(* Of the store, only what the stream is opened with. *)
StoreOk(s) ==
  s \in [pipeline : {s.pipeline}, stream : StreamStates,
         handshakeComplete : {s.handshakeComplete}, idle : {s.idle}, up : {s.up},
         token : Owners, closeCount : Nat, asked : SUBSET TokenRequest]

QueuesOk(auth, main, worker, sync) ==
  /\ auth \in Owners
  /\ main \in Seq(Block)
  /\ worker \in Seq(Operation)
  /\ sync \in Owners

IInv ==
  /\ QueuesOk(authUser, mainQueue, workerQueue, syncUser)
  /\ StoreOk(store)
  /\ made \in Nat
  /\ MainIsFresh(authUser, mainQueue)
  /\ WorkerIsFresh(authUser, mainQueue, workerQueue)
  /\ Fresh(syncUser, authUser, mainQueue, workerQueue, 1)
  /\ IsOpen(store) => Fresh(store.token, authUser, mainQueue, workerQueue, 1)

--------------------------------------------------------------------------------
(* The methods of the store open no stream and lend it no other token. *)

KeepsToken(s, t) ==
  /\ StoreOk(t)
  /\ t.token = s.token
  /\ IsOpen(t) => IsOpen(s)

LEMMA OtherFieldsKeepToken ==
  ASSUME NEW s, StoreOk(s), NEW p, NEW u, NEW i, NEW h
  PROVE  /\ KeepsToken(s, [s EXCEPT !.pipeline = p])
         /\ KeepsToken(s, [s EXCEPT !.up = u])
         /\ KeepsToken(s, [s EXCEPT !.handshakeComplete = h])
         /\ KeepsToken(s, [s EXCEPT !.pipeline = p, !.up = u, !.idle = i])
         /\ KeepsToken(s, [s EXCEPT !.handshakeComplete = h, !.idle = i, !.up = u])
BY DEF KeepsToken, StoreOk, IsOpen

LEMMA CloseClosesStream ==
  ASSUME NEW s, StoreOk(s), NEW state \in StreamStates \ {"Open"}
  PROVE  KeepsToken(s, Close(s, state)) /\ ~IsOpen(Close(s, state))
<1>1. ASSUME NEW count \in Nat
      PROVE  StoreOk([s EXCEPT !.stream = state, !.closeCount = count])
  BY DEF StoreOk
<1> DEFINE count == s.closeCount + 1
           stopped == [s EXCEPT !.stream = state, !.closeCount = count]
<1>2. count \in Nat
  BY DEF StoreOk
<1> HIDE DEF count
<1>3. StoreOk(stopped) /\ stopped.token = s.token /\ stopped.stream = state
  BY <1>1, <1>2 DEF StoreOk
<1>4. Close(s, state) = [stopped EXCEPT !.idle = FALSE, !.up = <<>>]
  BY DEF StoreOk, Close, count
<1> HIDE DEF stopped
<1>5. QED
  BY <1>3, <1>4 DEF KeepsToken, StoreOk, IsOpen

LEMMA ForgettingKeepsToken ==
  ASSUME NEW s, StoreOk(s)
  PROVE  /\ KeepsToken(s, ForgetHandshake(s))
         /\ IsOpen(ForgetHandshake(s)) <=> IsOpen(s)
BY DEF KeepsToken, StoreOk, IsOpen, ForgetHandshake

LEMMA StartOpensNothing ==
  ASSUME NEW s, StoreOk(s)
  PROVE  KeepsToken(s, Start(s)) /\ ~IsOpen(Start(s))
         /\ KeepsToken(s, StartIfNeeded(s))
<1>1. [closeCount |-> s.closeCount, stale |-> FALSE] \in TokenRequest
  BY DEF StoreOk, TokenRequest
<1>2. KeepsToken(s, Start(s)) /\ ~IsOpen(Start(s))
  BY <1>1 DEF KeepsToken, StoreOk, IsOpen, Start, StreamStates
<1>3. KeepsToken(s, s)
  BY DEF KeepsToken
<1>4. QED
  BY <1>2, <1>3 DEF StartIfNeeded

LEMMA FillKeepsToken ==
  ASSUME NEW s, StoreOk(s), NEW queue
  PROVE  KeepsToken(s, FillWritePipeline(s, queue))
<1> DEFINE after == BatchesAfter(queue, LastBatchId(s))
           room  == MaxPendingWrites - Len(s.pipeline)
           added == SubSeq(after, 1, IF Len(after) < room THEN Len(after) ELSE room)
           p     == s.pipeline \o added
           u     == IF Sendable(s) THEN s.up \o WritesOf(added) ELSE s.up
           i     == IF added # <<>> THEN s.idle /\ ~Sendable(s)
                    ELSE s.idle \/ (IsOpen(s) /\ s.pipeline = <<>>)
           full  == [s EXCEPT !.pipeline = p, !.up = u, !.idle = i]
<1>1. FillWritePipeline(s, queue) = StartIfNeeded(full)
  BY DEF FillWritePipeline
<1>2. KeepsToken(s, full)
  <2> HIDE DEF p, u, i
  <2> QED
    BY OtherFieldsKeepToken
<1> HIDE DEF full
<1>3. KeepsToken(full, StartIfNeeded(full))
  BY <1>2, StartOpensNothing DEF KeepsToken
<1>4. QED
  BY <1>1, <1>2, <1>3 DEF KeepsToken

--------------------------------------------------------------------------------
(* What becomes of the queues. *)

LEMMA TailAndAppend ==
  ASSUME NEW S, NEW queue \in Seq(S)
  PROVE  /\ Len(queue) \in Nat /\ DOMAIN queue = 1..Len(queue)
         /\ queue # <<>> =>
              /\ Tail(queue) \in Seq(S) /\ Head(queue) \in S
              /\ 1 \in DOMAIN queue /\ Head(queue) = queue[1]
              /\ DOMAIN Tail(queue) = 1..(Len(queue) - 1)
              /\ \A i \in DOMAIN Tail(queue) :
                   i + 1 \in DOMAIN queue /\ Tail(queue)[i] = queue[i + 1]
         /\ \A e \in S :
              /\ Append(queue, e) \in Seq(S)
              /\ DOMAIN Append(queue, e) = 1..(Len(queue) + 1)
              /\ Append(queue, e)[Len(queue) + 1] = e
              /\ \A i \in DOMAIN queue : Append(queue, e)[i] = queue[i]
OBVIOUS

LEMMA NoticeMovesUp ==
  ASSUME NEW main \in Seq(Block), main # <<>>, NEW i \in Nat \ {0}
  PROVE  NoticeFrom(Tail(main), i) <=> NoticeFrom(main, i + 1)
<1>1. ASSUME NoticeFrom(Tail(main), i)  PROVE  NoticeFrom(main, i + 1)
  BY <1>1, TailAndAppend DEF NoticeFrom
<1>2. ASSUME NoticeFrom(main, i + 1)  PROVE  NoticeFrom(Tail(main), i)
  <2>1. PICK j \in DOMAIN main : i + 1 <= j /\ IsNotice(main[j])
    BY <1>2 DEF NoticeFrom
  <2>2. j - 1 \in DOMAIN Tail(main) /\ Tail(main)[j - 1] = main[j] /\ i <= j - 1
    BY <2>1, TailAndAppend
  <2>3. QED
    BY <2>1, <2>2 DEF NoticeFrom
<1>3. QED
  BY <1>1, <1>2

LEMMA ChangeMovesUp ==
  ASSUME NEW worker \in Seq(Operation), worker # <<>>, NEW i \in Nat \ {0}
  PROVE  ChangeFrom(Tail(worker), i) <=> ChangeFrom(worker, i + 1)
<1>1. ASSUME ChangeFrom(Tail(worker), i)  PROVE  ChangeFrom(worker, i + 1)
  BY <1>1, TailAndAppend DEF ChangeFrom
<1>2. ASSUME ChangeFrom(worker, i + 1)  PROVE  ChangeFrom(Tail(worker), i)
  <2>1. PICK j \in DOMAIN worker : i + 1 <= j /\ IsChange(worker[j])
    BY <1>2 DEF ChangeFrom
  <2>2. j - 1 \in DOMAIN Tail(worker) /\ Tail(worker)[j - 1] = worker[j] /\ i <= j - 1
    BY <2>1, TailAndAppend
  <2>3. QED
    BY <2>1, <2>2 DEF ChangeFrom
<1>3. QED
  BY <1>1, <1>2

LEMMA MainLosesHead ==
  ASSUME NEW auth, NEW main \in Seq(Block), main # <<>>, MainIsFresh(auth, main)
  PROVE  /\ MainIsFresh(auth, Tail(main))
         /\ ~IsNotice(Head(main)) /\ NoticeFrom(main, 1) => NoticeFrom(Tail(main), 1)
         /\ \A u : FreshOnMain(u, auth, main, 2) => u = auth \/ NoticeFrom(Tail(main), 1)
<1>1. ASSUME NEW i \in DOMAIN Tail(main), NEW u, FreshOnMain(u, auth, main, i + 1 + 1)
      PROVE  FreshOnMain(u, auth, Tail(main), i + 1)
  <2>1. i + 1 \in Nat \ {0}
    BY TailAndAppend
  <2>2. QED
    BY <2>1, <1>1, NoticeMovesUp DEF FreshOnMain
<1>2. MainIsFresh(auth, Tail(main))
  BY <1>1, TailAndAppend DEF MainIsFresh
<1>3. ASSUME ~IsNotice(Head(main)), NoticeFrom(main, 1)  PROVE  NoticeFrom(main, 2)
  BY <1>3, TailAndAppend DEF NoticeFrom
<1>4. QED
  BY <1>2, <1>3, NoticeMovesUp DEF FreshOnMain

LEMMA MainGrows ==
  ASSUME NEW auth, NEW main \in Seq(Block), NEW block \in Block
  PROVE  /\ NoticeFrom(main, 1) => NoticeFrom(Append(main, block), 1)
         /\ IsNotice(block) => \A i \in 1..(Len(main) + 1) : NoticeFrom(Append(main, block), i)
         /\ /\ MainIsFresh(auth, main) \/ IsNotice(block)
            /\ IsNotice(block) => block.user = auth
            /\ block.block = "getToken" => block.token = auth
            => MainIsFresh(auth, Append(main, block))
<1> DEFINE longer == Append(main, block)
<1>1. ASSUME NEW i \in Nat, NoticeFrom(main, i)  PROVE  NoticeFrom(longer, i)
  BY <1>1, TailAndAppend DEF NoticeFrom
<1>2. ASSUME IsNotice(block), NEW i \in 1..(Len(main) + 1)  PROVE  NoticeFrom(longer, i)
  BY <1>2, TailAndAppend DEF NoticeFrom
<1>3. ASSUME MainIsFresh(auth, main) \/ IsNotice(block),
             IsNotice(block) => block.user = auth,
             block.block = "getToken" => block.token = auth
      PROVE  MainIsFresh(auth, longer)
  <2> SUFFICES ASSUME NEW i \in DOMAIN longer
               PROVE  /\ IsNotice(longer[i]) => FreshOnMain(longer[i].user, auth, longer, i + 1)
                      /\ longer[i].block = "getToken" /\ ~longer[i].request.stale
                           => FreshOnMain(longer[i].token, auth, longer, i + 1)
    BY DEF MainIsFresh
  <2>1. CASE i = Len(main) + 1
    BY <1>3, <2>1, TailAndAppend DEF FreshOnMain
  <2>2. CASE i \in DOMAIN main /\ IsNotice(block)
    <3>1. i + 1 \in 1..(Len(main) + 1)
      BY <2>2, TailAndAppend
    <3>2. QED
      BY <2>2, <3>1, <1>2 DEF FreshOnMain
  <2>3. CASE i \in DOMAIN main /\ MainIsFresh(auth, main)
    <3>1. longer[i] = main[i] /\ i + 1 \in Nat
      BY <2>3, TailAndAppend
    <3>2. QED
      BY <2>3, <3>1, <1>1 DEF MainIsFresh, FreshOnMain
  <2>4. QED
    BY <1>3, <2>1, <2>2, <2>3, TailAndAppend
<1>4. QED
  BY <1>1, <1>2, <1>3

(* The queue after the token counter has moved. *)
TokensStale(queue) ==
  [i \in DOMAIN queue |->
     LET b == queue[i] IN IF b.block = "getToken" THEN [b EXCEPT !.request = Stale(@)] ELSE b]

LEMMA StaleTokens ==
  ASSUME NEW auth, NEW main \in Seq(Block)
  PROVE  /\ TokensStale(main) \in Seq(Block)
         /\ NoticeFrom(main, 1) => NoticeFrom(TokensStale(main), 1)
         /\ MainIsFresh(auth, main) => MainIsFresh(auth, TokensStale(main))
<1> DEFINE marked == TokensStale(main)
<1>1. ASSUME NEW i \in DOMAIN main
      PROVE  /\ marked[i] \in Block
             /\ IsNotice(marked[i]) <=> IsNotice(main[i])
             /\ IsNotice(main[i]) => marked[i].user = main[i].user
             /\ marked[i].block = "getToken" => marked[i].request.stale
  <2>1. main[i] \in Block
    BY TailAndAppend
  <2>2. CASE main[i].block = "getToken"
    <3>1. marked[i] = [main[i] EXCEPT !.request = Stale(main[i].request)]
      BY <2>2, Zenon DEF TokensStale
    <3>2. main[i] \in [block : {"getToken"}, request : TokenRequest, token : Owners]
      BY <2>1, <2>2 DEF Block
    <3>3. /\ Stale(main[i].request) \in TokenRequest
          /\ Stale(main[i].request).stale = TRUE
      BY <3>2 DEF Stale, TokenRequest
    <3>4. /\ marked[i] \in [block : {"getToken"}, request : TokenRequest, token : Owners]
          /\ marked[i].request = Stale(main[i].request)
      BY <3>1, <3>2, <3>3
    <3>5. QED
      BY <2>2, <3>2, <3>3, <3>4 DEF IsNotice, Block
  <2>3. CASE main[i].block # "getToken"
    <3>1. marked[i] = main[i]
      BY <2>3 DEF TokensStale
    <3>2. QED
      BY <2>1, <2>3, <3>1
  <2>4. QED
    BY <2>2, <2>3
<1>2. DOMAIN marked = DOMAIN main
  BY DEF TokensStale
<1>3. marked \in Seq(Block)
  <2>1. marked = [i \in 1..Len(main) |-> marked[i]]
    BY TailAndAppend DEF TokensStale
  <2> HIDE DEF marked
  <2>2. marked \in [1..Len(main) -> Block]
    BY <1>1, <1>2, <2>1, TailAndAppend
  <2>3. QED
    BY <2>2, TailAndAppend
<1> HIDE DEF marked
<1>4. \A i : NoticeFrom(main, i) => NoticeFrom(marked, i)
  BY <1>1, <1>2 DEF NoticeFrom
<1>5. ASSUME MainIsFresh(auth, main)  PROVE  MainIsFresh(auth, marked)
  BY <1>1, <1>2, <1>4, <1>5 DEF MainIsFresh, FreshOnMain
<1>6. QED
  BY <1>3, <1>4, <1>5 DEF marked

LEMMA WorkerLosesHead ==
  ASSUME NEW auth, NEW main, NEW worker \in Seq(Operation), worker # <<>>,
         WorkerIsFresh(auth, main, worker)
  PROVE  /\ WorkerIsFresh(auth, main, Tail(worker))
         /\ \A u : /\ Fresh(u, auth, main, worker, 2) => Fresh(u, auth, main, Tail(worker), 1)
                   /\ ~IsChange(Head(worker)) /\ Fresh(u, auth, main, worker, 1)
                        => Fresh(u, auth, main, Tail(worker), 1)
<1>1. ASSUME NEW i \in DOMAIN Tail(worker), NEW u, Fresh(u, auth, main, worker, i + 1 + 1)
      PROVE  Fresh(u, auth, main, Tail(worker), i + 1)
  <2>1. i + 1 \in Nat \ {0}
    BY TailAndAppend
  <2>2. QED
    BY <2>1, <1>1, ChangeMovesUp DEF Fresh
<1>2. WorkerIsFresh(auth, main, Tail(worker))
  BY <1>1, TailAndAppend DEF WorkerIsFresh
<1>3. ASSUME ~IsChange(Head(worker)), ChangeFrom(worker, 1)  PROVE  ChangeFrom(worker, 2)
  BY <1>3, TailAndAppend DEF ChangeFrom
<1>4. QED
  BY <1>2, <1>3, ChangeMovesUp DEF Fresh

(* What the main queue loses, the worker queue may get. *)
LEMMA WorkerGrows ==
  ASSUME NEW auth, NEW main, NEW main2, NEW worker \in Seq(Operation), NEW op \in Operation,
         WorkerIsFresh(auth, main, worker),
         NoticeFrom(main, 1) => NoticeFrom(main2, 1) \/ IsChange(op),
         IsChange(op) => op.user = auth \/ NoticeFrom(main2, 1),
         op.op = "resumeStart" => op.token = auth \/ NoticeFrom(main2, 1)
  PROVE  /\ WorkerIsFresh(auth, main2, Append(worker, op))
         /\ \A u : Fresh(u, auth, main, worker, 1)
                     => Fresh(u, auth, main2, Append(worker, op), 1)
<1> DEFINE longer == Append(worker, op)
<1>1. ASSUME NEW i \in 1..(Len(worker) + 1), NEW u, Fresh(u, auth, main, worker, i)
      PROVE  Fresh(u, auth, main2, longer, i)
  <2>1. ChangeFrom(worker, i) => ChangeFrom(longer, i)
    BY TailAndAppend DEF ChangeFrom
  <2>2. IsChange(op) => ChangeFrom(longer, i)
    BY TailAndAppend DEF ChangeFrom
  <2>3. QED
    BY <1>1, <2>1, <2>2 DEF Fresh
<1>2. ASSUME NEW i \in DOMAIN longer
      PROVE  /\ IsChange(longer[i]) => Fresh(longer[i].user, auth, main2, longer, i + 1)
             /\ longer[i].op = "resumeStart" => Fresh(longer[i].token, auth, main2, longer, i + 1)
  <2>1. CASE i = Len(worker) + 1
    BY <2>1, TailAndAppend DEF Fresh
  <2>2. CASE i \in DOMAIN worker
    <3>1. longer[i] = worker[i] /\ i + 1 \in 1..(Len(worker) + 1)
      BY <2>2, TailAndAppend
    <3>2. QED
      BY <2>2, <3>1, <1>1 DEF WorkerIsFresh
  <2>3. QED
    BY <2>1, <2>2, TailAndAppend
<1>3. QED
  BY <1>1, <1>2, TailAndAppend DEF WorkerIsFresh

--------------------------------------------------------------------------------
(* The actions. *)

LEMMA BlocksAndOperations ==
  /\ \A u \in Owners :
       /\ AuthStateDidChange(u) \in Block /\ CredentialChangeOp(u) \in Operation
       /\ AuthStateDidChange(u).user = u /\ CredentialChangeOp(u).user = u
       /\ IsNotice(AuthStateDidChange(u)) /\ IsChange(CredentialChangeOp(u))
       /\ AuthStateDidChange(u).block # "getToken" /\ CredentialChangeOp(u).op # "resumeStart"
  /\ \A q \in TokenRequest, u \in Owners :
       /\ GetTokenCallback(q, u) \in Block
       /\ ~IsNotice(GetTokenCallback(q, u))
       /\ GetTokenCallback(q, u).token = u
  /\ \A count \in Nat, u \in Owners :
       /\ ResumeStartOp(count, u) \in Operation
       /\ ~IsChange(ResumeStartOp(count, u))
       /\ ResumeStartOp(count, u).token = u
  /\ \A w \in Writes :
       /\ WriteOp(w) \in Operation
       /\ ~IsChange(WriteOp(w)) /\ WriteOp(w).op # "resumeStart"
BY DEF AuthStateDidChange, CredentialChangeOp, GetTokenCallback, ResumeStartOp, WriteOp,
       Block, Operation, IsNotice, IsChange

LEMMA HeadsAreTyped ==
  ASSUME QueuesOk(authUser, mainQueue, workerQueue, syncUser)
  PROVE  /\ mainQueue # <<>> =>
              /\ Head(mainQueue).block \in {"authStateDidChange", "getToken"}
              /\ IsNotice(Head(mainQueue)) => Head(mainQueue).user \in Owners
              /\ Head(mainQueue).block = "getToken" =>
                   Head(mainQueue).request \in TokenRequest /\ Head(mainQueue).token \in Owners
         /\ workerQueue # <<>> =>
              /\ IsChange(Head(workerQueue)) => Head(workerQueue).user \in Owners
              /\ Head(workerQueue).op = "resumeStart" => Head(workerQueue).token \in Owners
<1>1. mainQueue # <<>> => Head(mainQueue) \in Block
  BY TailAndAppend DEF QueuesOk
<1>2. workerQueue # <<>> => Head(workerQueue) \in Operation
  BY TailAndAppend DEF QueuesOk
<1>3. QED
  BY <1>1, <1>2 DEF Block, Operation, IsNotice, IsChange

(* A step of the stream leaves the queues alone. *)
LEMMA StreamStepKeeps ==
  ASSUME IInv, KeepsToken(store, store'),
         UNCHANGED <<authUser, mainQueue, workerQueue, syncUser, made>>
  PROVE  IInv'
BY DEF IInv, KeepsToken, QueuesOk, MainIsFresh, WorkerIsFresh, Fresh, FreshOnMain, NoticeFrom,
       ChangeFrom

LEMMA WriteMutationsKeeps ==
  ASSUME IInv, WriteMutations
  PROVE  IInv'
<1>1. WriteOp(made + 1) \in Operation /\ made' \in Nat
  BY PipelineBounds, BlocksAndOperations DEF WriteMutations, IInv, Writes
<1>2. ~IsChange(WriteOp(made + 1)) /\ WriteOp(made + 1).op # "resumeStart"
  BY PipelineBounds, BlocksAndOperations DEF WriteMutations, IInv, Writes
<1>3. /\ workerQueue' = Append(workerQueue, WriteOp(made + 1))
      /\ UNCHANGED <<authUser, mainQueue, syncUser, store>>
  BY DEF WriteMutations, client
<1>4. /\ workerQueue' \in Seq(Operation)
      /\ WorkerIsFresh(authUser, mainQueue, workerQueue')
      /\ \A u : Fresh(u, authUser, mainQueue, workerQueue, 1)
                  => Fresh(u, authUser, mainQueue, workerQueue', 1)
  BY <1>1, <1>2, <1>3, WorkerGrows, TailAndAppend DEF IInv, QueuesOk
<1>5. QED
  BY <1>1, <1>3, <1>4 DEF IInv, QueuesOk

LEMMA ChangeAuthUserKeeps ==
  ASSUME IInv, NEW u \in Owners, ChangeAuthUser(u)
  PROVE  IInv'
<1>1. /\ authUser' = u
      /\ mainQueue' = Append(mainQueue, AuthStateDidChange(u))
      /\ UNCHANGED <<workerQueue, syncUser, store, made>>
  BY DEF ChangeAuthUser, client
<1>2. /\ mainQueue' \in Seq(Block)
      /\ MainIsFresh(u, mainQueue')
      /\ NoticeFrom(mainQueue', 1)
  <2>1. 1 \in 1..(Len(mainQueue) + 1)
    BY TailAndAppend DEF IInv, QueuesOk
  <2>2. QED
    BY <1>1, <2>1, MainGrows, BlocksAndOperations, TailAndAppend DEF IInv, QueuesOk
<1>3. \A v, worker, i : Fresh(v, u, mainQueue', worker, i)
  BY <1>2 DEF Fresh
<1>4. QED
  BY <1>1, <1>2, <1>3 DEF IInv, QueuesOk, WorkerIsFresh

LEMMA AuthGetsTokenKeeps ==
  ASSUME IInv, NEW request \in store.asked, AuthGetsToken(request)
  PROVE  IInv'
<1> DEFINE block == GetTokenCallback(request, authUser)
<1>1. /\ mainQueue' = Append(mainQueue, block)
      /\ store' = [store EXCEPT !.asked = @ \ {request}]
      /\ UNCHANGED <<authUser, workerQueue, syncUser, made>>
  BY DEF AuthGetsToken, client, counts
<1>2. /\ StoreOk(store')
      /\ store'.token = store.token
      /\ IsOpen(store') => IsOpen(store)
  BY <1>1 DEF IInv, StoreOk, IsOpen
<1>3. block \in Block /\ ~IsNotice(block) /\ block.token = authUser
  BY BlocksAndOperations DEF IInv, StoreOk, QueuesOk
<1> HIDE DEF block
<1>4. /\ mainQueue' \in Seq(Block)
      /\ MainIsFresh(authUser, mainQueue')
      /\ NoticeFrom(mainQueue, 1) => NoticeFrom(mainQueue', 1)
  BY <1>1, <1>3, MainGrows, TailAndAppend DEF IInv, QueuesOk
<1>5. \A v, worker, i : Fresh(v, authUser, mainQueue, worker, i)
                          => Fresh(v, authUser, mainQueue', worker, i)
  BY <1>4 DEF Fresh
<1>6. QED
  BY <1>1, <1>2, <1>4, <1>5 DEF IInv, QueuesOk, WorkerIsFresh

LEMMA RunAuthStateDidChangeKeeps ==
  ASSUME IInv, RunAuthStateDidChange
  PROVE  IInv'
<1> DEFINE u  == Head(mainQueue).user
           op == CredentialChangeOp(u)
<1>1. /\ mainQueue # <<>> /\ IsNotice(Head(mainQueue))
      /\ mainQueue' = TokensStale(Tail(mainQueue))
      /\ store' = [store EXCEPT !.asked = {Stale(q) : q \in @}]
      /\ workerQueue' = Append(workerQueue, op)
      /\ UNCHANGED <<authUser, syncUser, made>>
  BY DEF RunAuthStateDidChange, TokensStale, IsNotice, client, counts
<1>2. /\ StoreOk(store')
      /\ store'.token = store.token
      /\ IsOpen(store') => IsOpen(store)
  <2>1. {Stale(q) : q \in store.asked} \subseteq TokenRequest
    BY DEF IInv, StoreOk, Stale, TokenRequest
  <2> DEFINE asked == {Stale(q) : q \in store.asked}
  <2> HIDE DEF asked
  <2>2. store' = [store EXCEPT !.asked = asked]
    BY <1>1 DEF asked
  <2>3. QED
    BY <2>1, <2>2 DEF IInv, StoreOk, IsOpen, asked
<1>3. u \in Owners
  BY <1>1, HeadsAreTyped DEF IInv
<1>4. op \in Operation /\ IsChange(op) /\ op.user = u /\ op.op # "resumeStart"
  BY <1>3, BlocksAndOperations
<1>5. /\ Tail(mainQueue) \in Seq(Block)
      /\ MainIsFresh(authUser, Tail(mainQueue))
      /\ u = authUser \/ NoticeFrom(Tail(mainQueue), 1)
  <2>1. FreshOnMain(u, authUser, mainQueue, 2)
    BY <1>1, TailAndAppend DEF IInv, QueuesOk, MainIsFresh
  <2>2. QED
    BY <1>1, <2>1, MainLosesHead, TailAndAppend DEF IInv, QueuesOk
<1>6. /\ mainQueue' \in Seq(Block)
      /\ MainIsFresh(authUser, mainQueue')
      /\ u = authUser \/ NoticeFrom(mainQueue', 1)
  BY <1>1, <1>5, StaleTokens
<1> HIDE DEF u, op
<1>7. /\ workerQueue' \in Seq(Operation)
      /\ WorkerIsFresh(authUser, mainQueue', workerQueue')
      /\ \A v : Fresh(v, authUser, mainQueue, workerQueue, 1)
                  => Fresh(v, authUser, mainQueue', workerQueue', 1)
  BY <1>1, <1>4, <1>6, WorkerGrows, TailAndAppend DEF IInv, QueuesOk
<1>8. QED
  BY <1>1, <1>2, <1>6, <1>7 DEF IInv, QueuesOk

LEMMA RunGetTokenCallbackKeeps ==
  ASSUME IInv, RunGetTokenCallback
  PROVE  IInv'
<1> DEFINE request == Head(mainQueue).request
           u       == Head(mainQueue).token
           op      == ResumeStartOp(request.closeCount, u)
<1>1. /\ mainQueue # <<>> /\ Head(mainQueue).block = "getToken" /\ ~IsNotice(Head(mainQueue))
      /\ mainQueue' = Tail(mainQueue)
      /\ UNCHANGED <<authUser, syncUser, made>>
  BY DEF RunGetTokenCallback, IsNotice, client, counts
<1>2. request \in TokenRequest /\ u \in Owners
  BY <1>1, HeadsAreTyped DEF IInv
<1>3. /\ mainQueue' \in Seq(Block)
      /\ MainIsFresh(authUser, mainQueue')
      /\ NoticeFrom(mainQueue, 1) => NoticeFrom(mainQueue', 1)
  BY <1>1, MainLosesHead, TailAndAppend DEF IInv, QueuesOk
<1>4. CASE request.stale
  <2>1. /\ store' = [store EXCEPT !.asked = @ \cup {[request EXCEPT !.stale = FALSE]}]
        /\ UNCHANGED workerQueue
    BY <1>4 DEF RunGetTokenCallback
  <2>2. [request EXCEPT !.stale = FALSE] \in TokenRequest
    <3> HIDE DEF request
    <3> QED
      BY <1>2 DEF TokenRequest
  <2>3. /\ StoreOk(store')
        /\ store'.token = store.token
        /\ IsOpen(store') => IsOpen(store)
    <3> DEFINE again == [request EXCEPT !.stale = FALSE]
    <3> HIDE DEF again
    <3>1. store' = [store EXCEPT !.asked = @ \cup {again}] /\ again \in TokenRequest
      BY <2>1, <2>2 DEF again
    <3>2. QED
      BY <3>1 DEF IInv, StoreOk, IsOpen
  <2>4. \A v, worker, i : Fresh(v, authUser, mainQueue, worker, i)
                            => Fresh(v, authUser, mainQueue', worker, i)
    BY <1>3 DEF Fresh
  <2>5. QED
    BY <1>1, <1>3, <2>1, <2>3, <2>4 DEF IInv, QueuesOk, WorkerIsFresh
<1>5. CASE ~request.stale
  <2>1. workerQueue' = Append(workerQueue, op) /\ UNCHANGED store
    BY <1>5 DEF RunGetTokenCallback
  <2>2. op \in Operation /\ ~IsChange(op) /\ op.token = u
    <3>1. request.closeCount \in Nat
      BY <1>2 DEF TokenRequest
    <3>2. QED
      BY <1>2, <3>1, BlocksAndOperations
  <2>3. u = authUser \/ NoticeFrom(mainQueue', 1)
    <3>1. FreshOnMain(u, authUser, mainQueue, 2)
      BY <1>1, <1>5, TailAndAppend DEF IInv, QueuesOk, MainIsFresh
    <3>2. QED
      BY <1>1, <3>1, MainLosesHead DEF IInv, QueuesOk
  <2> HIDE DEF u, op, request
  <2>4. /\ workerQueue' \in Seq(Operation)
        /\ WorkerIsFresh(authUser, mainQueue', workerQueue')
        /\ \A v : Fresh(v, authUser, mainQueue, workerQueue, 1)
                    => Fresh(v, authUser, mainQueue', workerQueue', 1)
    BY <1>3, <2>1, <2>2, <2>3, WorkerGrows, TailAndAppend DEF IInv, QueuesOk
  <2>5. QED
    BY <1>1, <1>3, <2>1, <2>4 DEF IInv, QueuesOk
<1>6. QED
  BY <1>4, <1>5

(* An operation that is no change of credential. *)
LEMMA OperationKeeps ==
  ASSUME IInv, workerQueue # <<>>, ~IsChange(Head(workerQueue)),
         workerQueue' = Tail(workerQueue), KeepsToken(store, store'),
         UNCHANGED <<authUser, mainQueue, syncUser, made>>
  PROVE  IInv'
<1>1. /\ workerQueue' \in Seq(Operation)
      /\ WorkerIsFresh(authUser, mainQueue, workerQueue')
      /\ \A v : Fresh(v, authUser, mainQueue, workerQueue, 1)
                  => Fresh(v, authUser, mainQueue, workerQueue', 1)
  BY WorkerLosesHead, TailAndAppend DEF IInv, QueuesOk
<1>2. QED
  BY <1>1 DEF IInv, QueuesOk, KeepsToken

LEMMA RunWriteMutationsKeeps ==
  ASSUME IInv, RunWriteMutations
  PROVE  IInv'
<1>1. KeepsToken(store, store')
  BY FillKeepsToken DEF RunWriteMutations, IInv
<1>2. /\ workerQueue # <<>> /\ ~IsChange(Head(workerQueue))
      /\ workerQueue' = Tail(workerQueue)
      /\ UNCHANGED <<authUser, mainQueue, syncUser, made>>
  BY DEF RunWriteMutations, IsChange, counts
<1>3. QED
  BY <1>1, <1>2, OperationKeeps

LEMMA ResumeStartWithCredentialsKeeps ==
  ASSUME IInv, ResumeStartWithCredentials
  PROVE  IInv'
<1> DEFINE u == Head(workerQueue).token
<1>1. /\ workerQueue # <<>> /\ Head(workerQueue).op = "resumeStart"
      /\ ~IsChange(Head(workerQueue))
      /\ workerQueue' = Tail(workerQueue)
      /\ UNCHANGED <<authUser, mainQueue, syncUser, made>>
  BY DEF ResumeStartWithCredentials, IsChange, client, counts
<1>2. CASE UNCHANGED store
  BY <1>1, <1>2, OperationKeeps DEF KeepsToken, IInv
<1>3. CASE store' = [store EXCEPT !.stream = "Open", !.token = u, !.up = <<Handshake>>]
  <2>1. Fresh(u, authUser, mainQueue, workerQueue', 1)
    <3>1. Fresh(u, authUser, mainQueue, workerQueue, 2)
      BY <1>1, TailAndAppend DEF IInv, QueuesOk, WorkerIsFresh
    <3>2. QED
      BY <1>1, <3>1, WorkerLosesHead DEF IInv, QueuesOk
  <2>2. u \in Owners
    BY <1>1, HeadsAreTyped DEF IInv
  <2> HIDE DEF u
  <2>3. StoreOk(store') /\ store'.token = u
    BY <1>3, <2>2 DEF IInv, StoreOk, StreamStates
  <2>4. /\ workerQueue' \in Seq(Operation)
        /\ WorkerIsFresh(authUser, mainQueue, workerQueue')
        /\ Fresh(syncUser, authUser, mainQueue, workerQueue', 1)
    BY <1>1, WorkerLosesHead, TailAndAppend DEF IInv, QueuesOk
  <2>5. QED
    BY <1>1, <2>1, <2>3, <2>4 DEF IInv, QueuesOk
<1>4. QED
  BY <1>2, <1>3 DEF ResumeStartWithCredentials

LEMMA ResumeStartFailsKeeps ==
  ASSUME IInv, ResumeStartFails
  PROVE  IInv'
<1>1. KeepsToken(store, Close(store, "Error"))
  BY CloseClosesStream DEF IInv, StreamStates
<1>2. KeepsToken(Close(store, "Error"), store')
  BY <1>1, StartOpensNothing DEF ResumeStartFails, KeepsToken
<1>3. KeepsToken(store, store')
  BY <1>1, <1>2 DEF KeepsToken
<1>4. /\ workerQueue # <<>> /\ ~IsChange(Head(workerQueue))
      /\ workerQueue' = Tail(workerQueue)
      /\ UNCHANGED <<authUser, mainQueue, syncUser, made>>
  BY DEF ResumeStartFails, IsChange, client
<1>5. QED
  BY <1>3, <1>4, OperationKeeps

(* After a restart of the network the stream is not open. *)
LEMMA RestartCloses ==
  ASSUME NEW s, StoreOk(s), NEW queue
  PROVE  KeepsToken(s, RestartNetwork(s, queue)) /\ ~IsOpen(RestartNetwork(s, queue))
<1> DEFINE stopped == IF IsStarted(s) THEN ForgetHandshake(Close(s, "Initial")) ELSE s
           empty   == [stopped EXCEPT !.pipeline = <<>>, !.stream = "Initial"]
<1>1. StoreOk(stopped) /\ stopped.token = s.token
  <2>1. KeepsToken(s, Close(s, "Initial"))
    BY CloseClosesStream DEF StreamStates
  <2>2. QED
    BY <2>1, ForgettingKeepsToken DEF KeepsToken
<1> HIDE DEF stopped
<1>2. StoreOk(empty) /\ ~IsOpen(empty) /\ empty.token = s.token
  BY <1>1 DEF StoreOk, IsOpen, StreamStates
<1>3. RestartNetwork(s, queue) = FillWritePipeline(empty, queue)
  BY DEF RestartNetwork, stopped
<1> HIDE DEF empty
<1>4. QED
  BY <1>2, <1>3, FillKeepsToken DEF KeepsToken

LEMMA HandleCredentialChangeKeeps ==
  ASSUME IInv, HandleCredentialChange
  PROVE  IInv'
<1> DEFINE u == Head(workerQueue).user
<1>1. /\ workerQueue # <<>> /\ IsChange(Head(workerQueue))
      /\ workerQueue' = Tail(workerQueue)
      /\ syncUser' = u
      /\ store' = RestartNetwork(store, mutationQueue[syncUser'])
      /\ UNCHANGED <<authUser, mainQueue, made>>
  BY DEF HandleCredentialChange, IsChange, counts
<1>2. Fresh(u, authUser, mainQueue, workerQueue, 2)
  BY <1>1, TailAndAppend DEF IInv, QueuesOk, WorkerIsFresh
<1>3. /\ workerQueue' \in Seq(Operation)
      /\ WorkerIsFresh(authUser, mainQueue, workerQueue')
      /\ Fresh(u, authUser, mainQueue, workerQueue', 1)
  BY <1>1, <1>2, WorkerLosesHead, TailAndAppend DEF IInv, QueuesOk
<1>4. u \in Owners
  BY <1>1, HeadsAreTyped DEF IInv
<1>5. StoreOk(store') /\ ~IsOpen(store')
  BY <1>1, RestartCloses DEF IInv, KeepsToken
<1>6. QED
  BY <1>1, <1>3, <1>4, <1>5 DEF IInv, QueuesOk

LEMMA StreamActionsKeepToken ==
  ASSUME StoreOk(store),
         BackoffElapses \/ IdleTimeout \/ OnHandshakeResponse \/ OnMutationResult
           \/ StreamFails \/ HandleWriteError \/ ConnectivityChanges \/ Carry
  PROVE  KeepsToken(store, store')
<1>1. CASE BackoffElapses
  <2> DEFINE back == [store EXCEPT !.stream = "Initial"]
  <2>1. KeepsToken(store, back)
    BY DEF KeepsToken, StoreOk, IsOpen, StreamStates
  <2>2. store' = Start(back)
    BY <1>1 DEF BackoffElapses
  <2> HIDE DEF back
  <2>3. QED
    BY <2>1, <2>2, StartOpensNothing DEF KeepsToken
<1>2. CASE IdleTimeout
  <2>1. KeepsToken(store, Close(store, "Initial"))
    BY CloseClosesStream DEF StreamStates
  <2>2. QED
    BY <1>2, <2>1, ForgettingKeepsToken DEF IdleTimeout, KeepsToken
<1>3. CASE OnHandshakeResponse
  <2> DEFINE i == store.idle /\ store.pipeline = <<>>
             u == store.up \o WritesOf(store.pipeline)
  <2>1. store' = [store EXCEPT !.handshakeComplete = TRUE, !.idle = i, !.up = u]
    BY <1>3 DEF OnHandshakeResponse
  <2> HIDE DEF i, u
  <2>2. QED
    BY <2>1, OtherFieldsKeepToken
<1>4. CASE OnMutationResult
  <2> DEFINE p == Tail(store.pipeline)
             s == [store EXCEPT !.pipeline = p]
  <2>1. store' = FillWritePipeline(s, mutationQueue'[syncUser])
    BY <1>4 DEF OnMutationResult
  <2> HIDE DEF p
  <2>2. KeepsToken(store, s)
    BY OtherFieldsKeepToken
  <2> HIDE DEF s
  <2>3. QED
    BY <2>1, <2>2, FillKeepsToken DEF KeepsToken
<1>5. CASE StreamFails
  <2> DEFINE s == StartIfNeeded(Close(store, "Error"))
  <2>1. KeepsToken(store, Close(store, "Error"))
    BY CloseClosesStream DEF StreamStates
  <2>2. KeepsToken(store, s)
    BY <2>1, StartOpensNothing DEF KeepsToken
  <2>3. store' = ForgetHandshake(s)
    BY <1>5 DEF StreamFails
  <2> HIDE DEF s
  <2>4. QED
    BY <2>2, <2>3, ForgettingKeepsToken DEF KeepsToken
<1>6. CASE HandleWriteError
  <2> DEFINE closed == Close(store, "Error")
             p      == Tail(closed.pipeline)
             reset  == [closed EXCEPT !.pipeline = p, !.stream = "Initial"]
             filled == FillWritePipeline(reset, mutationQueue'[syncUser])
  <2>1. KeepsToken(store, closed)
    BY CloseClosesStream DEF StreamStates
  <2>2. store' = ForgetHandshake(StartIfNeeded(filled))
    BY <1>6 DEF HandleWriteError
  <2> HIDE DEF closed, p
  <2>3. KeepsToken(closed, reset)
    BY <2>1 DEF KeepsToken, StoreOk, IsOpen, StreamStates
  <2> HIDE DEF reset
  <2>4. KeepsToken(reset, filled)
    BY <2>3, FillKeepsToken DEF KeepsToken
  <2> HIDE DEF filled
  <2>5. KeepsToken(filled, StartIfNeeded(filled))
    BY <2>4, StartOpensNothing DEF KeepsToken
  <2>6. KeepsToken(StartIfNeeded(filled), store')
    BY <2>2, <2>5, ForgettingKeepsToken DEF KeepsToken
  <2>7. QED
    BY <2>1, <2>3, <2>4, <2>5, <2>6 DEF KeepsToken
<1>7. CASE ConnectivityChanges
  BY <1>7, RestartCloses DEF ConnectivityChanges
<1>8. CASE Carry
  <2> DEFINE u == Tail(store.up)
  <2>1. store' = [store EXCEPT !.up = u]
    BY <1>8 DEF Carry
  <2> HIDE DEF u
  <2>2. QED
    BY <2>1, OtherFieldsKeepToken
<1>9. QED
  BY <1>1, <1>2, <1>3, <1>4, <1>5, <1>6, <1>7, <1>8

LEMMA RestartKeeps ==
  ASSUME IInv, Restart
  PROVE  IInv'
<1>1. /\ mainQueue' = <<>> /\ workerQueue' = <<>> /\ syncUser' = authUser
      /\ store' = FillWritePipeline(Closed, mutationQueue[authUser])
      /\ UNCHANGED <<authUser, made>>
  BY DEF Restart
<1>2. StoreOk(Closed) /\ ~IsOpen(Closed)
  BY DEF StoreOk, IsOpen, Closed, Owners, StreamStates
<1>3. StoreOk(store') /\ ~IsOpen(store')
  BY <1>1, <1>2, FillKeepsToken DEF KeepsToken
<1>4. <<>> \in Seq(Block) /\ <<>> \in Seq(Operation) /\ DOMAIN <<>> = {}
  OBVIOUS
<1>5. MainIsFresh(authUser, <<>>) /\ WorkerIsFresh(authUser, <<>>, <<>>)
  BY <1>4 DEF MainIsFresh, WorkerIsFresh
<1>6. QED
  BY <1>1, <1>3, <1>4, <1>5 DEF IInv, QueuesOk, Fresh

LEMMA InitIsOk == Init => IInv
<1>1. <<>> \in Seq(Block) /\ <<>> \in Seq(Operation) /\ DOMAIN <<>> = {}
  OBVIOUS
<1>2. StoreOk(Closed) /\ ~IsOpen(Closed) /\ NoUser \in Owners
  BY DEF StoreOk, IsOpen, Closed, Owners, StreamStates
<1>3. QED
  BY <1>1, <1>2 DEF Init, IInv, QueuesOk, MainIsFresh, WorkerIsFresh, Fresh

LEMMA NextKeepsIInv == IInv /\ [Next]_vars => IInv'
<1> SUFFICES ASSUME IInv, [Next]_vars
             PROVE  IInv'
  OBVIOUS
<1>1. CASE BackoffElapses \/ IdleTimeout \/ OnHandshakeResponse \/ OnMutationResult
             \/ StreamFails \/ HandleWriteError \/ ConnectivityChanges \/ Carry
  <2>1. UNCHANGED <<authUser, mainQueue, workerQueue, syncUser, made>>
    BY <1>1 DEF BackoffElapses, IdleTimeout, OnHandshakeResponse, OnMutationResult,
                StreamFails, HandleWriteError, ConnectivityChanges, Carry, client, counts
  <2>2. KeepsToken(store, store')
    BY <1>1, StreamActionsKeepToken DEF IInv
  <2>3. QED
    BY <2>1, <2>2, StreamStepKeeps
<1>2. CASE BackendAnswers \/ (\E l \in leftovers : BackendAppliesLeftover(l)) \/ UNCHANGED vars
  <2>1. UNCHANGED <<authUser, mainQueue, workerQueue, syncUser, made, store>>
    BY <1>2 DEF BackendAnswers, BackendAppliesLeftover, vars, client, counts
  <2>2. KeepsToken(store, store')
    BY <2>1 DEF KeepsToken, IInv
  <2>3. QED
    BY <2>1, <2>2, StreamStepKeeps
<1>3. CASE WriteMutations
  BY <1>3, WriteMutationsKeeps
<1>4. CASE RunWriteMutations
  BY <1>4, RunWriteMutationsKeeps
<1>5. CASE \E u \in Owners : ChangeAuthUser(u)
  BY <1>5, ChangeAuthUserKeeps
<1>6. CASE \E request \in store.asked : AuthGetsToken(request)
  BY <1>6, AuthGetsTokenKeeps
<1>7. CASE RunAuthStateDidChange
  BY <1>7, RunAuthStateDidChangeKeeps
<1>8. CASE RunGetTokenCallback
  BY <1>8, RunGetTokenCallbackKeeps
<1>9. CASE HandleCredentialChange
  BY <1>9, HandleCredentialChangeKeeps
<1>10. CASE ResumeStartWithCredentials
  BY <1>10, ResumeStartWithCredentialsKeeps
<1>11. CASE ResumeStartFails
  BY <1>11, ResumeStartFailsKeeps
<1>12. CASE Restart
  BY <1>12, RestartKeeps
<1>13. QED
  BY <1>1, <1>2, <1>3, <1>4, <1>5, <1>6, <1>7, <1>8, <1>9, <1>10, <1>11, <1>12 DEF Next

LEMMA FreshMeansTransient == IInv => WrongTokenIsTransient
<1> SUFFICES ASSUME IInv, IsOpen(store), store.token # syncUser
             PROVE  \/ \E b \in ToSet(mainQueue) : b.block = "authStateDidChange"
                    \/ \E op \in ToSet(workerQueue) : op.op = "credentialChange"
  BY DEF WrongTokenIsTransient
<1>1. NoticeFrom(mainQueue, 1) \/ ChangeFrom(workerQueue, 1)
  BY DEF IInv, Fresh
<1>2. QED
  BY <1>1 DEF NoticeFrom, ChangeFrom, IsNotice, IsChange, ToSet

(* Writes of one user go out with the token of another only while the      *)
(* change of user is still on its way through the main queue or the worker *)
(* queue, whatever tokens were asked for and arrive in between: the        *)
(* AsyncQueue restarts the stream when the change gets there.              *)
THEOREM TokensFollowUsers == Spec => []WrongTokenIsTransient
<1>1. Spec => []IInv
  BY InitIsOk, NextKeepsIInv, PTL DEF Spec
<1>2. QED
  BY <1>1, FreshMeansTransient, PTL

--------------------------------------------------------------------------------
(***************************************************************************)
(* Safety of WritePipeline for any users and any bounds.                   *)
(*                                                                         *)
(* The pipeline is the beginning of the open mutation queue, whose ids are *)
(* in order, and the stream carries the pipeline: what the responses not   *)
(* read, the network and the stream hold are its writes, one behind the    *)
(* other (SInv).  Every callback waits for its own batch (AInv), and what  *)
(* was carried reaches the backend in the order of the queue, even from    *)
(* streams that were closed (RInv).  So the app is told the truth, and the *)
(* whole implements FirestoreClient.                                       *)
(***************************************************************************)

(* What is on a stream: the handshake, or writes. *)
Requests == Writes \cup {Handshake}

Store == [pipeline : Seq(Batch), stream : StreamStates, handshakeComplete : BOOLEAN,
          idle : BOOLEAN, up : Seq(Requests), token : Owners,
          closeCount : Nat, asked : SUBSET TokenRequest]

(* The batches of a queue are in the order of their ids. *)
IdsAscend(queue) == \A i, j \in DOMAIN queue : i < j => queue[i].id < queue[j].id

Begins(p, queue) ==
  /\ Len(p) <= Len(queue)
  /\ \A i \in 1..Len(p) : p[i] = queue[i]

PipelineOk(p, queue) ==
  /\ Len(p) <= MaxPendingWrites
  /\ Begins(p, queue)
  /\ queue # <<>> => p # <<>>

(* A stream that is not open holds nothing, and is started for a batch. *)
ClosedOk(s) ==
  /\ ~IsOpen(s) /\ ~s.idle /\ s.up = <<>>
  /\ s.stream \in {"Starting", "Backoff"} => s.pipeline # <<>>

(* On an open stream the handshake is in one place. *)
ShakesHands(up, w, d) ==
  \/ up = <<Handshake>> /\ w = <<>> /\ d = <<>>
  \/ up = <<>> /\ w = <<Handshake>> /\ d = <<>>
  \/ up = <<>> /\ w = <<>> /\ d = <<Handshake>>

(* The write that has been refused is in none of the three. *)
Lost(r) == IF r THEN 1 ELSE 0

Carries(p, up, w, d, lost) ==
  /\ Len(p) = Len(d) + lost + Len(w) + Len(up)
  /\ \A i \in 1..Len(d)  : d[i] = p[i].write
  /\ \A i \in 1..Len(w)  : w[i] = p[Len(d) + lost + i].write
  /\ \A i \in 1..Len(up) : up[i] = p[Len(d) + lost + Len(w) + i].write

OpenOk(s, w, d, r) ==
  /\ s.idle => s.handshakeComplete /\ s.pipeline = <<>>
  /\ IF s.handshakeComplete
     THEN Carries(s.pipeline, s.up, w, d, Lost(r))
     ELSE ShakesHands(s.up, w, d) /\ ~r /\ s.pipeline # <<>>

(* Only a stream that is not started is started, after an error with a     *)
(* backoff first.                                                          *)
Starts(s, t) ==
  \/ t.stream = s.stream /\ t.asked = s.asked
  \/ s.stream = "Error" /\ t.stream = "Backoff" /\ t.asked = s.asked
  \/ /\ s.stream = "Initial" /\ t.stream = "Starting"
     /\ t.asked = s.asked \cup {[closeCount |-> s.closeCount, stale |-> FALSE]}

StreamOk(s, w, d, r) ==
  IF IsOpen(s) THEN OpenOk(s, w, d, r)
  ELSE ClosedOk(s) /\ ~s.handshakeComplete /\ w = <<>> /\ d = <<>> /\ ~r

--------------------------------------------------------------------------------
(* FillWritePipeline *)

LEMMA FirstBatchesAfter ==
  ASSUME NEW queue \in Seq(Batch), IdsAscend(queue), NEW p \in Seq(Batch), Begins(p, queue),
         NEW id, id = IF p = <<>> THEN 0 ELSE Last(p).id
  PROVE  BatchesAfter(queue, id) = SubSeq(queue, Len(p) + 1, Len(queue))
<1> DEFINE higher == {i \in DOMAIN queue : queue[i].id > id}
           first  == CHOOSE i \in higher : \A j \in higher : i <= j
<1>1. /\ Len(p) \in Nat /\ Len(queue) \in Nat /\ DOMAIN queue = 1..Len(queue)
      /\ \A i \in DOMAIN queue : queue[i].id \in Nat \ {0}
  <2>1. Len(p) \in Nat /\ Len(queue) \in Nat /\ DOMAIN queue = 1..Len(queue)
    OBVIOUS
  <2>2. \A i \in DOMAIN queue : queue[i] \in Batch
    BY <2>1
  <2>3. \A b \in Batch : b.id \in Nat \ {0}
    BY DEF Batch
  <2>4. QED
    BY <2>1, <2>2, <2>3
<1>2. p # <<>> => Len(p) \in DOMAIN queue /\ id = queue[Len(p)].id
  <2>1. p # <<>> => Last(p) = p[Len(p)] /\ Len(p) \in 1..Len(p)
    BY DEF Last
  <2>2. QED
    BY <1>1, <2>1 DEF Begins
<1>3. higher = (Len(p) + 1)..Len(queue)
  <2>1. CASE p = <<>>
    BY <1>1, <2>1
  <2>2. CASE p # <<>>
    <3>1. Len(p) \in 1..Len(queue) /\ id = queue[Len(p)].id /\ id \in Nat
      BY <1>1, <1>2, <2>2
    <3>2. ASSUME NEW i \in DOMAIN queue, i > Len(p)  PROVE  queue[i].id > id
      <4>1. queue[Len(p)].id < queue[i].id
        BY <1>1, <3>1, <3>2 DEF IdsAscend
      <4>2. QED
        BY <1>1, <3>1, <4>1
    <3>3. ASSUME NEW i \in DOMAIN queue, ~(i > Len(p))  PROVE  ~(queue[i].id > id)
      <4>1. i = Len(p) \/ queue[i].id < queue[Len(p)].id
        BY <1>1, <3>1, <3>3 DEF IdsAscend
      <4>2. QED
        BY <1>1, <3>1, <4>1
    <3>4. higher = {i \in 1..Len(queue) : i > Len(p)}
      BY <1>1, <3>2, <3>3
    <3>5. QED
      BY <1>1, <3>1, <3>4
  <2>3. QED
    BY <2>1, <2>2
<1>4. CASE higher = {}
  <2>1. BatchesAfter(queue, id) = <<>>
    BY <1>4 DEF BatchesAfter
  <2>2. /\ Len(p) + 1 \in Int /\ Len(queue) \in Int
        /\ Len(queue) < Len(p) + 1
    BY <1>1, <1>3, <1>4
  <2> DEFINE from == Len(p) + 1
  <2> HIDE DEF from
  <2>3. SubSeq(queue, from, Len(queue)) = <<>>
    BY <2>2, SubSeqEmpty DEF from
  <2>4. QED
    BY <2>1, <2>3 DEF from
<1>5. CASE higher # {}
  <2>1. /\ Len(p) + 1 \in higher
        /\ \A j \in higher : Len(p) + 1 <= j
    BY <1>1, <1>3, <1>5
  <2>2. first = Len(p) + 1
    <3> HIDE DEF higher
    <3>1. first \in higher /\ \A j \in higher : first <= j
      BY <2>1
    <3> HIDE DEF first
    <3>2. first \in Int /\ first <= Len(p) + 1 /\ Len(p) + 1 <= first
      BY <1>1, <1>3, <2>1, <3>1
    <3>3. QED
      BY <1>1, <3>2
  <2>3. BatchesAfter(queue, id) = SubSeq(queue, first, Len(queue))
    BY <1>5 DEF BatchesAfter
  <2>4. QED
    BY <2>2, <2>3
<1>6. QED
  BY <1>4, <1>5

(* What FillWritePipeline makes of the store before it starts the stream. *)
Filled(s, queue, t) ==
  \E added \in Seq(Batch) :
    /\ t = [s EXCEPT !.pipeline = s.pipeline \o added,
                     !.up   = IF Sendable(s) THEN s.up \o WritesOf(added) ELSE s.up,
                     !.idle = IF added # <<>> THEN s.idle /\ ~Sendable(s)
                              ELSE s.idle \/ (IsOpen(s) /\ s.pipeline = <<>>)]
    /\ PipelineOk(s.pipeline \o added, queue)

LEMMA Writing ==
  ASSUME NEW batches \in Seq(Batch)
  PROVE  /\ WritesOf(batches) \in Seq(Writes)
         /\ Len(WritesOf(batches)) = Len(batches)
         /\ \A i \in 1..Len(batches) : WritesOf(batches)[i] = batches[i].write
<1>1. Len(batches) \in Nat /\ DOMAIN batches = 1..Len(batches)
  OBVIOUS
<1>2. \A i \in 1..Len(batches) : batches[i] \in Batch
  OBVIOUS
<1>3. \A b \in Batch : b.write \in Writes
  BY DEF Batch
<1>4. WritesOf(batches) \in [1..Len(batches) -> Writes]
  BY <1>1, <1>2, <1>3 DEF WritesOf
<1>5. QED
  BY <1>1, <1>4 DEF WritesOf

LEMMA FillFills ==
  ASSUME NEW s, s.pipeline \in Seq(Batch), NEW queue \in Seq(Batch), IdsAscend(queue),
         Len(s.pipeline) <= MaxPendingWrites, Begins(s.pipeline, queue)
  PROVE  \E t : Filled(s, queue, t) /\ FillWritePipeline(s, queue) = StartIfNeeded(t)
<1> DEFINE p     == s.pipeline
           after == BatchesAfter(queue, LastBatchId(s))
           room  == MaxPendingWrites - Len(p)
           count == IF Len(after) < room THEN Len(after) ELSE room
           added == SubSeq(after, 1, count)
           t     == [s EXCEPT !.pipeline = p \o added,
                              !.up   = IF Sendable(s) THEN s.up \o WritesOf(added) ELSE s.up,
                              !.idle = IF added # <<>> THEN s.idle /\ ~Sendable(s)
                                       ELSE s.idle \/ (IsOpen(s) /\ p = <<>>)]
<1>1. FillWritePipeline(s, queue) = StartIfNeeded(t)
  BY DEF FillWritePipeline
<1>2. /\ p \in Seq(Batch) /\ Begins(p, queue) /\ Len(p) <= MaxPendingWrites
      /\ Len(p) \in Nat /\ Len(queue) \in Nat /\ MaxPendingWrites \in Nat \ {0}
      /\ room \in Nat
  BY PipelineHasRoom
<1>3. after = SubSeq(queue, Len(p) + 1, Len(queue))
  BY FirstBatchesAfter DEF LastBatchId
<1> HIDE DEF p, after
<1>4. /\ after \in Seq(Batch)
      /\ Len(after) = Len(queue) - Len(p) /\ Len(after) \in Nat
      /\ \A i \in 1..Len(after) : after[i] = queue[Len(p) + i]
  <2>1. \A i \in (Len(p) + 1)..Len(queue) : queue[i] \in Batch
    BY <1>2
  <2>2. Len(p) <= Len(queue)
    BY <1>2 DEF Begins
  <2>3. QED
    BY <1>2, <1>3, <2>1, <2>2, SubSeqProperties
<1> HIDE DEF room
<1>5. /\ count \in Nat /\ count <= Len(after) /\ count <= room
      /\ Len(after) # 0 /\ room # 0 => count # 0
  BY <1>2, <1>4
<1> HIDE DEF count
<1>6. /\ added \in Seq(Batch)
      /\ Len(added) = count
      /\ \A i \in 1..count : added[i] = queue[Len(p) + i]
  <2>1. \A i \in 1..count : after[i] \in Batch
    BY <1>4, <1>5
  <2>2. /\ added \in Seq(Batch) /\ Len(added) = count
        /\ \A i \in 1..count : added[i] = after[i]
    BY <1>5, <2>1, SubSeqProperties
  <2>3. QED
    BY <1>2, <1>4, <1>5, <2>2
<1> HIDE DEF added
<1> DEFINE full == p \o added
<1>7. /\ full \in Seq(Batch)
      /\ Len(full) = Len(p) + count
      /\ \A i \in 1..(Len(p) + count) :
           full[i] = IF i <= Len(p) THEN p[i] ELSE added[i - Len(p)]
  BY <1>2, <1>6, ConcatProperties
<1> HIDE DEF full
<1>8. \A i \in 1..(Len(p) + count) : full[i] = queue[i]
  <2> SUFFICES ASSUME NEW i \in 1..(Len(p) + count)
               PROVE  full[i] = queue[i]
    OBVIOUS
  <2>1. CASE i <= Len(p)
    <3>1. i \in 1..Len(p)
      BY <1>2, <1>5, <2>1
    <3>2. p[i] = queue[i]
      BY <1>2, <3>1 DEF Begins
    <3>3. full[i] = p[i]
      BY <1>7, <2>1
    <3>4. QED
      BY <3>2, <3>3
  <2>2. CASE i > Len(p)
    <3>1. i - Len(p) \in 1..count /\ Len(p) + (i - Len(p)) = i
      BY <1>2, <1>5, <2>2
    <3>2. added[i - Len(p)] = queue[i]
      BY <1>6, <3>1
    <3>3. QED
      BY <1>2, <1>5, <1>7, <2>2, <3>2
  <2>3. QED
    BY <1>2, <1>5, <2>1, <2>2
<1>9. PipelineOk(full, queue)
  <2>1. Len(p) + count <= MaxPendingWrites /\ Len(p) + count <= Len(queue)
    BY <1>2, <1>4, <1>5 DEF room
  <2>2. ASSUME queue # <<>>  PROVE  Len(p) + count # 0
    <3>1. Len(queue) # 0
      BY <2>2
    <3>2. QED
      BY <1>2, <1>4, <1>5, <3>1 DEF room
  <2>3. queue # <<>> => full # <<>>
    BY <1>2, <1>5, <1>7, <2>2
  <2>4. QED
    BY <1>7, <1>8, <2>1, <2>3 DEF PipelineOk, Begins
<1>10. Filled(s, queue, t)
  BY <1>6, <1>9 DEF Filled, full, p
<1>11. QED
  BY <1>1, <1>10

LEMMA CarriesMore ==
  ASSUME NEW p \in Seq(Batch), NEW added \in Seq(Batch), NEW up \in Seq(Requests),
         NEW w \in Seq(Requests), NEW d \in Seq(Requests),
         NEW lost \in {0, 1}, Carries(p, up, w, d, lost)
  PROVE  Carries(p \o added, up \o WritesOf(added), w, d, lost)
<1> DEFINE written == WritesOf(added)
           p2  == p \o added
           up2 == up \o written
           before == Len(d) + lost + Len(w)
<1>1. /\ Len(p) \in Nat /\ Len(added) \in Nat /\ Len(up) \in Nat /\ Len(w) \in Nat
      /\ Len(d) \in Nat /\ before \in Nat
      /\ Len(p) = before + Len(up)
  BY DEF Carries
<1>2. /\ written \in Seq(Requests) /\ Len(written) = Len(added)
      /\ \A i \in 1..Len(added) : written[i] = added[i].write
  <2>1. written \in Seq(Writes) /\ Writes \subseteq Requests
    BY Writing DEF Requests
  <2>2. QED
    BY <2>1, Writing, SeqMonotonic
<1> HIDE DEF written
<1>3. /\ Len(p2) = Len(p) + Len(added)
      /\ \A i \in 1..(Len(p) + Len(added)) :
           p2[i] = IF i <= Len(p) THEN p[i] ELSE added[i - Len(p)]
  BY ConcatProperties
<1>4. /\ Len(up2) = Len(up) + Len(added)
      /\ \A i \in 1..(Len(up) + Len(added)) :
           up2[i] = IF i <= Len(up) THEN up[i] ELSE written[i - Len(up)]
  <2>1. written \in Seq(Requests)
    BY <1>2
  <2>2. /\ Len(up2) = Len(up) + Len(written)
        /\ \A i \in 1..(Len(up) + Len(written)) :
             up2[i] = IF i <= Len(up) THEN up[i] ELSE written[i - Len(up)]
    BY <2>1, ConcatProperties
  <2>3. QED
    BY <1>2, <2>2
<1> HIDE DEF p2, up2
<1>5. \A i \in 1..Len(p) : p2[i] = p[i]
  BY <1>1, <1>3
<1>6. \A i \in 1..Len(d) : d[i] = p2[i].write
  <2>1. ASSUME NEW i \in 1..Len(d)  PROVE  i \in 1..Len(p)
    BY <1>1
  <2>2. QED
    BY <1>5, <2>1 DEF Carries
<1>7. \A i \in 1..Len(w) : w[i] = p2[Len(d) + lost + i].write
  <2>1. ASSUME NEW i \in 1..Len(w)  PROVE  Len(d) + lost + i \in 1..Len(p)
    BY <1>1
  <2>2. QED
    BY <1>5, <2>1 DEF Carries
<1>8. ASSUME NEW i \in 1..Len(up2)
      PROVE  up2[i] = p2[before + i].write
  <2>1. CASE i <= Len(up)
    <3>1. i \in 1..Len(up) /\ before + i \in 1..Len(p)
      BY <1>1, <1>4, <2>1
    <3>2. up2[i] = up[i]
      BY <1>1, <1>4, <2>1, <3>1
    <3>3. up[i] = p[before + i].write
      BY <3>1 DEF Carries
    <3>4. QED
      BY <1>5, <3>1, <3>2, <3>3
  <2>2. CASE i > Len(up)
    <3>1. /\ i \in 1..(Len(up) + Len(added))
          /\ i - Len(up) \in 1..Len(added)
          /\ before + i \in 1..(Len(p) + Len(added))
          /\ before + i > Len(p)
          /\ before + i - Len(p) = i - Len(up)
      BY <1>1, <1>4, <2>2
    <3>2. up2[i] = written[i - Len(up)]
      BY <1>1, <1>4, <2>2, <3>1
    <3>3. p2[before + i] = added[i - Len(up)]
      BY <1>1, <1>3, <3>1
    <3>4. QED
      BY <1>2, <3>1, <3>2, <3>3
  <2>3. QED
    BY <1>1, <1>4, <2>1, <2>2
<1>9. Len(p2) = Len(d) + lost + Len(w) + Len(up2)
  BY <1>1, <1>3, <1>4
<1>10. QED
  BY <1>6, <1>7, <1>8, <1>9 DEF Carries, p2, up2, written

LEMMA StartIfNeededStarts ==
  ASSUME NEW s \in Store
  PROVE  /\ StartIfNeeded(s) \in Store
         /\ Starts(s, StartIfNeeded(s))
         /\ StartIfNeeded(s).pipeline = s.pipeline
         /\ StartIfNeeded(s).handshakeComplete = s.handshakeComplete
         /\ StartIfNeeded(s).idle = s.idle
         /\ StartIfNeeded(s).up = s.up
         /\ StartIfNeeded(s).closeCount = s.closeCount
         /\ s.pipeline = <<>> => StartIfNeeded(s) = s
         /\ IsOpen(s) => StartIfNeeded(s) = s
         /\ ~IsOpen(s) => ~IsOpen(StartIfNeeded(s))
<1>1. CASE IsStarted(s) \/ s.pipeline = <<>>
  BY <1>1 DEF StartIfNeeded, Starts
<1>2. CASE ~(IsStarted(s) \/ s.pipeline = <<>>)
  <2>1. StartIfNeeded(s) = Start(s)
    BY <1>2 DEF StartIfNeeded
  <2>2. s.stream \in {"Initial", "Error"}
    BY <1>2 DEF Store, StreamStates, IsStarted
  <2>3. CASE s.stream = "Error"
    <3>1. StartIfNeeded(s) = [s EXCEPT !.stream = "Backoff"]
      BY <2>1, <2>3 DEF Start
    <3>2. QED
      BY <1>2, <2>3, <3>1 DEF Store, StreamStates, Starts, IsOpen
  <2>4. CASE s.stream = "Initial"
    <3> DEFINE request == [closeCount |-> s.closeCount, stale |-> FALSE]
    <3>1. StartIfNeeded(s) = [s EXCEPT !.stream = "Starting", !.asked = @ \cup {request}]
      BY <2>1, <2>4 DEF Start
    <3>2. request \in TokenRequest
      BY DEF Store, TokenRequest
    <3>3. Starts(s, StartIfNeeded(s))
      BY <2>4, <3>1 DEF Store, Starts
    <3> HIDE DEF request
    <3> DEFINE asked == s.asked \cup {request}
    <3>4. StartIfNeeded(s) \in Store
      <4>1. asked \in SUBSET TokenRequest /\ "Starting" \in StreamStates
        BY <3>2 DEF Store, StreamStates
      <4>2. StartIfNeeded(s) = [s EXCEPT !.stream = "Starting", !.asked = asked]
        BY <3>1
      <4> HIDE DEF asked
      <4>3. QED
        BY <4>1, <4>2 DEF Store
    <3>5. QED
      BY <1>2, <2>4, <3>1, <3>3, <3>4 DEF Store, IsOpen
  <2>5. QED
    BY <2>2, <2>3, <2>4
<1>3. QED
  BY <1>1, <1>2

LEMMA FilledStore ==
  ASSUME NEW s \in Store, NEW queue, NEW t, Filled(s, queue, t)
  PROVE  /\ t \in Store
         /\ PipelineOk(t.pipeline, queue)
         /\ t.stream = s.stream /\ t.asked = s.asked /\ t.closeCount = s.closeCount
         /\ t.handshakeComplete = s.handshakeComplete /\ t.token = s.token
         /\ s.pipeline # <<>> => t.pipeline # <<>>
         /\ ~IsOpen(s) => t.up = s.up /\ (t.idle => s.idle)
         /\ IsOpen(s) => \E added \in Seq(Batch) :
              /\ t.pipeline = s.pipeline \o added
              /\ t.up = IF s.handshakeComplete THEN s.up \o WritesOf(added) ELSE s.up
              /\ t.idle => IF added # <<>> THEN s.idle /\ ~s.handshakeComplete
                           ELSE s.idle \/ s.pipeline = <<>>
<1>1. PICK added \in Seq(Batch) :
        /\ t = [s EXCEPT !.pipeline = s.pipeline \o added,
                         !.up   = IF Sendable(s) THEN s.up \o WritesOf(added) ELSE s.up,
                         !.idle = IF added # <<>> THEN s.idle /\ ~Sendable(s)
                                  ELSE s.idle \/ (IsOpen(s) /\ s.pipeline = <<>>)]
        /\ PipelineOk(s.pipeline \o added, queue)
  BY DEF Filled
<1> DEFINE p == s.pipeline \o added
           u == IF Sendable(s) THEN s.up \o WritesOf(added) ELSE s.up
           i == IF added # <<>> THEN s.idle /\ ~Sendable(s)
                ELSE s.idle \/ (IsOpen(s) /\ s.pipeline = <<>>)
<1>2. s.pipeline \in Seq(Batch) /\ s.up \in Seq(Requests) /\ s.idle \in BOOLEAN
  BY DEF Store
<1>3. p \in Seq(Batch) /\ (s.pipeline # <<>> => p # <<>>)
  <2> DEFINE q == s.pipeline
  <2>1. q \in Seq(Batch)
    BY <1>2
  <2> HIDE DEF q
  <2>2. q \o added \in Seq(Batch) /\ (q # <<>> => q \o added # <<>>)
    BY <2>1, ConcatProperties, ConcatEqualIffEmpty
  <2>3. QED
    BY <2>2 DEF q
<1>4. u \in Seq(Requests)
  <2>1. WritesOf(added) \in Seq(Requests)
    <3>1. Writes \subseteq Requests
      BY DEF Requests
    <3>2. QED
      BY <3>1, Writing, SeqMonotonic
  <2>2. QED
    BY <1>2, <2>1
<1>5. i \in BOOLEAN
  BY <1>2 DEF Sendable, IsOpen
<1>6. t = [s EXCEPT !.pipeline = p, !.up = u, !.idle = i]
  BY <1>1
<1>7. PipelineOk(p, queue)
  BY <1>1
<1>8. /\ ~IsOpen(s) => u = s.up /\ (i => s.idle)
      /\ IsOpen(s) => u = IF s.handshakeComplete THEN s.up \o WritesOf(added) ELSE s.up
      /\ IsOpen(s) /\ i => IF added # <<>> THEN s.idle /\ ~s.handshakeComplete
                           ELSE s.idle \/ s.pipeline = <<>>
  BY DEF Sendable
<1>9. p = s.pipeline \o added
  OBVIOUS
<1> HIDE DEF p, u, i
<1>10. /\ t \in Store
       /\ t.pipeline = p /\ t.up = u /\ t.idle = i
       /\ t.stream = s.stream /\ t.asked = s.asked /\ t.closeCount = s.closeCount
       /\ t.handshakeComplete = s.handshakeComplete /\ t.token = s.token
  BY <1>3, <1>4, <1>5, <1>6 DEF Store
<1>11. QED
  BY <1>3, <1>7, <1>8, <1>9, <1>10

(* The pipeline is filled while no stream is open. *)
LEMMA FillClosed ==
  ASSUME NEW s \in Store, ClosedOk(s), NEW queue \in Seq(Batch), IdsAscend(queue),
         Len(s.pipeline) <= MaxPendingWrites, Begins(s.pipeline, queue)
  PROVE  LET t == FillWritePipeline(s, queue) IN
           /\ t \in Store /\ ClosedOk(t) /\ PipelineOk(t.pipeline, queue)
           /\ t.handshakeComplete = s.handshakeComplete
           /\ t.closeCount = s.closeCount /\ Starts(s, t)
<1>1. s.pipeline \in Seq(Batch)
  BY DEF Store
<1>2. PICK f : Filled(s, queue, f) /\ FillWritePipeline(s, queue) = StartIfNeeded(f)
  BY <1>1, FillFills
<1>3. /\ f \in Store
      /\ PipelineOk(f.pipeline, queue)
      /\ f.stream = s.stream /\ f.asked = s.asked /\ f.closeCount = s.closeCount
      /\ f.handshakeComplete = s.handshakeComplete
      /\ s.pipeline # <<>> => f.pipeline # <<>>
      /\ ~f.idle /\ f.up = <<>>
  BY <1>2, FilledStore DEF ClosedOk
<1> DEFINE t == StartIfNeeded(f)
<1>4. /\ t \in Store /\ Starts(f, t)
      /\ t.pipeline = f.pipeline /\ t.handshakeComplete = f.handshakeComplete
      /\ t.idle = f.idle /\ t.up = f.up /\ t.closeCount = f.closeCount
      /\ f.pipeline = <<>> => t = f
      /\ ~IsOpen(f) => ~IsOpen(t)
  BY <1>3, StartIfNeededStarts
<1> HIDE DEF t
<1>5. Starts(s, t)
  BY <1>3, <1>4 DEF Starts
<1>6. ~IsOpen(t)
  BY <1>3, <1>4 DEF IsOpen, ClosedOk
<1>7. t.stream \in {"Starting", "Backoff"} => t.pipeline # <<>>
  BY <1>3, <1>4 DEF ClosedOk
<1>8. QED
  BY <1>2, <1>3, <1>4, <1>5, <1>6, <1>7 DEF ClosedOk, t

(* The pipeline is filled while the stream is open. *)
LEMMA FillOpen ==
  ASSUME NEW s \in Store, IsOpen(s), NEW queue \in Seq(Batch), IdsAscend(queue),
         Len(s.pipeline) <= MaxPendingWrites, Begins(s.pipeline, queue),
         NEW w \in Seq(Requests), NEW d \in Seq(Requests), NEW r \in BOOLEAN,
         OpenOk(s, w, d, r)
  PROVE  LET t == FillWritePipeline(s, queue) IN
           /\ t \in Store /\ IsOpen(t) /\ OpenOk(t, w, d, r) /\ PipelineOk(t.pipeline, queue)
           /\ t.closeCount = s.closeCount /\ Starts(s, t)
<1>1. s.pipeline \in Seq(Batch) /\ s.up \in Seq(Requests)
  BY DEF Store
<1>2. PICK t : Filled(s, queue, t) /\ FillWritePipeline(s, queue) = StartIfNeeded(t)
  BY <1>1, FillFills
<1>3. /\ t \in Store
      /\ PipelineOk(t.pipeline, queue)
      /\ t.stream = s.stream /\ t.asked = s.asked /\ t.closeCount = s.closeCount
      /\ t.handshakeComplete = s.handshakeComplete
      /\ s.pipeline # <<>> => t.pipeline # <<>>
  BY <1>2, FilledStore
<1>4. PICK added \in Seq(Batch) :
        /\ t.pipeline = s.pipeline \o added
        /\ t.up = IF s.handshakeComplete THEN s.up \o WritesOf(added) ELSE s.up
        /\ t.idle => IF added # <<>> THEN s.idle /\ ~s.handshakeComplete
                     ELSE s.idle \/ s.pipeline = <<>>
  BY <1>2, FilledStore
<1>5. IsOpen(t)
  BY <1>3 DEF IsOpen
<1>6. FillWritePipeline(s, queue) = t
  BY <1>2, <1>3, <1>5, StartIfNeededStarts
<1>7. t.idle => t.handshakeComplete /\ t.pipeline = <<>>
  <2> SUFFICES ASSUME t.idle  PROVE  t.handshakeComplete /\ t.pipeline = <<>>
    OBVIOUS
  <2>1. s.idle => s.handshakeComplete /\ s.pipeline = <<>>
    BY DEF OpenOk
  <2>2. added = <<>>
    BY <1>4, <2>1
  <2>3. s.pipeline = <<>>
    BY <1>4, <2>1, <2>2
  <2>4. t.pipeline = <<>>
    BY <1>4, <2>2, <2>3
  <2>5. s.handshakeComplete
    BY <2>3 DEF OpenOk
  <2>6. QED
    BY <1>3, <2>4, <2>5
<1>8. CASE s.handshakeComplete
  <2>1. Carries(s.pipeline, s.up, w, d, Lost(r)) /\ Lost(r) \in {0, 1}
    BY <1>8 DEF OpenOk, Lost
  <2>2. Carries(t.pipeline, t.up, w, d, Lost(r))
    BY <1>1, <1>4, <1>8, <2>1, CarriesMore
  <2>3. QED
    BY <1>3, <1>5, <1>6, <1>7, <1>8, <2>2 DEF OpenOk, Starts
<1>9. CASE ~s.handshakeComplete
  <2>1. t.up = s.up
    BY <1>4, <1>9
  <2>2. QED
    BY <1>3, <1>5, <1>6, <1>7, <1>9, <2>1 DEF OpenOk, Starts
<1>10. QED
  BY <1>8, <1>9

LEMMA ClosingStream ==
  ASSUME NEW s \in Store, NEW state \in {"Initial", "Error"}
  PROVE  LET t == Close(s, state) IN
           /\ t \in Store /\ ClosedOk(t) /\ t.stream = state /\ t.pipeline = s.pipeline
           /\ t.closeCount = s.closeCount + 1 /\ t.asked = s.asked
           /\ t.handshakeComplete = s.handshakeComplete
<1> DEFINE count == s.closeCount + 1
           t     == Close(s, state)
<1>1. count \in Nat /\ state \in StreamStates /\ <<>> \in Seq(Requests)
  BY DEF Store, StreamStates
<1>2. t = [s EXCEPT !.stream = state, !.closeCount = count, !.idle = FALSE, !.up = <<>>]
  BY DEF Close, Store
<1> HIDE DEF count, t
<1>3. /\ t \in Store /\ t.stream = state /\ t.pipeline = s.pipeline
      /\ t.closeCount = count /\ t.asked = s.asked /\ ~t.idle /\ t.up = <<>>
      /\ t.handshakeComplete = s.handshakeComplete
  BY <1>1, <1>2 DEF Store
<1>4. QED
  BY <1>3 DEF ClosedOk, IsOpen, t, count

LEMMA Forgetting ==
  ASSUME NEW s \in Store
  PROVE  LET t == ForgetHandshake(s) IN
           /\ t \in Store /\ ~t.handshakeComplete
           /\ t.stream = s.stream /\ t.pipeline = s.pipeline /\ t.idle = s.idle /\ t.up = s.up
           /\ t.closeCount = s.closeCount /\ t.asked = s.asked
           /\ ClosedOk(s) => ClosedOk(t)
BY DEF ForgetHandshake, Store, ClosedOk, IsOpen

(* A start in between does not show in what came of the store. *)
Restarts(s, t) ==
  /\ t.closeCount = IF IsStarted(s) THEN s.closeCount + 1 ELSE s.closeCount
  /\ IF t.stream = "Starting"
     THEN t.asked = s.asked \cup {[closeCount |-> t.closeCount, stale |-> FALSE]}
     ELSE t.asked = s.asked /\ t.stream \in {"Initial", "Error", "Backoff"}

LEMMA RestartRestarts ==
  ASSUME NEW s \in Store, NEW w, NEW d, NEW r, StreamOk(s, w, d, r),
         NEW queue \in Seq(Batch), IdsAscend(queue)
  PROVE  LET t == RestartNetwork(s, queue) IN
           /\ t \in Store /\ ClosedOk(t) /\ ~t.handshakeComplete
           /\ PipelineOk(t.pipeline, queue) /\ Restarts(s, t)
<1> DEFINE stopped == IF IsStarted(s) THEN ForgetHandshake(Close(s, "Initial")) ELSE s
           empty   == [stopped EXCEPT !.pipeline = <<>>, !.stream = "Initial"]
           t       == FillWritePipeline(empty, queue)
<1>1. /\ stopped \in Store /\ ~stopped.handshakeComplete /\ ~stopped.idle /\ stopped.up = <<>>
      /\ stopped.asked = s.asked
      /\ stopped.closeCount = IF IsStarted(s) THEN s.closeCount + 1 ELSE s.closeCount
  <2>1. CASE IsStarted(s)
    BY <2>1, ClosingStream, Forgetting DEF ClosedOk
  <2>2. CASE ~IsStarted(s)
    BY <2>2 DEF StreamOk, ClosedOk, IsStarted, IsOpen
  <2>3. QED
    BY <2>1, <2>2
<1>2. RestartNetwork(s, queue) = t
  BY DEF RestartNetwork
<1> HIDE DEF stopped
<1>3. <<>> \in Seq(Batch) /\ "Initial" \in StreamStates
  BY DEF StreamStates
<1>4. /\ empty \in Store /\ ~empty.handshakeComplete /\ ~empty.idle /\ empty.up = <<>>
      /\ empty.stream = "Initial" /\ empty.pipeline = <<>>
      /\ empty.asked = s.asked /\ empty.closeCount = stopped.closeCount
  BY <1>1, <1>3 DEF Store
<1> HIDE DEF empty
<1>5. ClosedOk(empty)
  BY <1>4 DEF ClosedOk, IsOpen
<1>6. Len(empty.pipeline) <= MaxPendingWrites /\ Begins(empty.pipeline, queue)
  BY <1>4, PipelineHasRoom DEF Begins
<1>7. /\ t \in Store /\ ClosedOk(t) /\ PipelineOk(t.pipeline, queue)
      /\ t.handshakeComplete = empty.handshakeComplete
      /\ t.closeCount = empty.closeCount /\ Starts(empty, t)
  BY <1>4, <1>5, <1>6, FillClosed
<1> HIDE DEF t
<1>8. Restarts(s, t)
  BY <1>1, <1>4, <1>7 DEF Starts, Restarts
<1>9. QED
  BY <1>2, <1>4, <1>7, <1>8

--------------------------------------------------------------------------------
(* The mutation queues. *)

(* Of the ids up to any bound one is the highest, and they have a bound. *)
Ids(queues) == {0} \cup UNION {{b.id : b \in ToSet(queues[u])} : u \in Owners}
HasHighest(ids) ==
  /\ ids \subseteq Nat
  /\ \E n \in Nat : \A k \in ids : k <= n
  /\ \A n \in Nat : \E m \in ids : m <= n /\ \A k \in ids : k <= n => k <= m

Requeued(queues, u, queue, after) == after = [queues EXCEPT ![u] = queue]

QueueOk(queues, sync, next) ==
  /\ queues \in [Owners -> Seq(Batch)]
  /\ \A u \in Owners : IdsAscend(queues[u])
  /\ next \in Nat \ {0}
  /\ \A i \in DOMAIN queues[sync] : queues[sync][i].id < next
  /\ HasHighest(Ids(queues))

LEMMA AddingId ==
  ASSUME NEW ids, HasHighest(ids), NEW id \in Nat, NEW more, more = ids \cup {id}
  PROVE  HasHighest(more)
<1>1. PICK n \in Nat : \A k \in ids : k <= n
  BY DEF HasHighest
<1>2. \E b \in Nat : \A k \in more : k <= b
  <2>1. /\ n + id \in Nat /\ id <= n + id
        /\ \A k \in ids : k <= n + id
    BY <1>1 DEF HasHighest
  <2>2. QED
    BY <2>1
<1>3. ASSUME NEW b \in Nat
      PROVE  \E m \in more : m <= b /\ \A k \in more : k <= b => k <= m
  <2>1. PICK m \in ids : m <= b /\ \A k \in ids : k <= b => k <= m
    BY DEF HasHighest
  <2>2. CASE id <= b /\ m <= id
    <3>1. \A k \in more : k <= b => k <= id
      BY <2>1, <2>2 DEF HasHighest
    <3>2. QED
      BY <2>2, <3>1
  <2>3. CASE ~(id <= b /\ m <= id)
    BY <2>1, <2>3 DEF HasHighest
  <2>4. QED
    BY <2>2, <2>3
<1>4. QED
  BY <1>2, <1>3 DEF HasHighest

LEMMA RemovingId ==
  ASSUME NEW ids, HasHighest(ids), NEW id \in Nat \ {0}, NEW less, less = ids \ {id}
  PROVE  HasHighest(less)
<1>1. ASSUME NEW b \in Nat
      PROVE  \E m \in less : m <= b /\ \A k \in less : k <= b => k <= m
  <2>1. PICK m \in ids : m <= b /\ \A k \in ids : k <= b => k <= m
    BY DEF HasHighest
  <2>2. CASE m # id
    BY <2>1, <2>2
  <2>3. CASE m = id
    <3>1. id - 1 \in Nat
      OBVIOUS
    <3>2. PICK l \in ids : l <= id - 1 /\ \A k \in ids : k <= id - 1 => k <= l
      BY <3>1 DEF HasHighest
    <3>3. l \in less /\ l <= b
      BY <2>1, <2>3, <3>2 DEF HasHighest
    <3>4. ASSUME NEW k \in less, k <= b  PROVE  k <= l
      <4>1. k \in Nat /\ k <= id /\ k # id
        BY <2>1, <2>3, <3>4 DEF HasHighest
      <4>2. QED
        BY <3>2, <4>1
    <3>5. QED
      BY <3>3, <3>4
  <2>4. QED
    BY <2>2, <2>3
<1>2. QED
  BY <1>1 DEF HasHighest

LEMMA HighestId ==
  ASSUME NEW ids, HasHighest(ids)
  PROVE  Max(ids) \in Nat /\ \A k \in ids : k <= Max(ids)
<1>1. PICK n \in Nat : \A k \in ids : k <= n
  BY DEF HasHighest
<1>2. PICK m \in ids : \A k \in ids : k <= m
  BY <1>1 DEF HasHighest
<1>3. \E x \in ids : \A y \in ids : x >= y
  BY <1>2 DEF HasHighest
<1>4. Max(ids) \in ids /\ \A y \in ids : Max(ids) >= y
  BY <1>3 DEF Max
<1>5. QED
  BY <1>4 DEF HasHighest

LEMMA IdsAreOfBatches ==
  ASSUME NEW queues \in [Owners -> Seq(Batch)]
  PROVE  \A k : k \in Ids(queues) <=>
                  k = 0 \/ \E u \in Owners : \E i \in DOMAIN queues[u] : k = queues[u][i].id
BY DEF Ids, ToSet

LEMMA BatchesAreTyped ==
  ASSUME NEW queues \in [Owners -> Seq(Batch)], NEW u \in Owners
  PROVE  /\ queues[u] \in Seq(Batch) /\ Len(queues[u]) \in Nat
         /\ DOMAIN queues[u] = 1..Len(queues[u])
         /\ \A i \in DOMAIN queues[u] :
              queues[u][i] \in Batch /\ queues[u][i].id \in Nat \ {0} /\ queues[u][i].write \in Writes
<1>1. queues[u] \in Seq(Batch)
  OBVIOUS
<1>2. \A b \in Batch : b.id \in Nat \ {0} /\ b.write \in Writes
  BY DEF Batch
<1>3. QED
  BY <1>1, <1>2

(* A write joins the open queue under the next id. *)
LEMMA EnqueueOk ==
  ASSUME NEW queues, NEW u \in Owners, NEW next, QueueOk(queues, u, next), NEW b \in Batch,
         b.id = next, NEW after, Requeued(queues, u, Append(queues[u], b), after)
  PROVE  /\ QueueOk(after, u, next + 1)
         /\ after[u] = Append(queues[u], b)
         /\ \A p : Begins(p, queues[u]) /\ Len(p) \in Nat => Begins(p, after[u])
<1> DEFINE q == queues[u]
           longer == Append(q, b)
<1>1. /\ queues \in [Owners -> Seq(Batch)] /\ q \in Seq(Batch) /\ next \in Nat \ {0}
      /\ Len(q) \in Nat /\ DOMAIN q = 1..Len(q)
      /\ \A i \in DOMAIN q : q[i].id \in Nat \ {0} /\ q[i].id < next
  BY BatchesAreTyped DEF QueueOk
<1>2. /\ longer \in Seq(Batch) /\ Len(longer) = Len(q) + 1
      /\ DOMAIN longer = 1..(Len(q) + 1)
      /\ longer[Len(q) + 1] = b
      /\ \A i \in DOMAIN q : longer[i] = q[i]
  BY <1>1, TailAndAppend
<1>3. /\ after \in [Owners -> Seq(Batch)]
      /\ after[u] = longer
      /\ \A v \in Owners \ {u} : after[v] = queues[v]
  BY <1>1, <1>2 DEF Requeued
<1> HIDE DEF longer
<1>a. \A k : k \in Ids(after) <=>
                k = 0 \/ \E v \in Owners : \E i \in DOMAIN after[v] : k = after[v][i].id
  <2>1. after \in [Owners -> Seq(Batch)]
    BY <1>3
  <2>2. QED
    BY <2>1, IdsAreOfBatches
<1>4. IdsAscend(longer)
  <2> SUFFICES ASSUME NEW i \in DOMAIN longer, NEW j \in DOMAIN longer, i < j
               PROVE  longer[i].id < longer[j].id
    BY DEF IdsAscend
  <2>1. i \in DOMAIN q
    BY <1>1, <1>2
  <2>2. CASE j = Len(q) + 1
    BY <1>1, <1>2, <2>1, <2>2
  <2>3. CASE j # Len(q) + 1
    <3>1. j \in DOMAIN q
      BY <1>1, <1>2, <2>3
    <3>2. q[i].id < q[j].id
      BY <2>1, <3>1 DEF QueueOk, IdsAscend
    <3>3. QED
      BY <1>2, <2>1, <3>1, <3>2
  <2>4. QED
    BY <2>2, <2>3
<1>5. \A i \in DOMAIN longer : longer[i].id < next + 1
  <2> SUFFICES ASSUME NEW i \in DOMAIN longer  PROVE  longer[i].id < next + 1
    OBVIOUS
  <2>1. CASE i = Len(q) + 1
    BY <1>1, <1>2, <2>1
  <2>2. CASE i # Len(q) + 1
    <3>1. i \in DOMAIN q /\ longer[i] = q[i]
      BY <1>1, <1>2, <2>2
    <3>2. QED
      BY <1>1, <3>1
  <2>3. QED
    BY <2>1, <2>2
<1>6. HasHighest(Ids(after))
  <2>1. ASSUME NEW k \in Ids(after)  PROVE  k \in Ids(queues) \cup {next}
    <3>1. CASE k = 0
      BY <1>1, <3>1, IdsAreOfBatches
    <3>2. CASE k # 0
      <4>0. PICK v \in Owners : \E i \in DOMAIN after[v] : k = after[v][i].id
        BY <1>a, <2>1, <3>2
      <4>1. PICK i \in DOMAIN after[v] : k = after[v][i].id
        BY <4>0
      <4>2. CASE v # u
        BY <1>1, <1>3, <4>1, <4>2, IdsAreOfBatches
      <4>3. CASE v = u /\ i = Len(q) + 1
        BY <1>2, <1>3, <4>1, <4>3
      <4>4. CASE v = u /\ i # Len(q) + 1
        <5>1. i \in DOMAIN q /\ k = q[i].id
          BY <1>1, <1>2, <1>3, <4>1, <4>4
        <5>2. QED
          BY <1>1, <5>1, IdsAreOfBatches
      <4>5. QED
        BY <4>2, <4>3, <4>4
    <3>3. QED
      BY <3>1, <3>2
  <2>2. ASSUME NEW k \in Ids(queues)  PROVE  k \in Ids(after)
    <3>1. CASE k = 0
      BY <1>3, <3>1, IdsAreOfBatches
    <3>2. CASE k # 0
      <4>0. PICK v \in Owners : \E i \in DOMAIN queues[v] : k = queues[v][i].id
        BY <1>1, <2>2, <3>2, IdsAreOfBatches
      <4>1. PICK i \in DOMAIN queues[v] : k = queues[v][i].id
        BY <4>0
      <4>2. i \in DOMAIN after[v] /\ k = after[v][i].id
        <5>1. CASE v = u
          <6>1. i \in DOMAIN q /\ k = q[i].id
            BY <4>1, <5>1
          <6>2. i \in DOMAIN longer /\ longer[i] = q[i]
            BY <1>1, <1>2, <6>1
          <6>3. QED
            BY <1>3, <5>1, <6>1, <6>2
        <5>2. CASE v # u
          BY <1>3, <4>1, <5>2
        <5>3. QED
          BY <5>1, <5>2
      <4>3. QED
        BY <1>3, <4>2, IdsAreOfBatches
    <3>3. QED
      BY <3>1, <3>2
  <2>3. next \in Ids(after)
    <3>1. Len(q) + 1 \in DOMAIN after[u] /\ next = after[u][Len(q) + 1].id
      BY <1>1, <1>2, <1>3
    <3>2. QED
      BY <1>3, <3>1, IdsAreOfBatches
  <2>4. Ids(after) = Ids(queues) \cup {next}
    BY <2>1, <2>2, <2>3
  <2>5. QED
    BY <1>1, <2>4, AddingId DEF QueueOk
<1>7. QueueOk(after, u, next + 1)
  <2>1. \A v \in Owners : IdsAscend(after[v])
    BY <1>3, <1>4 DEF QueueOk
  <2>2. \A i \in DOMAIN after[u] : after[u][i].id < next + 1
    BY <1>3, <1>5
  <2>3. after \in [Owners -> Seq(Batch)] /\ next + 1 \in Nat \ {0}
    BY <1>1, <1>3
  <2>4. QED
    BY <1>6, <2>1, <2>2, <2>3 DEF QueueOk
<1>8. ASSUME NEW p, Begins(p, q), Len(p) \in Nat  PROVE  Begins(p, longer)
  <2>1. \A i \in 1..Len(p) : i \in DOMAIN q /\ p[i] = q[i]
    BY <1>1, <1>8 DEF Begins
  <2>2. Len(p) <= Len(longer)
    BY <1>1, <1>2, <1>8 DEF Begins
  <2>3. QED
    BY <1>2, <2>1, <2>2 DEF Begins
<1>9. QED
  BY <1>3, <1>7, <1>8 DEF longer

(* The first batch of the open queue is answered. *)
LEMMA DequeueOk ==
  ASSUME NEW queues, NEW u \in Owners, NEW next, QueueOk(queues, u, next), queues[u] # <<>>,
         NEW after, Requeued(queues, u, Tail(queues[u]), after)
  PROVE  QueueOk(after, u, next) /\ after[u] = Tail(queues[u])
<1> DEFINE q == queues[u]
<1>1. /\ queues \in [Owners -> Seq(Batch)] /\ q \in Seq(Batch) /\ next \in Nat \ {0}
      /\ Len(q) \in Nat \ {0} /\ DOMAIN q = 1..Len(q)
      /\ \A i \in DOMAIN q : q[i].id \in Nat \ {0} /\ q[i].id < next
  <2>1. Len(q) # 0
    BY BatchesAreTyped DEF QueueOk
  <2>2. QED
    BY <2>1, BatchesAreTyped DEF QueueOk
<1>2. /\ Tail(q) \in Seq(Batch)
      /\ DOMAIN Tail(q) = 1..(Len(q) - 1)
      /\ \A i \in DOMAIN Tail(q) : i + 1 \in DOMAIN q /\ Tail(q)[i] = q[i + 1]
  BY <1>1, TailAndAppend
<1>3. /\ after \in [Owners -> Seq(Batch)]
      /\ after[u] = Tail(q)
      /\ \A v \in Owners \ {u} : after[v] = queues[v]
  BY <1>1, <1>2 DEF Requeued
<1>a. \A k : k \in Ids(after) <=>
                k = 0 \/ \E v \in Owners : \E i \in DOMAIN after[v] : k = after[v][i].id
  <2>1. after \in [Owners -> Seq(Batch)]
    BY <1>3
  <2>2. QED
    BY <2>1, IdsAreOfBatches
<1>4. IdsAscend(Tail(q))
  <2> SUFFICES ASSUME NEW i \in DOMAIN Tail(q), NEW j \in DOMAIN Tail(q), i < j
               PROVE  Tail(q)[i].id < Tail(q)[j].id
    BY DEF IdsAscend
  <2>1. i + 1 \in DOMAIN q /\ j + 1 \in DOMAIN q /\ i + 1 < j + 1
    BY <1>1, <1>2
  <2>2. q[i + 1].id < q[j + 1].id
    BY <2>1 DEF QueueOk, IdsAscend
  <2>3. QED
    BY <1>2, <2>2
<1>5. HasHighest(Ids(after))
  <2> DEFINE id == q[1].id
  <2>0. 1 \in DOMAIN q
    BY <1>1
  <2>1. ASSUME NEW k \in Ids(after)  PROVE  k \in Ids(queues)
    <3>1. CASE k = 0
      BY <1>1, <3>1, IdsAreOfBatches
    <3>2. CASE k # 0
      <4>0. PICK v \in Owners : \E i \in DOMAIN after[v] : k = after[v][i].id
        BY <1>a, <2>1, <3>2
      <4>1. PICK i \in DOMAIN after[v] : k = after[v][i].id
        BY <4>0
      <4>2. CASE v # u
        BY <1>1, <1>3, <4>1, <4>2, IdsAreOfBatches
      <4>3. CASE v = u
        <5>1. i + 1 \in DOMAIN q /\ k = q[i + 1].id
          BY <1>2, <1>3, <4>1, <4>3
        <5>2. QED
          BY <1>1, <5>1, IdsAreOfBatches
      <4>4. QED
        BY <4>2, <4>3
    <3>3. QED
      BY <3>1, <3>2
  <2>2. ASSUME NEW k \in Ids(queues), k # id  PROVE  k \in Ids(after)
    <3>1. CASE k = 0
      BY <1>3, <3>1, IdsAreOfBatches
    <3>2. CASE k # 0
      <4>0. PICK v \in Owners : \E i \in DOMAIN queues[v] : k = queues[v][i].id
        BY <1>1, <2>2, <3>2, IdsAreOfBatches
      <4>1. PICK i \in DOMAIN queues[v] : k = queues[v][i].id
        BY <4>0
      <4>2. CASE v # u
        BY <1>3, <4>1, <4>2, IdsAreOfBatches
      <4>3. CASE v = u
        <5>1. i # 1
          BY <2>2, <4>1, <4>3
        <5>2. i - 1 \in DOMAIN Tail(q) /\ Tail(q)[i - 1] = q[i]
          BY <1>1, <1>2, <4>1, <4>3, <5>1
        <5>3. QED
          BY <1>3, <4>1, <4>3, <5>2, IdsAreOfBatches
      <4>4. QED
        BY <4>2, <4>3
    <3>3. QED
      BY <3>1, <3>2
  <2>3. Ids(after) = Ids(queues) \/ Ids(after) = Ids(queues) \ {id}
    <3> DEFINE before == Ids(queues)
               later  == Ids(after)
    <3> HIDE DEF before, later, id
    <3>1. (\A k \in later : k \in before) /\ (\A k \in before : k # id => k \in later)
      BY <2>1, <2>2 DEF before, later
    <3>2. later = before \/ later = before \ {id}
      BY <3>1
    <3>3. QED
      BY <3>2 DEF before, later
  <2>4. id \in Nat \ {0}
    BY <1>1, <2>0
  <2>5. QED
    BY <2>3, <2>4, RemovingId DEF QueueOk
<1>6. \A i \in DOMAIN Tail(q) : Tail(q)[i].id < next
  BY <1>1, <1>2
<1>7. \A v \in Owners : IdsAscend(after[v])
  BY <1>3, <1>4 DEF QueueOk
<1>8. QED
  BY <1>1, <1>3, <1>5, <1>6, <1>7 DEF QueueOk

(* RemoveBatch of the first batch. *)
LEMMA RemovingFirst ==
  ASSUME NEW q \in Seq(Batch), IdsAscend(q), q # <<>>, NEW position,
         position = CHOOSE i \in DOMAIN q : q[i].id = Head(q).id
  PROVE  RemoveAt(q, position) = Tail(q)
<1>1. /\ Len(q) \in Nat \ {0} /\ DOMAIN q = 1..Len(q) /\ 1 \in DOMAIN q /\ Head(q) = q[1]
  <2>1. Len(q) # 0
    OBVIOUS
  <2>2. QED
    BY <2>1
<1>2. \A i \in DOMAIN q : q[i] \in Batch
  BY <1>1
<1>3. \A i \in DOMAIN q : q[i].id \in Nat
  <2>1. \A b \in Batch : b.id \in Nat
    BY DEF Batch
  <2>2. QED
    BY <1>2, <2>1
<1>4. ASSUME NEW i \in DOMAIN q, q[i].id = q[1].id  PROVE  i = 1
  BY <1>1, <1>3, <1>4 DEF IdsAscend
<1>5. position = 1
  BY <1>1, <1>4
<1>6. SubSeq(q, 1, 0) = <<>>
  BY SubSeqEmpty
<1>7. Tail(q) = SubSeq(q, 2, Len(q)) /\ Tail(q) \in Seq(Batch)
  BY <1>1, TailIsSubSeq, TailAndAppend
<1>8. <<>> \o Tail(q) = Tail(q)
  BY <1>7, ConcatEmptySeq
<1>9. RemoveAt(q, 1) = SubSeq(q, 1, 0) \o SubSeq(q, 2, Len(q))
  BY DEF RemoveAt
<1>10. QED
  BY <1>5, <1>6, <1>7, <1>8, <1>9

(* The queue of another user is opened. *)
LEMMA SwitchOk ==
  ASSUME QueueOk(mutationQueue, syncUser, nextBatchId), NEW u \in Owners
  PROVE  QueueOk(mutationQueue, u, NextBatchId)
<1>1. NextBatchId = Max(Ids(mutationQueue)) + 1
  BY DEF NextBatchId, Ids
<1>2. HasHighest(Ids(mutationQueue)) /\ mutationQueue \in [Owners -> Seq(Batch)]
  BY DEF QueueOk
<1> DEFINE highest == Max(Ids(mutationQueue))
<1>3. highest \in Nat /\ \A k \in Ids(mutationQueue) : k <= highest
  BY <1>2, HighestId
<1>4. \A i \in DOMAIN mutationQueue[u] :
        mutationQueue[u][i].id \in Nat /\ mutationQueue[u][i].id <= highest
  BY <1>2, <1>3, BatchesAreTyped, IdsAreOfBatches
<1> HIDE DEF highest
<1>5. highest + 1 \in Nat \ {0} /\ \A i \in DOMAIN mutationQueue[u] :
        mutationQueue[u][i].id < highest + 1
  BY <1>3, <1>4
<1>6. QED
  BY <1>1, <1>2, <1>5 DEF QueueOk, highest

--------------------------------------------------------------------------------
(* Requests for a token: the store waits for one, Auth has posted one, and *)
(* one is to resume the start of the stream.                               *)

AskedFor(s, count)      == {q \in s.asked : q.closeCount = count}
Posted(main, count)     == {i \in DOMAIN main : main[i].block = "getToken"
                                                  /\ main[i].request.closeCount = count}
Resuming(worker, count) == {i \in DOMAIN worker : worker[i].op = "resumeStart"
                                                    /\ worker[i].closeCount = count}

AtMostOne(S) == \A x, y \in S : x = y

(* Of the present start of the stream there is one at most, and there is   *)
(* one only while the stream waits for it; of starts to come there is none.*)
TokensOk(s, main, worker) ==
  /\ \A count \in Nat : count > s.closeCount =>
       AskedFor(s, count) = {} /\ Posted(main, count) = {} /\ Resuming(worker, count) = {}
  /\ s.stream # "Starting" =>
       /\ AskedFor(s, s.closeCount) = {}
       /\ Posted(main, s.closeCount) = {}
       /\ Resuming(worker, s.closeCount) = {}
  /\ AtMostOne(AskedFor(s, s.closeCount))
  /\ AtMostOne(Posted(main, s.closeCount))
  /\ AtMostOne(Resuming(worker, s.closeCount))
  /\ \/ AskedFor(s, s.closeCount) = {} /\ Posted(main, s.closeCount) = {}
     \/ AskedFor(s, s.closeCount) = {} /\ Resuming(worker, s.closeCount) = {}
     \/ Posted(main, s.closeCount) = {} /\ Resuming(worker, s.closeCount) = {}

LEMMA StartingAsksOnce ==
  ASSUME NEW s \in Store, NEW t \in Store, NEW main, NEW worker, TokensOk(s, main, worker),
         t.closeCount = s.closeCount, Starts(s, t)
  PROVE  TokensOk(t, main, worker)
<1> DEFINE request == [closeCount |-> s.closeCount, stale |-> FALSE]
<1>1. CASE t.asked = s.asked /\ (t.stream = s.stream \/ s.stream = "Error")
  <2>1. \A count : AskedFor(t, count) = AskedFor(s, count)
    BY <1>1 DEF AskedFor
  <2>2. s.stream # "Starting" \/ t.stream = "Starting"
    BY <1>1
  <2>3. QED
    BY <2>1, <2>2 DEF TokensOk
<1>2. CASE s.stream = "Initial" /\ t.stream = "Starting" /\ t.asked = s.asked \cup {request}
  <2>0. s.closeCount \in Nat /\ request.closeCount = s.closeCount
    BY DEF Store
  <2> HIDE DEF request
  <2>1. \A count : count # s.closeCount => AskedFor(t, count) = AskedFor(s, count)
    BY <1>2, <2>0 DEF AskedFor
  <2>2. AskedFor(s, s.closeCount) = {}
    BY <1>2 DEF TokensOk
  <2>3. AskedFor(t, s.closeCount) = {request}
    BY <1>2, <2>0, <2>2 DEF AskedFor
  <2>4. AtMostOne(AskedFor(t, s.closeCount))
    BY <2>3 DEF AtMostOne
  <2>5. \A count \in Nat : count > s.closeCount => AskedFor(t, count) = AskedFor(s, count)
    BY <2>0, <2>1
  <2>6. QED
    BY <1>2, <2>4, <2>5 DEF TokensOk
<1>3. QED
  BY <1>1, <1>2 DEF Starts

(* A new close count has nothing to do with the requests of before. *)
LEMMA ClosingForgetsTokens ==
  ASSUME NEW s \in Store, NEW t \in Store, NEW main, NEW worker, TokensOk(s, main, worker),
         t.closeCount = s.closeCount + 1, t.asked = s.asked
  PROVE  TokensOk(t, main, worker)
<1>1. s.closeCount \in Nat /\ t.closeCount \in Nat /\ t.closeCount > s.closeCount
  BY DEF Store
<1>2. \A count : AskedFor(t, count) = AskedFor(s, count)
  BY DEF AskedFor
<1>3. \A count \in Nat : count > t.closeCount => count > s.closeCount
  BY <1>1
<1>4. AtMostOne({})
  BY DEF AtMostOne
<1>5. \A count \in Nat : count >= t.closeCount =>
        AskedFor(t, count) = {} /\ Posted(main, count) = {} /\ Resuming(worker, count) = {}
  <2>1. \A count \in Nat : count >= t.closeCount => count > s.closeCount
    BY <1>1
  <2>2. QED
    BY <1>2, <2>1 DEF TokensOk
<1>6. \A count \in Nat : count > t.closeCount => count >= t.closeCount
  BY <1>1
<1>7. t.closeCount >= t.closeCount
  BY <1>1
<1>8. QED
  BY <1>1, <1>4, <1>5, <1>6, <1>7 DEF TokensOk

LEMMA RestartingAsksOnce ==
  ASSUME NEW s \in Store, NEW t \in Store, NEW main, NEW worker, TokensOk(s, main, worker),
         Restarts(s, t)
  PROVE  TokensOk(t, main, worker)
<1> DEFINE between == [s EXCEPT !.stream = "Initial", !.closeCount = t.closeCount]
<1>1. /\ between \in Store /\ between.closeCount = t.closeCount /\ between.asked = s.asked
      /\ between.stream = "Initial"
  BY DEF Store, StreamStates
<1> HIDE DEF between
<1>2. TokensOk(between, main, worker)
  <2>1. CASE IsStarted(s)
    BY <1>1, <2>1, ClosingForgetsTokens DEF Restarts
  <2>2. CASE ~IsStarted(s)
    <3>1. \A count : AskedFor(between, count) = AskedFor(s, count)
      BY <1>1 DEF AskedFor
    <3>2. s.stream # "Starting" /\ t.closeCount = s.closeCount
      BY <2>2 DEF Restarts, IsStarted
    <3>3. QED
      BY <1>1, <3>1, <3>2 DEF TokensOk
  <2>3. QED
    BY <2>1, <2>2
<1>3. CASE t.stream = "Starting"
  <2>1. Starts(between, t)
    BY <1>1, <1>3 DEF Starts, Restarts
  <2>2. QED
    BY <1>1, <1>2, <2>1, StartingAsksOnce
<1>4. CASE t.stream # "Starting"
  <2>1. \A count : AskedFor(t, count) = AskedFor(between, count)
    BY <1>1, <1>4 DEF AskedFor, Restarts
  <2>2. QED
    BY <1>1, <1>2, <1>4, <2>1 DEF TokensOk
<1>5. QED
  BY <1>3, <1>4

LEMMA PostingTail ==
  ASSUME NEW main \in Seq(Block), main # <<>>, NEW count
  PROVE  /\ \A i \in Posted(Tail(main), count) : i + 1 \in Posted(main, count)
         /\ Posted(main, count) = {} => Posted(Tail(main), count) = {}
         /\ AtMostOne(Posted(main, count)) => AtMostOne(Posted(Tail(main), count))
         /\ Head(main).block = "getToken" /\ Head(main).request.closeCount = count =>
              /\ Posted(main, count) # {}
              /\ AtMostOne(Posted(main, count)) => Posted(Tail(main), count) = {}
<1>1. /\ 1 \in DOMAIN main /\ Head(main) = main[1]
      /\ \A i \in DOMAIN Tail(main) : i \in Nat \ {0} /\ i + 1 \in DOMAIN main
                                        /\ Tail(main)[i] = main[i + 1]
  BY TailAndAppend
<1>2. \A i \in Posted(Tail(main), count) : i \in Nat \ {0} /\ i + 1 \in Posted(main, count)
  BY <1>1 DEF Posted
<1>3. AtMostOne(Posted(main, count)) => AtMostOne(Posted(Tail(main), count))
  <2> SUFFICES ASSUME AtMostOne(Posted(main, count)),
                      NEW x \in Posted(Tail(main), count), NEW y \in Posted(Tail(main), count)
               PROVE  x = y
    BY DEF AtMostOne
  <2>1. x + 1 = y + 1 /\ x \in Nat /\ y \in Nat
    BY <1>2 DEF AtMostOne
  <2>2. QED
    BY <2>1
<1>4. ASSUME Head(main).block = "getToken", Head(main).request.closeCount = count
      PROVE  /\ 1 \in Posted(main, count)
             /\ AtMostOne(Posted(main, count)) => Posted(Tail(main), count) = {}
  <2>1. 1 \in Posted(main, count)
    BY <1>1, <1>4 DEF Posted
  <2>2. ASSUME AtMostOne(Posted(main, count)), NEW i \in Posted(Tail(main), count)  PROVE  FALSE
    <3>1. i \in Nat \ {0} /\ i + 1 = 1
      BY <1>2, <2>1, <2>2 DEF AtMostOne
    <3>2. QED
      BY <3>1
  <2>3. QED
    BY <2>1, <2>2
<1>5. QED
  BY <1>2, <1>3, <1>4

LEMMA PostingMore ==
  ASSUME NEW main \in Seq(Block), NEW block \in Block, NEW count
  PROVE  /\ ~(block.block = "getToken" /\ block.request.closeCount = count)
              => Posted(Append(main, block), count) = Posted(main, count)
         /\ Posted(main, count) = {} => AtMostOne(Posted(Append(main, block), count))
<1> DEFINE longer == Append(main, block)
<1>1. /\ Len(main) \in Nat /\ DOMAIN main = 1..Len(main)
      /\ DOMAIN longer = 1..(Len(main) + 1)
      /\ longer[Len(main) + 1] = block
      /\ \A i \in DOMAIN main : longer[i] = main[i]
  BY TailAndAppend
<1> HIDE DEF longer
<1>2. \A i \in DOMAIN longer : i = Len(main) + 1 \/ i \in DOMAIN main
  BY <1>1
<1>3. \A i \in DOMAIN main : i \in DOMAIN longer
  BY <1>1
<1>4. \A i \in Posted(longer, count) : i = Len(main) + 1 \/ i \in Posted(main, count)
  BY <1>1, <1>2 DEF Posted
<1>5. \A i \in Posted(main, count) : i \in Posted(longer, count)
  BY <1>1, <1>3 DEF Posted
<1>6. Len(main) + 1 \in Posted(longer, count)
        => block.block = "getToken" /\ block.request.closeCount = count
  BY <1>1 DEF Posted
<1>7. ASSUME ~(block.block = "getToken" /\ block.request.closeCount = count)
      PROVE  Posted(longer, count) = Posted(main, count)
  BY <1>4, <1>5, <1>6, <1>7
<1>8. ASSUME Posted(main, count) = {}
      PROVE  AtMostOne(Posted(longer, count))
  BY <1>4, <1>8 DEF AtMostOne
<1>9. QED
  BY <1>7, <1>8 DEF longer

LEMMA PostingStale ==
  ASSUME NEW main \in Seq(Block), NEW count
  PROVE  Posted(TokensStale(main), count) = Posted(main, count)
<1> DEFINE marked == TokensStale(main)
<1>1. DOMAIN marked = DOMAIN main
  BY DEF TokensStale
<1>2. ASSUME NEW i \in DOMAIN main
      PROVE  i \in Posted(marked, count) <=> i \in Posted(main, count)
  <2>1. CASE main[i].block = "getToken"
    <3>1. marked[i] = [main[i] EXCEPT !.request = Stale(main[i].request)]
      BY <2>1, Zenon DEF TokensStale
    <3>2. main[i] \in [block : {"getToken"}, request : TokenRequest, token : Owners]
      <4>1. main[i] \in Block
        BY TailAndAppend
      <4>2. QED
        BY <2>1, <4>1 DEF Block
    <3>3. Stale(main[i].request).closeCount = main[i].request.closeCount
      BY <3>2 DEF Stale, TokenRequest
    <3>4. marked[i].block = "getToken" /\ marked[i].request = Stale(main[i].request)
      BY <3>1, <3>2
    <3> HIDE DEF marked
    <3>5. QED
      BY <1>1, <2>1, <3>3, <3>4 DEF Posted
  <2>2. CASE main[i].block # "getToken"
    <3>1. marked[i] = main[i]
      BY <2>2 DEF TokensStale
    <3> HIDE DEF marked
    <3>2. QED
      BY <1>1, <2>2, <3>1 DEF Posted
  <2>3. QED
    BY <2>1, <2>2
<1> HIDE DEF marked
<1>3. \A i \in Posted(marked, count) : i \in DOMAIN main
  BY <1>1 DEF Posted
<1>4. \A i \in Posted(main, count) : i \in DOMAIN main
  BY DEF Posted
<1>5. Posted(marked, count) = Posted(main, count)
  BY <1>2, <1>3, <1>4
<1>6. QED
  BY <1>5 DEF marked

LEMMA ResumingTail ==
  ASSUME NEW worker \in Seq(Operation), worker # <<>>, NEW count
  PROVE  /\ Resuming(worker, count) = {} => Resuming(Tail(worker), count) = {}
         /\ AtMostOne(Resuming(worker, count)) => AtMostOne(Resuming(Tail(worker), count))
         /\ Head(worker).op = "resumeStart" /\ Head(worker).closeCount = count =>
              /\ Resuming(worker, count) # {}
              /\ AtMostOne(Resuming(worker, count)) => Resuming(Tail(worker), count) = {}
<1>1. /\ 1 \in DOMAIN worker /\ Head(worker) = worker[1]
      /\ \A i \in DOMAIN Tail(worker) : i \in Nat \ {0} /\ i + 1 \in DOMAIN worker
                                          /\ Tail(worker)[i] = worker[i + 1]
  BY TailAndAppend
<1>2. \A i \in Resuming(Tail(worker), count) :
        i \in Nat \ {0} /\ i + 1 \in Resuming(worker, count)
  BY <1>1 DEF Resuming
<1>3. AtMostOne(Resuming(worker, count)) => AtMostOne(Resuming(Tail(worker), count))
  <2> SUFFICES ASSUME AtMostOne(Resuming(worker, count)),
                      NEW x \in Resuming(Tail(worker), count),
                      NEW y \in Resuming(Tail(worker), count)
               PROVE  x = y
    BY DEF AtMostOne
  <2>1. x + 1 = y + 1 /\ x \in Nat /\ y \in Nat
    BY <1>2 DEF AtMostOne
  <2>2. QED
    BY <2>1
<1>4. ASSUME Head(worker).op = "resumeStart", Head(worker).closeCount = count
      PROVE  /\ 1 \in Resuming(worker, count)
             /\ AtMostOne(Resuming(worker, count)) => Resuming(Tail(worker), count) = {}
  <2>1. 1 \in Resuming(worker, count)
    BY <1>1, <1>4 DEF Resuming
  <2>2. ASSUME AtMostOne(Resuming(worker, count)), NEW i \in Resuming(Tail(worker), count)
        PROVE  FALSE
    <3>1. i \in Nat \ {0} /\ i + 1 = 1
      BY <1>2, <2>1, <2>2 DEF AtMostOne
    <3>2. QED
      BY <3>1
  <2>3. QED
    BY <2>1, <2>2
<1>5. QED
  BY <1>2, <1>3, <1>4

LEMMA ResumingMore ==
  ASSUME NEW worker \in Seq(Operation), NEW op \in Operation, NEW count
  PROVE  /\ ~(op.op = "resumeStart" /\ op.closeCount = count)
              => Resuming(Append(worker, op), count) = Resuming(worker, count)
         /\ Resuming(worker, count) = {} => AtMostOne(Resuming(Append(worker, op), count))
<1> DEFINE longer == Append(worker, op)
<1>1. /\ Len(worker) \in Nat /\ DOMAIN worker = 1..Len(worker)
      /\ DOMAIN longer = 1..(Len(worker) + 1)
      /\ longer[Len(worker) + 1] = op
      /\ \A i \in DOMAIN worker : longer[i] = worker[i]
  BY TailAndAppend
<1> HIDE DEF longer
<1>2. \A i \in DOMAIN longer : i = Len(worker) + 1 \/ i \in DOMAIN worker
  BY <1>1
<1>3. \A i \in DOMAIN worker : i \in DOMAIN longer
  BY <1>1
<1>4. \A i \in Resuming(longer, count) : i = Len(worker) + 1 \/ i \in Resuming(worker, count)
  BY <1>1, <1>2 DEF Resuming
<1>5. \A i \in Resuming(worker, count) : i \in Resuming(longer, count)
  BY <1>1, <1>3 DEF Resuming
<1>6. Len(worker) + 1 \in Resuming(longer, count)
        => op.op = "resumeStart" /\ op.closeCount = count
  BY <1>1 DEF Resuming
<1>7. ASSUME ~(op.op = "resumeStart" /\ op.closeCount = count)
      PROVE  Resuming(longer, count) = Resuming(worker, count)
  BY <1>4, <1>5, <1>6, <1>7
<1>8. ASSUME Resuming(worker, count) = {}
      PROVE  AtMostOne(Resuming(longer, count))
  BY <1>4, <1>8 DEF AtMostOne
<1>9. QED
  BY <1>7, <1>8 DEF longer

--------------------------------------------------------------------------------
(* What the stream carries moves on. *)

LEMMA CarriesAll ==
  ASSUME NEW p \in Seq(Batch)
  PROVE  Carries(p, WritesOf(p), <<>>, <<>>, 0)
<1>1. /\ Len(p) \in Nat /\ Len(<<>>) = 0
      /\ Len(WritesOf(p)) = Len(p)
      /\ \A i \in 1..Len(p) : WritesOf(p)[i] = p[i].write
  BY Writing
<1> DEFINE written == WritesOf(p)
           none    == <<>>
<1> HIDE DEF written, none
<1>2. Carries(p, written, none, none, 0)
  <2>1. Len(none) = 0 /\ Len(written) = Len(p) /\ \A i \in 1..Len(p) : written[i] = p[i].write
    BY <1>1 DEF written, none
  <2>2. \A i \in 1..Len(p) : Len(none) + 0 + Len(none) + i = i
    BY <1>1, <2>1
  <2>3. \A i \in 1..Len(none) : FALSE
    BY <2>1
  <2>4. Len(p) = Len(none) + 0 + Len(none) + Len(written)
    BY <1>1, <2>1
  <2>5. QED
    BY <2>1, <2>2, <2>3, <2>4 DEF Carries
<1>3. QED
  BY <1>2 DEF written, none

LEMMA CarriesOn ==
  ASSUME NEW p, Len(p) \in Nat, NEW up \in Seq(Requests), up # <<>>, NEW w \in Seq(Requests),
         NEW d \in Seq(Requests), NEW lost \in {0, 1}, Carries(p, up, w, d, lost)
  PROVE  Carries(p, Tail(up), Append(w, Head(up)), d, lost)
<1> DEFINE rest == Tail(up)
           more == Append(w, Head(up))
<1>1. /\ Len(up) \in Nat \ {0} /\ Len(w) \in Nat /\ Len(d) \in Nat
      /\ Len(p) = Len(d) + lost + Len(w) + Len(up)
  BY DEF Carries
<1>2. /\ Len(rest) = Len(up) - 1
      /\ \A i \in 1..Len(rest) : i + 1 \in 1..Len(up) /\ rest[i] = up[i + 1]
      /\ Head(up) = up[1] /\ Head(up) \in Requests
  BY <1>1, TailAndAppend
<1>3. /\ Len(more) = Len(w) + 1
      /\ more[Len(w) + 1] = up[1]
      /\ \A i \in 1..Len(w) : more[i] = w[i]
  BY <1>2, TailAndAppend
<1> HIDE DEF rest, more
<1>4. ASSUME NEW i \in 1..Len(rest)
      PROVE  rest[i] = p[Len(d) + lost + Len(more) + i].write
  <2>1. Len(d) + lost + Len(w) + (i + 1) = Len(d) + lost + Len(more) + i
    BY <1>1, <1>3
  <2>2. up[i + 1] = p[Len(d) + lost + Len(w) + (i + 1)].write
    BY <1>2 DEF Carries
  <2>3. QED
    BY <1>2, <2>1, <2>2
<1>5. ASSUME NEW i \in 1..Len(more)
      PROVE  more[i] = p[Len(d) + lost + i].write
  <2>1. CASE i \in 1..Len(w)
    BY <1>3, <2>1 DEF Carries
  <2>2. CASE i \notin 1..Len(w)
    <3>1. i = Len(w) + 1 /\ Len(d) + lost + Len(w) + 1 = Len(d) + lost + i
      <4>1. i = Len(w) + 1
        <5>1. i \in 1..(Len(w) + 1)
          BY <1>3
        <5>2. QED
          BY <1>1, <2>2, <5>1
      <4>2. QED
        BY <1>1, <4>1
    <3>2. 1 \in 1..Len(up)
      BY <1>1
    <3>3. up[1] = p[Len(d) + lost + Len(w) + 1].write
      BY <3>2 DEF Carries
    <3>4. QED
      BY <1>3, <3>1, <3>3
  <2>3. QED
    BY <2>1, <2>2
<1>6. Len(p) = Len(d) + lost + Len(more) + Len(rest)
  BY <1>1, <1>2, <1>3
<1>7. QED
  BY <1>4, <1>5, <1>6 DEF Carries, rest, more

LEMMA CarriesAnswer ==
  ASSUME NEW p, Len(p) \in Nat, NEW up \in Seq(Requests), NEW w \in Seq(Requests), w # <<>>,
         NEW d \in Seq(Requests), Carries(p, up, w, d, 0)
  PROVE  /\ Carries(p, up, Tail(w), Append(d, Head(w)), 0)
         /\ Carries(p, up, Tail(w), d, 1)
<1> DEFINE rest == Tail(w)
           more == Append(d, Head(w))
<1>1. /\ Len(up) \in Nat /\ Len(w) \in Nat \ {0} /\ Len(d) \in Nat
      /\ Len(p) = Len(d) + 0 + Len(w) + Len(up)
  BY DEF Carries
<1>2. /\ Len(rest) = Len(w) - 1
      /\ \A i \in 1..Len(rest) : i + 1 \in 1..Len(w) /\ rest[i] = w[i + 1]
      /\ Head(w) = w[1] /\ Head(w) \in Requests
  BY <1>1, TailAndAppend
<1>3. /\ Len(more) = Len(d) + 1
      /\ more[Len(d) + 1] = w[1]
      /\ \A i \in 1..Len(d) : more[i] = d[i]
  BY <1>2, TailAndAppend
<1> HIDE DEF rest, more
<1>4. ASSUME NEW i \in 1..Len(rest)
      PROVE  rest[i] = p[Len(d) + 1 + i].write
  <2>1. Len(d) + 0 + (i + 1) = Len(d) + 1 + i
    BY <1>1
  <2>2. w[i + 1] = p[Len(d) + 0 + (i + 1)].write
    BY <1>2 DEF Carries
  <2>3. QED
    BY <1>2, <2>1, <2>2
<1>5. ASSUME NEW i \in 1..Len(up)
      PROVE  up[i] = p[Len(d) + 1 + Len(rest) + i].write
  <2>1. Len(d) + 0 + Len(w) + i = Len(d) + 1 + Len(rest) + i
    BY <1>1, <1>2
  <2>2. QED
    BY <2>1 DEF Carries
<1>6. ASSUME NEW i \in 1..Len(more)
      PROVE  more[i] = p[i].write
  <2>1. CASE i \in 1..Len(d)
    BY <1>3, <2>1 DEF Carries
  <2>2. CASE i \notin 1..Len(d)
    <3>1. i = Len(d) + 1 /\ Len(d) + 0 + 1 = i
      BY <1>1, <1>3, <2>2
    <3>2. 1 \in 1..Len(w)
      BY <1>1
    <3>3. w[1] = p[Len(d) + 0 + 1].write
      BY <3>2 DEF Carries
    <3>4. QED
      BY <1>3, <3>1, <3>3
  <2>3. QED
    BY <2>1, <2>2
<1>7. Carries(p, up, rest, d, 1)
  <2>1. Len(p) = Len(d) + 1 + Len(rest) + Len(up)
    BY <1>1, <1>2
  <2>2. QED
    BY <1>4, <1>5, <2>1 DEF Carries
<1>8. Carries(p, up, rest, more, 0)
  <2>1. Len(p) = Len(more) + 0 + Len(rest) + Len(up) /\ Len(more) + 0 = Len(d) + 1
    BY <1>1, <1>2, <1>3
  <2>2. QED
    BY <1>4, <1>5, <1>6, <2>1 DEF Carries
<1>9. QED
  BY <1>7, <1>8 DEF rest, more

(* The first result is of the first batch. *)
LEMMA CarriesResult ==
  ASSUME NEW p \in Seq(Batch), NEW up \in Seq(Requests), NEW w \in Seq(Requests),
         NEW d \in Seq(Requests), d # <<>>, NEW lost \in {0, 1}, Carries(p, up, w, d, lost)
  PROVE  p # <<>> /\ Head(d) = Head(p).write /\ Carries(Tail(p), up, w, Tail(d), lost)
<1> DEFINE rest == Tail(p)
           left == Tail(d)
<1>1. /\ Len(up) \in Nat /\ Len(w) \in Nat /\ Len(d) \in Nat \ {0} /\ Len(p) \in Nat
      /\ Len(p) = Len(d) + lost + Len(w) + Len(up)
  BY DEF Carries
<1>2. p # <<>>
  <2>1. Len(p) # 0
    BY <1>1
  <2>2. QED
    BY <2>1
<1>3. /\ Len(left) = Len(d) - 1
      /\ \A i \in 1..Len(left) : i + 1 \in 1..Len(d) /\ left[i] = d[i + 1]
      /\ Head(d) = d[1] /\ 1 \in 1..Len(d)
  BY <1>1, TailAndAppend
<1>4. /\ Len(rest) = Len(p) - 1
      /\ \A i \in 1..Len(rest) : rest[i] = p[i + 1]
      /\ Head(p) = p[1]
  BY <1>1, <1>2, TailAndAppend
<1> HIDE DEF rest, left
<1>5. Head(d) = Head(p).write
  BY <1>3, <1>4 DEF Carries
<1>6. ASSUME NEW i \in 1..Len(left)
      PROVE  left[i] = rest[i].write
  <2>1. i \in 1..Len(rest)
    BY <1>1, <1>3, <1>4
  <2>2. QED
    BY <1>3, <1>4, <2>1 DEF Carries
<1>7. ASSUME NEW i \in 1..Len(w)
      PROVE  w[i] = rest[Len(left) + lost + i].write
  <2>1. /\ Len(left) + lost + i \in 1..Len(rest)
        /\ Len(left) + lost + i + 1 = Len(d) + lost + i
    BY <1>1, <1>3, <1>4
  <2>2. QED
    BY <1>4, <2>1 DEF Carries
<1>8. ASSUME NEW i \in 1..Len(up)
      PROVE  up[i] = rest[Len(left) + lost + Len(w) + i].write
  <2>1. /\ Len(left) + lost + Len(w) + i \in 1..Len(rest)
        /\ Len(left) + lost + Len(w) + i + 1 = Len(d) + lost + Len(w) + i
    BY <1>1, <1>3, <1>4
  <2>2. QED
    BY <1>4, <2>1 DEF Carries
<1>9. Len(rest) = Len(left) + lost + Len(w) + Len(up)
  BY <1>1, <1>3, <1>4
<1>10. QED
  BY <1>2, <1>5, <1>6, <1>7, <1>8, <1>9 DEF Carries, rest, left

--------------------------------------------------------------------------------
(* The invariant. *)

SInv ==
  /\ store \in Store
  /\ wire \in Seq(Requests) /\ down \in Seq(Requests) /\ refusing \in BOOLEAN
  /\ QueueOk(mutationQueue, syncUser, nextBatchId)
  /\ PipelineOk(store.pipeline, mutationQueue[syncUser])
  /\ StreamOk(store, wire, down, refusing)
  /\ TokensOk(store, mainQueue, workerQueue)

Fewer(S, T) == (S = {} => T = {}) /\ (AtMostOne(S) => AtMostOne(T))

LEMMA TokensKept ==
  ASSUME NEW s \in Store, NEW t \in Store, NEW main, NEW main2, NEW worker, NEW worker2,
         TokensOk(s, main, worker), t.closeCount = s.closeCount, t.stream = s.stream,
         \A count \in Nat : count >= s.closeCount =>
           /\ Fewer(AskedFor(s, count), AskedFor(t, count))
           /\ Fewer(Posted(main, count), Posted(main2, count))
           /\ Fewer(Resuming(worker, count), Resuming(worker2, count))
  PROVE  TokensOk(t, main2, worker2)
<1>1. s.closeCount \in Nat /\ s.closeCount >= s.closeCount
  BY DEF Store
<1>2. \A count \in Nat : count > s.closeCount => count >= s.closeCount
  BY <1>1
<1>3. \A count \in Nat : count > s.closeCount =>
        AskedFor(t, count) = {} /\ Posted(main2, count) = {} /\ Resuming(worker2, count) = {}
  BY <1>2 DEF TokensOk, Fewer
<1>4. /\ Fewer(AskedFor(s, s.closeCount), AskedFor(t, s.closeCount))
      /\ Fewer(Posted(main, s.closeCount), Posted(main2, s.closeCount))
      /\ Fewer(Resuming(worker, s.closeCount), Resuming(worker2, s.closeCount))
  BY <1>1
<1>5. QED
  BY <1>3, <1>4 DEF TokensOk, Fewer

LEMMA AskingKeepsStream ==
  ASSUME NEW s \in Store, NEW asked \in SUBSET TokenRequest, NEW w, NEW d, NEW r
  PROVE  LET t == [s EXCEPT !.asked = asked] IN
           /\ t \in Store /\ t.asked = asked /\ t.closeCount = s.closeCount
           /\ t.stream = s.stream /\ t.pipeline = s.pipeline
           /\ StreamOk(s, w, d, r) => StreamOk(t, w, d, r)
<1> DEFINE t == [s EXCEPT !.asked = asked]
<1>1. /\ t \in Store /\ t.asked = asked /\ t.closeCount = s.closeCount
      /\ t.stream = s.stream /\ t.pipeline = s.pipeline /\ t.idle = s.idle /\ t.up = s.up
      /\ t.handshakeComplete = s.handshakeComplete
  BY DEF Store
<1> HIDE DEF t
<1>2. StreamOk(s, w, d, r) => StreamOk(t, w, d, r)
  BY <1>1 DEF StreamOk, OpenOk, ClosedOk, IsOpen
<1>3. QED
  BY <1>1, <1>2 DEF t

(* What has nothing to do with tokens. *)
LEMMA QueuesGrow ==
  ASSUME NEW main \in Seq(Block), NEW worker \in Seq(Operation), NEW count
  PROVE  /\ \A block \in Block : block.block # "getToken" =>
              Posted(Append(main, block), count) = Posted(main, count)
         /\ \A op \in Operation : op.op # "resumeStart" =>
              Resuming(Append(worker, op), count) = Resuming(worker, count)
BY PostingMore, ResumingMore

LEMMA WriteMutationsStream ==
  ASSUME IInv, SInv, WriteMutations
  PROVE  SInv'
<1>1. WriteOp(made + 1) \in Operation /\ WriteOp(made + 1).op # "resumeStart"
  BY PipelineBounds, BlocksAndOperations DEF WriteMutations, IInv, Writes
<1>2. /\ workerQueue' = Append(workerQueue, WriteOp(made + 1))
      /\ UNCHANGED <<mainQueue, syncUser, mutationQueue, nextBatchId, store, wire, down, refusing>>
  BY DEF WriteMutations, client, network
<1>3. \A count : Resuming(workerQueue', count) = Resuming(workerQueue, count)
  BY <1>1, <1>2, QueuesGrow DEF IInv, QueuesOk
<1>4. TokensOk(store, mainQueue, workerQueue')
  BY <1>3 DEF SInv, TokensOk
<1>5. QED
  BY <1>2, <1>4 DEF SInv

LEMMA ChangeAuthUserStream ==
  ASSUME IInv, SInv, NEW u \in Owners, ChangeAuthUser(u)
  PROVE  SInv'
<1>1. /\ mainQueue' = Append(mainQueue, AuthStateDidChange(u))
      /\ UNCHANGED <<workerQueue, syncUser, mutationQueue, nextBatchId, store, wire, down, refusing>>
  BY DEF ChangeAuthUser, client, network
<1>2. \A count : Posted(mainQueue', count) = Posted(mainQueue, count)
  BY <1>1, QueuesGrow, BlocksAndOperations DEF IInv, QueuesOk
<1>3. TokensOk(store, mainQueue', workerQueue)
  BY <1>2 DEF SInv, TokensOk
<1>4. QED
  BY <1>1, <1>3 DEF SInv

LEMMA AuthGetsTokenStream ==
  ASSUME IInv, SInv, NEW request \in store.asked, AuthGetsToken(request)
  PROVE  SInv'
<1> DEFINE asked == store.asked \ {request}
           block == GetTokenCallback(request, authUser)
           c     == request.closeCount
<1>1. /\ mainQueue' = Append(mainQueue, block)
      /\ store' = [store EXCEPT !.asked = asked]
      /\ UNCHANGED <<workerQueue, syncUser, mutationQueue, nextBatchId, wire, down, refusing>>
  BY DEF AuthGetsToken, client, network
<1>2. asked \in SUBSET TokenRequest /\ request \in TokenRequest
      /\ c \in Nat /\ store.closeCount \in Nat
  BY DEF SInv, Store, TokenRequest
<1>3. block \in Block /\ block.request = request
  BY <1>2, BlocksAndOperations DEF IInv, QueuesOk, GetTokenCallback
<1>4. /\ store' \in Store /\ store'.asked = asked /\ store'.closeCount = store.closeCount
      /\ store'.stream = store.stream /\ store'.pipeline = store.pipeline
      /\ StreamOk(store', wire, down, refusing)
  BY <1>1, <1>2, AskingKeepsStream DEF SInv
<1>5. \A count : count # c => /\ AskedFor(store', count) = AskedFor(store, count)
                              /\ Posted(mainQueue', count) = Posted(mainQueue, count)
  <2>1. \A count : count # c => Posted(mainQueue', count) = Posted(mainQueue, count)
    BY <1>1, <1>3, PostingMore DEF IInv, QueuesOk
  <2>2. \A count : count # c => AskedFor(store', count) = AskedFor(store, count)
    BY <1>4 DEF AskedFor
  <2>3. QED
    BY <2>1, <2>2
<1>6. AskedFor(store, c) # {} /\ c <= store.closeCount
  <2>1. request \in AskedFor(store, c)
    BY DEF AskedFor
  <2>2. ~(c > store.closeCount)
    BY <1>2, <2>1 DEF SInv, TokensOk
  <2>3. QED
    BY <1>2, <2>1, <2>2
<1>7. \A count \in Nat : count > store.closeCount => count # c
  BY <1>2, <1>6
<1>8. CASE c = store.closeCount
  <2>1. AtMostOne(AskedFor(store, c)) /\ Posted(mainQueue, c) = {} /\ Resuming(workerQueue, c) = {}
    BY <1>6, <1>8 DEF SInv, TokensOk
  <2>2. AskedFor(store', c) = {}
    <3>1. \A q \in AskedFor(store', c) : q \in AskedFor(store, c) /\ q # request
      BY <1>4 DEF AskedFor
    <3>2. request \in AskedFor(store, c)
      BY DEF AskedFor
    <3>3. QED
      BY <2>1, <3>1, <3>2 DEF AtMostOne
  <2>3. AtMostOne(Posted(mainQueue', c)) /\ AtMostOne(AskedFor(store', c))
    BY <1>1, <1>3, <2>1, <2>2, PostingMore DEF IInv, QueuesOk, AtMostOne
  <2>4. store.stream = "Starting"
    BY <1>6, <1>8 DEF SInv, TokensOk
  <2> HIDE DEF c, block, asked
  <2>5. TokensOk(store', mainQueue', workerQueue)
    BY <1>4, <1>5, <1>7, <1>8, <2>1, <2>2, <2>3, <2>4 DEF SInv, TokensOk
  <2>6. QED
    BY <1>1, <1>4, <2>5 DEF SInv
<1>9. CASE c # store.closeCount
  <2>1. \A count \in Nat : count >= store.closeCount => count # c
    BY <1>2, <1>6, <1>9
  <2>2. \A count \in Nat : count >= store.closeCount =>
          /\ AskedFor(store', count) = AskedFor(store, count)
          /\ Posted(mainQueue', count) = Posted(mainQueue, count)
    BY <1>5, <2>1
  <2> HIDE DEF c, block, asked
  <2>3. \A count \in Nat : count >= store.closeCount =>
          /\ Fewer(AskedFor(store, count), AskedFor(store', count))
          /\ Fewer(Posted(mainQueue, count), Posted(mainQueue', count))
          /\ Fewer(Resuming(workerQueue, count), Resuming(workerQueue, count))
    BY <2>2 DEF Fewer
  <2>4. store \in Store /\ TokensOk(store, mainQueue, workerQueue)
    BY DEF SInv
  <2>5. TokensOk(store', mainQueue', workerQueue)
    BY <1>4, <2>3, <2>4, TokensKept
  <2>6. QED
    BY <1>1, <1>4, <2>5 DEF SInv
<1>10. QED
  BY <1>8, <1>9

LEMMA RunAuthStateDidChangeStream ==
  ASSUME IInv, SInv, RunAuthStateDidChange
  PROVE  SInv'
<1> DEFINE asked == {Stale(q) : q \in store.asked}
           op    == CredentialChangeOp(Head(mainQueue).user)
<1>1. /\ mainQueue # <<>> /\ IsNotice(Head(mainQueue))
      /\ mainQueue' = TokensStale(Tail(mainQueue))
      /\ store' = [store EXCEPT !.asked = asked]
      /\ workerQueue' = Append(workerQueue, op)
      /\ UNCHANGED <<syncUser, mutationQueue, nextBatchId, wire, down, refusing>>
  BY DEF RunAuthStateDidChange, TokensStale, IsNotice, client, network
<1>2. asked \in SUBSET TokenRequest
  BY DEF SInv, Store, Stale, TokenRequest
<1>3. op \in Operation /\ op.op # "resumeStart"
  BY <1>1, HeadsAreTyped, BlocksAndOperations DEF IInv
<1>4. /\ store' \in Store /\ store'.asked = asked /\ store'.closeCount = store.closeCount
      /\ store'.stream = store.stream /\ store'.pipeline = store.pipeline
      /\ StreamOk(store', wire, down, refusing)
  BY <1>1, <1>2, AskingKeepsStream DEF SInv
<1>5. \A count : Fewer(Posted(mainQueue, count), Posted(mainQueue', count))
  <2>1. Tail(mainQueue) \in Seq(Block)
    BY <1>1, TailAndAppend DEF IInv, QueuesOk
  <2>2. \A count : Posted(mainQueue', count) = Posted(Tail(mainQueue), count)
    BY <1>1, <2>1, PostingStale
  <2>3. QED
    BY <1>1, <2>2, PostingTail DEF IInv, QueuesOk, Fewer
<1>6. \A count : Resuming(workerQueue', count) = Resuming(workerQueue, count)
  BY <1>1, <1>3, QueuesGrow DEF IInv, QueuesOk
<1>7. ASSUME NEW count  PROVE  Fewer(AskedFor(store, count), AskedFor(store', count))
  <2>1. ASSUME NEW q \in AskedFor(store', count)
        PROVE  \E p \in AskedFor(store, count) : q = Stale(p)
    <3>1. PICK p \in store.asked : q = Stale(p)
      BY <1>4, <2>1 DEF AskedFor
    <3>2. p.closeCount = Stale(p).closeCount
      BY DEF SInv, Store, TokenRequest, Stale
    <3>3. QED
      BY <2>1, <3>1, <3>2 DEF AskedFor
  <2>2. AtMostOne(AskedFor(store, count)) => AtMostOne(AskedFor(store', count))
    <3> SUFFICES ASSUME AtMostOne(AskedFor(store, count)),
                        NEW x \in AskedFor(store', count), NEW y \in AskedFor(store', count)
                 PROVE  x = y
      BY DEF AtMostOne
    <3>1. PICK p \in AskedFor(store, count) : x = Stale(p)
      BY <2>1
    <3>2. PICK q \in AskedFor(store, count) : y = Stale(q)
      BY <2>1
    <3>3. p = q
      BY DEF AtMostOne
    <3>4. QED
      BY <3>1, <3>2, <3>3
  <2>3. QED
    BY <2>1, <2>2 DEF Fewer
<1> HIDE DEF asked, op
<1>8. TokensOk(store', mainQueue', workerQueue')
  <2>1. \A count \in Nat : count >= store.closeCount =>
          /\ Fewer(AskedFor(store, count), AskedFor(store', count))
          /\ Fewer(Posted(mainQueue, count), Posted(mainQueue', count))
          /\ Fewer(Resuming(workerQueue, count), Resuming(workerQueue', count))
    <3>1. \A count : Fewer(Resuming(workerQueue, count), Resuming(workerQueue', count))
      BY <1>6 DEF Fewer
    <3>2. QED
      BY <1>5, <1>7, <3>1
  <2>2. store \in Store /\ TokensOk(store, mainQueue, workerQueue)
    BY DEF SInv
  <2>3. QED
    BY <1>4, <2>1, <2>2, TokensKept
<1>9. QED
  BY <1>1, <1>4, <1>8 DEF SInv

LEMMA PostedHead ==
  ASSUME NEW main \in Seq(Block), main # <<>>, Head(main).block = "getToken"
  PROVE  LET count == Head(main).request.closeCount IN
           /\ Posted(main, count) # {}
           /\ AtMostOne(Posted(main, count)) => Posted(Tail(main), count) = {}
<1> DEFINE count == Head(main).request.closeCount
<1>1. Head(main).request.closeCount = count
  OBVIOUS
<1> HIDE DEF count
<1>2. Posted(main, count) # {}
  BY <1>1, PostingTail
<1>3. AtMostOne(Posted(main, count)) => Posted(Tail(main), count) = {}
  BY <1>1, PostingTail
<1>4. QED
  BY <1>2, <1>3 DEF count

LEMMA RunGetTokenCallbackStream ==
  ASSUME IInv, SInv, RunGetTokenCallback
  PROVE  SInv'
<1> DEFINE request == Head(mainQueue).request
           c       == request.closeCount
<1>1. /\ mainQueue # <<>> /\ Head(mainQueue).block = "getToken"
      /\ mainQueue' = Tail(mainQueue)
      /\ UNCHANGED <<syncUser, mutationQueue, nextBatchId, wire, down, refusing>>
  BY DEF RunGetTokenCallback, client, network
<1>2. request \in TokenRequest /\ Head(mainQueue).token \in Owners
  BY <1>1, HeadsAreTyped DEF IInv
<1>3. c \in Nat /\ store.closeCount \in Nat
  BY <1>2 DEF SInv, Store, TokenRequest
<1>4. ASSUME NEW count
      PROVE  /\ Posted(mainQueue, count) = {} => Posted(mainQueue', count) = {}
             /\ Fewer(Posted(mainQueue, count), Posted(mainQueue', count))
  <2>1. mainQueue \in Seq(Block)
    BY DEF IInv, QueuesOk
  <2>2. /\ Posted(mainQueue, count) = {} => Posted(mainQueue', count) = {}
        /\ AtMostOne(Posted(mainQueue, count)) => AtMostOne(Posted(mainQueue', count))
    BY <1>1, <2>1, PostingTail
  <2>3. QED
    BY <2>2 DEF Fewer
<1>5. /\ Posted(mainQueue, c) # {}
      /\ AtMostOne(Posted(mainQueue, c)) => Posted(mainQueue', c) = {}
  BY <1>1, PostedHead DEF IInv, QueuesOk
<1>6. c <= store.closeCount
  <2>1. ~(c > store.closeCount)
    BY <1>3, <1>5 DEF SInv, TokensOk
  <2>2. QED
    BY <1>3, <2>1
<1>7. c = store.closeCount =>
        /\ Posted(mainQueue', c) = {} /\ store.stream = "Starting"
        /\ AskedFor(store, c) = {} /\ Resuming(workerQueue, c) = {}
  BY <1>5 DEF SInv, TokensOk
<1>8. CASE request.stale
  <2> DEFINE again == [request EXCEPT !.stale = FALSE]
             asked == store.asked \cup {again}
  <2>1. store' = [store EXCEPT !.asked = asked] /\ UNCHANGED workerQueue
    BY <1>8 DEF RunGetTokenCallback
  <2>2. again \in TokenRequest /\ again.closeCount = c
    <3> HIDE DEF request
    <3> QED
      BY <1>2 DEF TokenRequest
  <2> HIDE DEF again
  <2>3. asked \in SUBSET TokenRequest
    BY <2>2 DEF SInv, Store
  <2>4. /\ store' \in Store /\ store'.asked = asked /\ store'.closeCount = store.closeCount
        /\ store'.stream = store.stream /\ store'.pipeline = store.pipeline
        /\ StreamOk(store', wire, down, refusing)
    BY <2>1, <2>3, AskingKeepsStream DEF SInv
  <2>5. \A count : count # c => AskedFor(store', count) = AskedFor(store, count)
    BY <2>2, <2>4 DEF AskedFor
  <2>6. AskedFor(store, c) = {} => AskedFor(store', c) = {again}
    BY <2>2, <2>4 DEF AskedFor
  <2> HIDE DEF asked, request, c
  <2>7. CASE c = store.closeCount
    <3>1. AtMostOne(AskedFor(store', c)) /\ AtMostOne({})
      BY <1>7, <2>6, <2>7 DEF AtMostOne
    <3>2. \A count \in Nat : count > store.closeCount =>
            AskedFor(store', count) = {} /\ Posted(mainQueue', count) = {}
              /\ Resuming(workerQueue, count) = {}
      <4>1. \A count \in Nat : count > store.closeCount => count # c
        BY <1>3, <2>7
      <4>2. QED
        BY <1>4, <2>5, <4>1 DEF SInv, TokensOk
    <3>3. TokensOk(store', mainQueue', workerQueue)
      BY <1>7, <2>4, <2>7, <3>1, <3>2 DEF TokensOk
    <3>4. QED
      BY <1>1, <2>1, <2>4, <3>3 DEF SInv
  <2>8. CASE c # store.closeCount
    <3>1. \A count \in Nat : count >= store.closeCount => count # c
      BY <1>3, <1>6, <2>8
    <3>2. \A count \in Nat : count >= store.closeCount =>
            /\ Fewer(AskedFor(store, count), AskedFor(store', count))
            /\ Fewer(Posted(mainQueue, count), Posted(mainQueue', count))
            /\ Fewer(Resuming(workerQueue, count), Resuming(workerQueue, count))
      BY <1>4, <2>5, <3>1 DEF Fewer
    <3>3. store \in Store /\ TokensOk(store, mainQueue, workerQueue)
      BY DEF SInv
    <3>4. TokensOk(store', mainQueue', workerQueue)
      BY <2>4, <3>2, <3>3, TokensKept
    <3>5. QED
      BY <1>1, <2>1, <2>4, <3>4 DEF SInv
  <2>9. QED
    BY <2>7, <2>8
<1>9. CASE ~request.stale
  <2> DEFINE op == ResumeStartOp(c, Head(mainQueue).token)
  <2>1. workerQueue' = Append(workerQueue, op) /\ UNCHANGED store
    BY <1>9 DEF RunGetTokenCallback
  <2>2. op \in Operation /\ op.op = "resumeStart" /\ op.closeCount = c
    BY <1>2, <1>3, BlocksAndOperations DEF ResumeStartOp
  <2> HIDE DEF op, request, c
  <2>3. \A count : count # c => Resuming(workerQueue', count) = Resuming(workerQueue, count)
    BY <2>1, <2>2, ResumingMore DEF IInv, QueuesOk
  <2>4. CASE c = store.closeCount
    <3>1. AtMostOne(Resuming(workerQueue', c)) /\ AtMostOne({})
      BY <1>7, <2>1, <2>2, <2>4, ResumingMore DEF IInv, QueuesOk, AtMostOne
    <3>2. \A count \in Nat : count > store.closeCount =>
            AskedFor(store, count) = {} /\ Posted(mainQueue', count) = {}
              /\ Resuming(workerQueue', count) = {}
      <4>1. \A count \in Nat : count > store.closeCount => count # c
        BY <1>3, <2>4
      <4>2. QED
        BY <1>4, <2>3, <4>1 DEF SInv, TokensOk
    <3>3. TokensOk(store, mainQueue', workerQueue')
      BY <1>7, <2>4, <3>1, <3>2 DEF TokensOk
    <3>4. QED
      BY <1>1, <2>1, <3>3 DEF SInv
  <2>5. CASE c # store.closeCount
    <3>1. \A count \in Nat : count >= store.closeCount => count # c
      BY <1>3, <1>6, <2>5
    <3>2. \A count \in Nat : count >= store.closeCount =>
            /\ Fewer(AskedFor(store, count), AskedFor(store, count))
            /\ Fewer(Posted(mainQueue, count), Posted(mainQueue', count))
            /\ Fewer(Resuming(workerQueue, count), Resuming(workerQueue', count))
      BY <1>4, <2>3, <3>1 DEF Fewer
    <3>3. store \in Store /\ TokensOk(store, mainQueue, workerQueue)
      BY DEF SInv
    <3>4. TokensOk(store, mainQueue', workerQueue')
      BY <3>2, <3>3, TokensKept
    <3>5. QED
      BY <1>1, <2>1, <3>4 DEF SInv
  <2>6. QED
    BY <2>4, <2>5
<1>10. QED
  BY <1>8, <1>9

--------------------------------------------------------------------------------
(* The worker queue runs an operation. *)

LEMMA OperationLeaves ==
  ASSUME IInv, SInv, workerQueue # <<>>, workerQueue' = Tail(workerQueue)
  PROVE  TokensOk(store, mainQueue, workerQueue')
<1>1. \A count \in Nat : count >= store.closeCount =>
        /\ Fewer(AskedFor(store, count), AskedFor(store, count))
        /\ Fewer(Posted(mainQueue, count), Posted(mainQueue, count))
        /\ Fewer(Resuming(workerQueue, count), Resuming(workerQueue', count))
  BY ResumingTail DEF IInv, QueuesOk, Fewer
<1>2. store \in Store /\ TokensOk(store, mainQueue, workerQueue)
  BY DEF SInv
<1>3. QED
  BY <1>1, <1>2, TokensKept

(* The pipeline is filled, be the stream open or not. *)
LEMMA FillKeepsStream ==
  ASSUME NEW s \in Store, NEW queue \in Seq(Batch), IdsAscend(queue),
         Len(s.pipeline) <= MaxPendingWrites, Begins(s.pipeline, queue),
         NEW w \in Seq(Requests), NEW d \in Seq(Requests), NEW r \in BOOLEAN,
         StreamOk(s, w, d, r)
  PROVE  LET t == FillWritePipeline(s, queue) IN
           /\ t \in Store /\ StreamOk(t, w, d, r) /\ PipelineOk(t.pipeline, queue)
           /\ t.closeCount = s.closeCount /\ Starts(s, t)
<1>1. CASE IsOpen(s)
  BY <1>1, FillOpen DEF StreamOk
<1>2. CASE ~IsOpen(s)
  <2>1. ClosedOk(s) /\ ~s.handshakeComplete /\ w = <<>> /\ d = <<>> /\ ~r
    BY <1>2 DEF StreamOk
  <2> DEFINE t == FillWritePipeline(s, queue)
  <2>2. /\ t \in Store /\ ClosedOk(t) /\ PipelineOk(t.pipeline, queue)
        /\ t.handshakeComplete = s.handshakeComplete
        /\ t.closeCount = s.closeCount /\ Starts(s, t)
    BY <2>1, FillClosed
  <2> HIDE DEF t
  <2>3. StreamOk(t, w, d, r)
    BY <2>1, <2>2 DEF StreamOk, ClosedOk
  <2>4. QED
    BY <2>2, <2>3 DEF t
<1>3. QED
  BY <1>1, <1>2

LEMMA RunWriteMutationsStream ==
  ASSUME IInv, SInv, RunWriteMutations
  PROVE  SInv'
<1> DEFINE batch == [id |-> nextBatchId, write |-> Head(workerQueue).write]
           q     == mutationQueue[syncUser]
<1>1. /\ workerQueue # <<>> /\ Head(workerQueue).op = "write"
      /\ workerQueue' = Tail(workerQueue)
      /\ mutationQueue' = [mutationQueue EXCEPT ![syncUser] = Append(q, batch)]
      /\ nextBatchId' = nextBatchId + 1
      /\ store' = FillWritePipeline(store, mutationQueue'[syncUser])
      /\ UNCHANGED <<mainQueue, syncUser, wire, down, refusing>>
  BY DEF RunWriteMutations, network
<1>2. batch \in Batch /\ batch.id = nextBatchId
  <2>1. Head(workerQueue) \in Operation
    BY <1>1, TailAndAppend DEF IInv, QueuesOk
  <2>2. Head(workerQueue).write \in Writes
    BY <1>1, <2>1 DEF Operation
  <2>3. nextBatchId \in Nat \ {0}
    BY DEF SInv, QueueOk
  <2>4. QED
    BY <2>2, <2>3 DEF Batch
<1>3. syncUser \in Owners /\ QueueOk(mutationQueue, syncUser, nextBatchId)
  BY DEF IInv, QueuesOk, SInv
<1>4. Requeued(mutationQueue, syncUser, Append(q, batch), mutationQueue')
  BY <1>1 DEF Requeued
<1> HIDE DEF batch
<1>5. /\ QueueOk(mutationQueue', syncUser, nextBatchId + 1)
      /\ mutationQueue'[syncUser] = Append(q, batch)
      /\ \A p : Begins(p, q) /\ Len(p) \in Nat => Begins(p, mutationQueue'[syncUser])
  BY <1>2, <1>3, <1>4, EnqueueOk
<1> DEFINE queue == mutationQueue'[syncUser]
<1>6. queue \in Seq(Batch) /\ IdsAscend(queue)
  BY <1>3, <1>5 DEF QueueOk
<1>7. Len(store.pipeline) <= MaxPendingWrites /\ Begins(store.pipeline, queue)
  <2>1. Len(store.pipeline) \in Nat
    BY DEF SInv, Store
  <2>2. QED
    BY <1>5, <2>1 DEF SInv, PipelineOk
<1> HIDE DEF queue
<1>8. /\ store' \in Store /\ StreamOk(store', wire, down, refusing)
      /\ PipelineOk(store'.pipeline, queue)
      /\ store'.closeCount = store.closeCount /\ Starts(store, store')
  <2>1. store' = FillWritePipeline(store, queue)
    BY <1>1 DEF queue
  <2>2. QED
    BY <1>6, <1>7, <2>1, FillKeepsStream DEF SInv
<1>9. TokensOk(store', mainQueue, workerQueue')
  <2>1. TokensOk(store, mainQueue, workerQueue') /\ store \in Store
    BY <1>1, OperationLeaves DEF SInv
  <2>2. QED
    BY <1>8, <2>1, StartingAsksOnce
<1>10. QED
  BY <1>1, <1>5, <1>8, <1>9 DEF SInv, queue

(* An ended stream carries nothing. *)
LEMMA EndedStream ==
  ASSUME NEW t \in Store, ClosedOk(t), ~t.handshakeComplete, StreamEnds
  PROVE  StreamOk(t, wire', down', refusing') /\ wire' \in Seq(Requests)
           /\ down' \in Seq(Requests) /\ refusing' \in BOOLEAN
<1>1. wire' = <<>> /\ down' = <<>> /\ refusing' = FALSE
  BY DEF StreamEnds
<1>2. ~IsOpen(t)
  BY DEF ClosedOk
<1>3. wire' \in Seq(Requests) /\ down' \in Seq(Requests) /\ refusing' \in BOOLEAN
  <2>1. <<>> \in Seq(Requests)
    OBVIOUS
  <2>2. refusing' \in BOOLEAN
    BY <1>1
  <2>3. QED
    BY <1>1, <2>1, <2>2
<1>4. StreamOk(t, <<>>, <<>>, FALSE)
  BY DEF StreamOk, ClosedOk, IsOpen
<1>5. QED
  BY <1>1, <1>3, <1>4

LEMMA RestartEnds ==
  ASSUME SInv, NEW t \in Store, ClosedOk(t), ~t.handshakeComplete,
         EndStreamIf(IsStarted(store))
  PROVE  StreamOk(t, wire', down', refusing') /\ wire' \in Seq(Requests)
           /\ down' \in Seq(Requests) /\ refusing' \in BOOLEAN
<1>1. CASE IsStarted(store)
  BY <1>1, EndedStream DEF EndStreamIf
<1>2. CASE ~IsStarted(store)
  <2>1. UNCHANGED <<wire, down, refusing>>
    BY <1>2 DEF EndStreamIf, network
  <2>2. wire = <<>> /\ down = <<>> /\ ~refusing
    BY <1>2 DEF SInv, StreamOk, IsOpen, IsStarted
  <2>3. QED
    BY <2>1, <2>2 DEF StreamOk, ClosedOk, SInv
<1>3. QED
  BY <1>1, <1>2

LEMMA HandleCredentialChangeStream ==
  ASSUME IInv, SInv, HandleCredentialChange
  PROVE  SInv'
<1> DEFINE u     == Head(workerQueue).user
           queue == mutationQueue[u]
<1>1. /\ workerQueue # <<>> /\ IsChange(Head(workerQueue))
      /\ workerQueue' = Tail(workerQueue)
      /\ syncUser' = u
      /\ nextBatchId' = IF u = syncUser THEN nextBatchId ELSE NextBatchId
      /\ store' = RestartNetwork(store, queue)
      /\ EndStreamIf(IsStarted(store))
      /\ UNCHANGED <<mainQueue, mutationQueue>>
  BY DEF HandleCredentialChange, IsChange
<1>2. u \in Owners
  BY <1>1, HeadsAreTyped DEF IInv
<1>3. QueueOk(mutationQueue, u, nextBatchId')
  BY <1>1, <1>2, SwitchOk DEF SInv
<1>4. queue \in Seq(Batch) /\ IdsAscend(queue)
  BY <1>2, <1>3 DEF QueueOk
<1>5. /\ store' \in Store /\ ClosedOk(store') /\ ~store'.handshakeComplete
      /\ PipelineOk(store'.pipeline, queue) /\ Restarts(store, store')
  BY <1>1, <1>4, RestartRestarts DEF SInv
<1>6. TokensOk(store', mainQueue, workerQueue')
  <2>1. TokensOk(store, mainQueue, workerQueue') /\ store \in Store
    BY <1>1, OperationLeaves DEF SInv
  <2>2. QED
    BY <1>5, <2>1, RestartingAsksOnce
<1>7. /\ StreamOk(store', wire', down', refusing') /\ wire' \in Seq(Requests)
      /\ down' \in Seq(Requests) /\ refusing' \in BOOLEAN
  BY <1>1, <1>5, RestartEnds
<1>8. QED
  BY <1>1, <1>3, <1>5, <1>6, <1>7 DEF SInv

LEMMA ResumeStartWithCredentialsStream ==
  ASSUME IInv, SInv, ResumeStartWithCredentials
  PROVE  SInv'
<1> DEFINE c == store.closeCount
           u == Head(workerQueue).token
<1>1. /\ workerQueue # <<>> /\ Head(workerQueue).op = "resumeStart"
      /\ workerQueue' = Tail(workerQueue)
      /\ UNCHANGED <<mainQueue, syncUser, mutationQueue, nextBatchId, wire, down, refusing>>
  BY DEF ResumeStartWithCredentials, client, network
<1>2. u \in Owners
  BY <1>1, HeadsAreTyped DEF IInv
<1>3. CASE Head(workerQueue).closeCount # c
  <2>1. UNCHANGED store
    BY <1>3 DEF ResumeStartWithCredentials
  <2>2. TokensOk(store, mainQueue, workerQueue')
    BY <1>1, OperationLeaves
  <2>3. QED
    BY <1>1, <2>1, <2>2 DEF SInv
<1>4. CASE Head(workerQueue).closeCount = c
  <2>1. store' = [store EXCEPT !.stream = "Open", !.token = u, !.up = <<Handshake>>]
    BY <1>4 DEF ResumeStartWithCredentials
  <2>2. /\ Resuming(workerQueue, c) # {}
        /\ AtMostOne(Resuming(workerQueue, c)) => Resuming(workerQueue', c) = {}
    BY <1>1, <1>4, ResumingTail DEF IInv, QueuesOk
  <2>3. /\ store.stream = "Starting"
        /\ AskedFor(store, c) = {} /\ Posted(mainQueue, c) = {}
        /\ Resuming(workerQueue', c) = {}
    BY <2>2 DEF SInv, TokensOk
  <2>4. /\ store \in Store /\ ClosedOk(store) /\ ~store.handshakeComplete
        /\ wire = <<>> /\ down = <<>> /\ ~refusing
        /\ ~store.idle /\ store.pipeline # <<>>
    BY <2>3 DEF SInv, StreamOk, IsOpen, ClosedOk
  <2> DEFINE first == <<Handshake>>
  <2>5. first \in Seq(Requests) /\ "Open" \in StreamStates
    BY DEF Requests, StreamStates
  <2> HIDE DEF first, u
  <2>6. /\ store' \in Store /\ store'.stream = "Open" /\ store'.up = first
        /\ store'.pipeline = store.pipeline /\ ~store'.idle /\ ~store'.handshakeComplete
        /\ store'.asked = store.asked /\ store'.closeCount = c
    BY <1>2, <2>1, <2>4, <2>5 DEF Store, first
  <2>7. StreamOk(store', wire, down, refusing)
    BY <2>4, <2>6 DEF StreamOk, OpenOk, IsOpen, ShakesHands, first
  <2>8. TokensOk(store', mainQueue, workerQueue')
    <3>1. TokensOk(store, mainQueue, workerQueue')
      BY <1>1, OperationLeaves
    <3>2. \A count : AskedFor(store', count) = AskedFor(store, count)
      BY <2>6 DEF AskedFor
    <3>3. QED
      BY <2>3, <2>6, <3>1, <3>2 DEF TokensOk
  <2>9. QED
    BY <1>1, <2>6, <2>7, <2>8 DEF SInv
<1>5. QED
  BY <1>3, <1>4

LEMMA ResumeStartFailsStream ==
  ASSUME IInv, SInv, ResumeStartFails
  PROVE  SInv'
<1> DEFINE closed == Close(store, "Error")
<1>1. /\ workerQueue # <<>> /\ Head(workerQueue).op = "resumeStart"
      /\ Head(workerQueue).closeCount = store.closeCount
      /\ workerQueue' = Tail(workerQueue)
      /\ store' = StartIfNeeded(closed)
      /\ UNCHANGED <<mainQueue, syncUser, mutationQueue, nextBatchId, wire, down, refusing>>
  BY DEF ResumeStartFails, client, network
<1>2. store.stream = "Starting"
  <2>1. Resuming(workerQueue, store.closeCount) # {}
    BY <1>1, ResumingTail DEF IInv, QueuesOk
  <2>2. QED
    BY <2>1 DEF SInv, TokensOk
<1>3. /\ store \in Store /\ ~store.handshakeComplete /\ wire = <<>> /\ down = <<>> /\ ~refusing
  BY <1>2 DEF SInv, StreamOk, IsOpen
<1>4. /\ closed \in Store /\ ClosedOk(closed) /\ closed.stream = "Error"
      /\ closed.pipeline = store.pipeline /\ closed.closeCount = store.closeCount + 1
      /\ closed.asked = store.asked /\ ~closed.handshakeComplete
  BY <1>3, ClosingStream
<1> HIDE DEF closed
<1>5. /\ store' \in Store /\ Starts(closed, store') /\ store'.pipeline = store.pipeline
      /\ ~store'.handshakeComplete /\ store'.closeCount = closed.closeCount
      /\ ClosedOk(store')
  <2>1. /\ store' \in Store /\ Starts(closed, store') /\ store'.pipeline = closed.pipeline
        /\ store'.handshakeComplete = closed.handshakeComplete
        /\ store'.closeCount = closed.closeCount
        /\ store'.idle = closed.idle /\ store'.up = closed.up
        /\ closed.pipeline = <<>> => store' = closed
        /\ ~IsOpen(closed) => ~IsOpen(store')
    BY <1>1, <1>4, StartIfNeededStarts
  <2>2. QED
    BY <1>4, <2>1 DEF ClosedOk
<1>6. StreamOk(store', wire, down, refusing)
  BY <1>3, <1>5 DEF StreamOk, ClosedOk
<1>7. TokensOk(store', mainQueue, workerQueue')
  <2>1. TokensOk(store, mainQueue, workerQueue')
    BY <1>1, OperationLeaves
  <2>2. TokensOk(closed, mainQueue, workerQueue')
    BY <1>3, <1>4, <2>1, ClosingForgetsTokens
  <2>3. QED
    BY <1>4, <1>5, <2>2, StartingAsksOnce
<1>8. QED
  BY <1>1, <1>5, <1>6, <1>7 DEF SInv

--------------------------------------------------------------------------------
(* Timers, answers and failures of the stream. *)

(* The stream has changed, and nothing else that the invariant looks at. *)
LEMMA StreamChanges ==
  ASSUME SInv, store' \in Store, StreamOk(store', wire', down', refusing'),
         wire' \in Seq(Requests), down' \in Seq(Requests), refusing' \in BOOLEAN,
         store'.pipeline = store.pipeline, TokensOk(store', mainQueue, workerQueue),
         UNCHANGED <<mainQueue, workerQueue, syncUser, mutationQueue, nextBatchId>>
  PROVE  SInv'
BY DEF SInv

LEMMA BackoffElapsesStream ==
  ASSUME SInv, BackoffElapses
  PROVE  SInv'
<1> DEFINE ended == [store EXCEPT !.stream = "Initial"]
<1>1. /\ store.stream = "Backoff" /\ store' = Start(ended)
      /\ UNCHANGED <<mainQueue, workerQueue, syncUser, mutationQueue, nextBatchId,
                     wire, down, refusing>>
  BY DEF BackoffElapses, client, network
<1>2. /\ store \in Store /\ ClosedOk(store) /\ ~store.handshakeComplete
      /\ wire = <<>> /\ down = <<>> /\ ~refusing
  BY <1>1 DEF SInv, StreamOk, IsOpen
<1>3. /\ ended \in Store /\ ended.stream = "Initial" /\ ended.pipeline = store.pipeline
      /\ ended.closeCount = store.closeCount /\ ended.asked = store.asked
      /\ ~ended.idle /\ ended.up = <<>> /\ ~ended.handshakeComplete
  BY <1>2 DEF Store, StreamStates, ClosedOk
<1>4. store.pipeline # <<>>
  BY <1>1, <1>2 DEF ClosedOk
<1> HIDE DEF ended
<1>5. store' = StartIfNeeded(ended)
  BY <1>1, <1>3, <1>4 DEF StartIfNeeded, IsStarted
<1>6. /\ store' \in Store /\ Starts(ended, store') /\ store'.pipeline = store.pipeline
      /\ ~store'.handshakeComplete /\ store'.closeCount = ended.closeCount
      /\ ~store'.idle /\ store'.up = <<>> /\ ~IsOpen(store')
  <2>1. ~IsOpen(ended)
    BY <1>3 DEF IsOpen
  <2>2. QED
    BY <1>3, <1>5, <2>1, StartIfNeededStarts
<1>7. StreamOk(store', wire, down, refusing)
  BY <1>2, <1>4, <1>6 DEF StreamOk, ClosedOk
<1>8. TokensOk(store', mainQueue, workerQueue)
  <2>1. \A count : AskedFor(ended, count) = AskedFor(store, count)
    BY <1>3 DEF AskedFor
  <2>2. TokensOk(ended, mainQueue, workerQueue)
    BY <1>1, <1>3, <2>1 DEF SInv, TokensOk
  <2>3. QED
    BY <1>3, <1>6, <2>2, StartingAsksOnce
<1>9. QED
  BY <1>1, <1>6, <1>7, <1>8, StreamChanges DEF SInv

(* The stream is closed, and perhaps started again. *)
LEMMA StreamCloses ==
  ASSUME SInv, NEW state \in {"Initial", "Error"},
         store' = ForgetHandshake(Close(store, state))
           \/ store' = ForgetHandshake(StartIfNeeded(Close(store, state))),
         StreamEnds,
         UNCHANGED <<mainQueue, workerQueue, syncUser, mutationQueue, nextBatchId>>
  PROVE  SInv'
<1> DEFINE closed  == Close(store, state)
           started == StartIfNeeded(closed)
<1>1. store \in Store
  BY DEF SInv
<1>2. /\ closed \in Store /\ ClosedOk(closed)
      /\ closed.pipeline = store.pipeline /\ closed.closeCount = store.closeCount + 1
      /\ closed.asked = store.asked
  BY <1>1, ClosingStream
<1> HIDE DEF closed
<1>3. /\ started \in Store /\ Starts(closed, started) /\ started.pipeline = store.pipeline
      /\ started.closeCount = closed.closeCount /\ ClosedOk(started)
  <2>1. /\ started \in Store /\ Starts(closed, started) /\ started.pipeline = closed.pipeline
        /\ started.closeCount = closed.closeCount
        /\ started.idle = closed.idle /\ started.up = closed.up
        /\ closed.pipeline = <<>> => started = closed
        /\ ~IsOpen(closed) => ~IsOpen(started)
    BY <1>2, StartIfNeededStarts
  <2> HIDE DEF started
  <2>2. QED
    BY <1>2, <2>1 DEF ClosedOk
<1> HIDE DEF started
<1>4. TokensOk(closed, mainQueue, workerQueue)
  BY <1>1, <1>2, ClosingForgetsTokens DEF SInv
<1>5. TokensOk(started, mainQueue, workerQueue)
  BY <1>2, <1>3, <1>4, StartingAsksOnce
<1>6. PICK t \in {closed, started} : store' = ForgetHandshake(t)
  BY DEF closed, started
<1>7. /\ t \in Store /\ ClosedOk(t) /\ t.pipeline = store.pipeline
      /\ TokensOk(t, mainQueue, workerQueue)
  BY <1>2, <1>3, <1>4, <1>5
<1>8. /\ store' \in Store /\ ~store'.handshakeComplete /\ ClosedOk(store')
      /\ store'.pipeline = store.pipeline
      /\ store'.stream = t.stream /\ store'.closeCount = t.closeCount /\ store'.asked = t.asked
  BY <1>6, <1>7, Forgetting
<1>9. TokensOk(store', mainQueue, workerQueue)
  <2>1. \A count : AskedFor(store', count) = AskedFor(t, count)
    BY <1>8 DEF AskedFor
  <2>2. QED
    BY <1>7, <1>8, <2>1 DEF TokensOk
<1>10. /\ StreamOk(store', wire', down', refusing') /\ wire' \in Seq(Requests)
       /\ down' \in Seq(Requests) /\ refusing' \in BOOLEAN
  BY <1>8, EndedStream
<1>11. QED
  BY <1>8, <1>9, <1>10, StreamChanges

LEMMA IdleTimeoutStream ==
  ASSUME SInv, IdleTimeout
  PROVE  SInv'
<1>1. /\ store' = ForgetHandshake(Close(store, "Initial")) /\ StreamEnds
      /\ UNCHANGED <<mainQueue, workerQueue, syncUser, mutationQueue, nextBatchId>>
  BY DEF IdleTimeout, client
<1>2. QED
  BY <1>1, StreamCloses

LEMMA StreamFailsStream ==
  ASSUME SInv, StreamFails
  PROVE  SInv'
<1>1. /\ store' = ForgetHandshake(StartIfNeeded(Close(store, "Error"))) /\ StreamEnds
      /\ UNCHANGED <<mainQueue, workerQueue, syncUser, mutationQueue, nextBatchId>>
  BY DEF StreamFails, client
<1>2. QED
  BY <1>1, StreamCloses

LEMMA ConnectivityChangesStream ==
  ASSUME IInv, SInv, ConnectivityChanges
  PROVE  SInv'
<1> DEFINE queue == mutationQueue[syncUser]
<1>1. /\ store' = RestartNetwork(store, queue) /\ EndStreamIf(IsStarted(store))
      /\ UNCHANGED <<mainQueue, workerQueue, syncUser, mutationQueue, nextBatchId>>
  BY DEF ConnectivityChanges, client
<1>2. queue \in Seq(Batch) /\ IdsAscend(queue)
  BY DEF SInv, QueueOk, IInv, QueuesOk
<1>3. /\ store' \in Store /\ ClosedOk(store') /\ ~store'.handshakeComplete
      /\ PipelineOk(store'.pipeline, queue) /\ Restarts(store, store')
  BY <1>1, <1>2, RestartRestarts DEF SInv
<1>4. TokensOk(store', mainQueue, workerQueue)
  BY <1>3, RestartingAsksOnce DEF SInv
<1>5. /\ StreamOk(store', wire', down', refusing') /\ wire' \in Seq(Requests)
      /\ down' \in Seq(Requests) /\ refusing' \in BOOLEAN
  BY <1>1, <1>3, RestartEnds
<1>6. QED
  BY <1>1, <1>3, <1>4, <1>5 DEF SInv

LEMMA SameTokens ==
  ASSUME NEW s, NEW t, NEW main, NEW worker, TokensOk(s, main, worker),
         t.stream = s.stream, t.closeCount = s.closeCount, t.asked = s.asked
  PROVE  TokensOk(t, main, worker)
<1>1. \A count : AskedFor(t, count) = AskedFor(s, count)
  BY DEF AskedFor
<1>2. QED
  BY <1>1 DEF TokensOk

(* After the handshake, what is on the stream are writes. *)
LEMMA OnlyWrites ==
  ASSUME NEW p \in Seq(Batch), NEW up \in Seq(Requests), NEW w \in Seq(Requests),
         NEW d \in Seq(Requests), NEW lost \in {0, 1}, Carries(p, up, w, d, lost)
  PROVE  /\ w # <<>> => Head(w) # Handshake
         /\ d # <<>> => Head(d) # Handshake
<1>1. \A i \in 1..Len(p) : p[i].write # Handshake
  <2>1. \A b \in Batch : b.write # Handshake
    BY PipelineBounds DEF Batch, Writes, Handshake
  <2>2. QED
    BY <2>1
<1>2. /\ Len(p) \in Nat /\ Len(up) \in Nat /\ Len(w) \in Nat /\ Len(d) \in Nat
      /\ Len(p) = Len(d) + lost + Len(w) + Len(up)
  BY DEF Carries
<1>3. ASSUME w # <<>>  PROVE  Head(w) # Handshake
  <2>1. 1 \in 1..Len(w) /\ Head(w) = w[1]
    BY <1>3, TailAndAppend
  <2>2. Len(d) + lost + 1 \in 1..Len(p)
    BY <1>2, <2>1
  <2>3. w[1] = p[Len(d) + lost + 1].write
    BY <2>1 DEF Carries
  <2>4. QED
    BY <1>1, <2>1, <2>2, <2>3
<1>4. ASSUME d # <<>>  PROVE  Head(d) # Handshake
  <2>1. 1 \in 1..Len(d) /\ Head(d) = d[1]
    BY <1>4, TailAndAppend
  <2>2. 1 \in 1..Len(p)
    BY <1>2, <2>1
  <2>3. d[1] = p[1].write
    BY <2>1 DEF Carries
  <2>4. QED
    BY <1>1, <2>1, <2>2, <2>3
<1>5. QED
  BY <1>3, <1>4

LEMMA OneRequest ==
  /\ <<Handshake>> # <<>> /\ Head(<<Handshake>>) = Handshake /\ Tail(<<Handshake>>) = <<>>
  /\ Append(<<>>, Handshake) = <<Handshake>>
  /\ <<>> \in Seq(Requests) /\ <<Handshake>> \in Seq(Requests)
<1>1. Handshake \in Requests
  BY DEF Requests
<1>2. QED
  BY <1>1

(* What is known of an open stream. *)
LEMMA OpenStream ==
  ASSUME SInv, IsOpen(store)
  PROVE  /\ store \in Store /\ store.pipeline \in Seq(Batch) /\ Len(store.pipeline) \in Nat
         /\ store.up \in Seq(Requests) /\ Lost(refusing) \in {0, 1}
         /\ store.idle => store.handshakeComplete /\ store.pipeline = <<>>
         /\ store.handshakeComplete =>
              Carries(store.pipeline, store.up, wire, down, Lost(refusing))
         /\ ~store.handshakeComplete =>
              ShakesHands(store.up, wire, down) /\ ~refusing /\ store.pipeline # <<>>
<1>1. store \in Store /\ OpenOk(store, wire, down, refusing)
  BY DEF SInv, StreamOk
<1>2. store.pipeline \in Seq(Batch) /\ store.up \in Seq(Requests)
  BY <1>1 DEF Store
<1>3. QED
  BY <1>1, <1>2 DEF OpenOk, Lost

LEMMA OnHandshakeResponseStream ==
  ASSUME SInv, OnHandshakeResponse
  PROVE  SInv'
<1> DEFINE p  == store.pipeline
           up == WritesOf(p)
<1>1. /\ down # <<>> /\ Head(down) = Handshake /\ down' = Tail(down)
      /\ store' = [store EXCEPT !.handshakeComplete = TRUE, !.idle = @ /\ p = <<>>,
                                !.up = @ \o up]
      /\ UNCHANGED <<mainQueue, workerQueue, syncUser, mutationQueue, nextBatchId, wire, refusing>>
  BY DEF OnHandshakeResponse, client
<1>2. IsOpen(store)
  BY <1>1 DEF SInv, StreamOk
<1>3. wire \in Seq(Requests) /\ down \in Seq(Requests) /\ refusing \in BOOLEAN
  BY DEF SInv
<1>4. ~store.handshakeComplete
  BY <1>1, <1>2, <1>3, OpenStream, OnlyWrites
<1>5. /\ store.up = <<>> /\ wire = <<>> /\ down = <<Handshake>> /\ ~refusing
      /\ p # <<>> /\ store \in Store /\ p \in Seq(Batch) /\ ~store.idle
  BY <1>1, <1>2, <1>4, OpenStream DEF ShakesHands
<1>6. down' = <<>>
  BY <1>1, <1>5, OneRequest
<1>7. up \in Seq(Requests) /\ <<>> \o up = up /\ Carries(p, up, <<>>, <<>>, 0)
  <2>1. up \in Seq(Requests)
    <3>1. Writes \subseteq Requests
      BY DEF Requests
    <3>2. QED
      BY <1>5, <3>1, Writing, SeqMonotonic
  <2>2. QED
    BY <1>5, <2>1, CarriesAll, ConcatEmptySeq
<1> HIDE DEF up
<1>8. store' = [store EXCEPT !.handshakeComplete = TRUE, !.idle = FALSE, !.up = up]
  BY <1>1, <1>5, <1>7
<1>9. /\ store' \in Store /\ store'.handshakeComplete /\ ~store'.idle /\ store'.up = up
      /\ store'.pipeline = p /\ store'.stream = store.stream
      /\ store'.closeCount = store.closeCount /\ store'.asked = store.asked
  BY <1>5, <1>7, <1>8 DEF Store
<1> HIDE DEF p
<1>10. OpenOk(store', <<>>, <<>>, FALSE)
  BY <1>7, <1>9 DEF OpenOk, Lost
<1>11. StreamOk(store', <<>>, <<>>, FALSE)
  BY <1>2, <1>9, <1>10 DEF StreamOk, IsOpen
<1>12. refusing = FALSE
  BY <1>3, <1>5
<1>13. StreamOk(store', wire', down', refusing')
  BY <1>1, <1>5, <1>6, <1>11, <1>12
<1>14. TokensOk(store', mainQueue, workerQueue)
  BY <1>9, SameTokens DEF SInv
<1>15. down' \in Seq(Requests)
  BY <1>6, OneRequest
<1>16. QED
  BY <1>1, <1>3, <1>9, <1>13, <1>14, <1>15, StreamChanges DEF p

LEMMA CarryStream ==
  ASSUME SInv, Carry
  PROVE  SInv'
<1> DEFINE up   == Tail(store.up)
           more == Append(wire, Head(store.up))
<1>1. /\ store.up # <<>> /\ IsOpen(store) /\ wire' = more /\ store' = [store EXCEPT !.up = up]
      /\ UNCHANGED <<mainQueue, workerQueue, syncUser, mutationQueue, nextBatchId, down, refusing>>
  BY DEF Carry, client
<1>2. wire \in Seq(Requests) /\ down \in Seq(Requests) /\ refusing \in BOOLEAN
  BY DEF SInv
<1>3. up \in Seq(Requests) /\ more \in Seq(Requests)
  <2>1. store.up \in Seq(Requests)
    BY <1>1, OpenStream
  <2>2. QED
    BY <1>1, <1>2, <2>1, TailAndAppend
<1>4. IF store.handshakeComplete
      THEN Carries(store.pipeline, up, more, down, Lost(refusing))
      ELSE ShakesHands(up, more, down) /\ ~refusing /\ store.pipeline # <<>>
  <2>1. CASE store.handshakeComplete
    BY <1>1, <1>2, <2>1, OpenStream, CarriesOn
  <2>2. CASE ~store.handshakeComplete
    <3>1. store.up = <<Handshake>> /\ wire = <<>> /\ down = <<>>
      BY <1>1, <2>2, OpenStream DEF ShakesHands
    <3>2. up = <<>> /\ more = <<Handshake>>
      BY <3>1, OneRequest
    <3> HIDE DEF up, more
    <3>3. ShakesHands(up, more, down)
      BY <3>1, <3>2 DEF ShakesHands
    <3>4. QED
      BY <1>1, <2>2, <3>3, OpenStream
  <2>3. QED
    BY <2>1, <2>2
<1> HIDE DEF up, more
<1>5. /\ store' \in Store /\ store'.handshakeComplete = store.handshakeComplete
      /\ store'.idle = store.idle /\ store'.up = up
      /\ store'.pipeline = store.pipeline /\ store'.stream = store.stream
      /\ store'.closeCount = store.closeCount /\ store'.asked = store.asked
  BY <1>1, <1>3 DEF SInv, Store
<1>6. OpenOk(store', more, down, refusing)
  BY <1>1, <1>4, <1>5, OpenStream DEF OpenOk
<1>7. StreamOk(store', wire', down', refusing')
  BY <1>1, <1>5, <1>6 DEF StreamOk, IsOpen
<1>8. TokensOk(store', mainQueue, workerQueue)
  BY <1>5, SameTokens DEF SInv
<1>9. QED
  BY <1>1, <1>2, <1>3, <1>5, <1>7, <1>8, StreamChanges

LEMMA BackendAnswersStream ==
  ASSUME SInv, BackendAnswers
  PROVE  SInv'
<1> DEFINE rest == Tail(wire)
           more == Append(down, Head(wire))
<1>1. /\ wire # <<>> /\ ~refusing /\ wire' = rest
      /\ \/ down' = more /\ refusing' = refusing
         \/ Head(wire) # Handshake /\ refusing' = TRUE /\ down' = down
      /\ UNCHANGED <<mainQueue, workerQueue, syncUser, mutationQueue, nextBatchId, store>>
  BY DEF BackendAnswers, client
<1>2. IsOpen(store)
  BY <1>1 DEF SInv, StreamOk
<1>3. wire \in Seq(Requests) /\ down \in Seq(Requests) /\ refusing \in BOOLEAN
  BY DEF SInv
<1>4. rest \in Seq(Requests) /\ more \in Seq(Requests)
  BY <1>1, <1>3, TailAndAppend
<1>5. CASE store.handshakeComplete
  <2>1. /\ Carries(store.pipeline, store.up, wire, down, 0) /\ store.up \in Seq(Requests)
        /\ Len(store.pipeline) \in Nat
    BY <1>1, <1>2, <1>5, OpenStream DEF Lost
  <2>2. /\ Carries(store.pipeline, store.up, rest, more, 0)
        /\ Carries(store.pipeline, store.up, rest, down, 1)
    BY <1>1, <1>3, <2>1, CarriesAnswer
  <2> HIDE DEF rest, more
  <2>3. OpenOk(store, rest, more, FALSE) /\ OpenOk(store, rest, down, TRUE)
    BY <1>2, <1>5, <2>2, OpenStream DEF OpenOk, Lost
  <2>4. refusing = FALSE
    BY <1>1, <1>3
  <2>5. OpenOk(store, wire', down', refusing')
    BY <1>1, <2>3, <2>4
  <2>6. StreamOk(store', wire', down', refusing')
    BY <1>1, <1>2, <2>5 DEF StreamOk
  <2>7. refusing' \in BOOLEAN /\ down' \in Seq(Requests)
    BY <1>1, <1>3, <1>4
  <2>8. QED
    BY <1>1, <1>4, <2>6, <2>7, StreamChanges DEF SInv
<1>6. CASE ~store.handshakeComplete
  <2>1. store.up = <<>> /\ wire = <<Handshake>> /\ down = <<>>
    BY <1>1, <1>2, <1>6, OpenStream DEF ShakesHands
  <2>2. Head(wire) = Handshake /\ rest = <<>> /\ more = <<Handshake>>
    BY <2>1, OneRequest
  <2> HIDE DEF rest, more
  <2>3. down' = more /\ refusing' = refusing
    BY <1>1, <2>2
  <2>4. OpenOk(store, rest, more, refusing)
    BY <1>2, <1>6, <2>1, <2>2, OpenStream DEF OpenOk, ShakesHands
  <2>5. StreamOk(store', wire', down', refusing')
    BY <1>1, <1>2, <2>3, <2>4 DEF StreamOk
  <2>6. QED
    BY <1>1, <1>3, <1>4, <2>3, <2>5, StreamChanges DEF SInv
<1>7. QED
  BY <1>5, <1>6

(* The first of the pipeline is answered and leaves the queue. *)
LEMMA FirstAnswered ==
  ASSUME IInv, SInv, store.pipeline # <<>>, RemoveBatch(Head(store.pipeline))
  PROVE  LET queue == mutationQueue'[syncUser]
             rest  == Tail(store.pipeline)
         IN /\ QueueOk(mutationQueue', syncUser, nextBatchId)
            /\ queue \in Seq(Batch) /\ IdsAscend(queue)
            /\ rest \in Seq(Batch) /\ Len(rest) <= MaxPendingWrites /\ Begins(rest, queue)
            /\ mutationQueue[syncUser] # <<>>
            /\ Head(store.pipeline) = Head(mutationQueue[syncUser])
            /\ Requeued(mutationQueue, syncUser, Tail(mutationQueue[syncUser]), mutationQueue')
<1> DEFINE p     == store.pipeline
           q     == mutationQueue[syncUser]
           first == CHOOSE i \in DOMAIN q : q[i].id = Head(q).id
           rest  == Tail(p)
           left  == Tail(q)
<1>1. /\ syncUser \in Owners /\ QueueOk(mutationQueue, syncUser, nextBatchId)
      /\ p \in Seq(Batch) /\ q \in Seq(Batch) /\ IdsAscend(q)
      /\ Len(p) <= MaxPendingWrites /\ Begins(p, q)
  BY DEF IInv, QueuesOk, SInv, QueueOk, PipelineOk, Store
<1>2. /\ Len(p) \in Nat \ {0} /\ Len(q) \in Nat /\ Len(p) <= Len(q)
      /\ Head(p) = p[1] /\ 1 \in 1..Len(p)
  <2>1. Len(p) # 0
    BY <1>1
  <2>2. QED
    BY <1>1, <2>1 DEF Begins
<1>3. q # <<>> /\ Head(p) = Head(q)
  <2>1. q # <<>> /\ Head(q) = q[1]
    BY <1>1, <1>2
  <2>2. p[1] = q[1]
    BY <1>1, <1>2 DEF Begins
  <2>3. QED
    BY <1>2, <2>1, <2>2
<1>4. RemoveAt(q, first) = left
  BY <1>1, <1>3, RemovingFirst
<1>5. mutationQueue' = [mutationQueue EXCEPT ![syncUser] = RemoveAt(q, first)]
  BY <1>3 DEF RemoveBatch
<1>6. Requeued(mutationQueue, syncUser, left, mutationQueue')
  BY <1>4, <1>5 DEF Requeued
<1>7. QueueOk(mutationQueue', syncUser, nextBatchId) /\ mutationQueue'[syncUser] = left
  BY <1>1, <1>3, <1>6, DequeueOk
<1>8. left \in Seq(Batch) /\ IdsAscend(left)
  BY <1>1, <1>7 DEF QueueOk
<1>9. /\ rest \in Seq(Batch) /\ Len(rest) = Len(p) - 1
      /\ \A i \in 1..Len(rest) : i + 1 \in 1..Len(p) /\ rest[i] = p[i + 1]
  BY <1>1, <1>2, TailAndAppend
<1>10. /\ Len(left) = Len(q) - 1
       /\ \A i \in 1..Len(left) : left[i] = q[i + 1]
  BY <1>1, <1>3, TailAndAppend
<1> HIDE DEF rest, left
<1>11. Begins(rest, left)
  <2>1. Len(rest) <= Len(left)
    BY <1>2, <1>9, <1>10
  <2>2. ASSUME NEW i \in 1..Len(rest)  PROVE  rest[i] = left[i]
    <3>1. i \in 1..Len(left) /\ p[i + 1] = q[i + 1]
      BY <1>1, <1>2, <1>9, <1>10 DEF Begins
    <3>2. QED
      BY <1>9, <1>10, <3>1
  <2>3. QED
    BY <2>1, <2>2 DEF Begins
<1>12. Len(rest) <= MaxPendingWrites
  BY <1>1, <1>2, <1>9, PipelineHasRoom
<1>13. QED
  BY <1>3, <1>6, <1>7, <1>8, <1>9, <1>11, <1>12 DEF rest, left

LEMMA OnMutationResultStream ==
  ASSUME IInv, SInv, OnMutationResult
  PROVE  SInv'
<1> DEFINE rest   == Tail(store.pipeline)
           popped == [store EXCEPT !.pipeline = rest]
           queue  == mutationQueue'[syncUser]
           left   == Tail(down)
<1>1. /\ down # <<>> /\ Head(down) # Handshake /\ down' = left
      /\ RemoveBatch(Head(store.pipeline))
      /\ store' = FillWritePipeline(popped, queue)
      /\ UNCHANGED <<mainQueue, workerQueue, syncUser, nextBatchId, wire, refusing>>
  BY DEF OnMutationResult
<1>2. IsOpen(store)
  BY <1>1 DEF SInv, StreamOk
<1>3. wire \in Seq(Requests) /\ down \in Seq(Requests) /\ refusing \in BOOLEAN
  BY DEF SInv
<1>4. store.handshakeComplete
  <2>1. ASSUME ~store.handshakeComplete  PROVE  FALSE
    <3>1. down = <<Handshake>>
      BY <1>1, <1>2, <2>1, OpenStream DEF ShakesHands
    <3>2. QED
      BY <1>1, <3>1, OneRequest
  <2>2. QED
    BY <2>1
<1>5. /\ store.pipeline # <<>>
      /\ Carries(rest, store.up, wire, left, Lost(refusing))
  BY <1>1, <1>2, <1>3, <1>4, OpenStream, CarriesResult
<1>6. /\ QueueOk(mutationQueue', syncUser, nextBatchId)
      /\ queue \in Seq(Batch) /\ IdsAscend(queue)
      /\ rest \in Seq(Batch) /\ Len(rest) <= MaxPendingWrites /\ Begins(rest, queue)
  BY <1>1, <1>5, FirstAnswered
<1>7. left \in Seq(Requests)
  BY <1>1, <1>3, TailAndAppend
<1>8. ~store.idle /\ store \in Store
  BY <1>2, <1>5, OpenStream
<1> HIDE DEF rest, left, queue
<1>9. /\ popped \in Store /\ popped.pipeline = rest /\ ~popped.idle
      /\ popped.handshakeComplete /\ popped.up = store.up /\ popped.stream = store.stream
      /\ popped.closeCount = store.closeCount /\ popped.asked = store.asked
  BY <1>4, <1>6, <1>8 DEF Store
<1> HIDE DEF popped
<1>10. OpenOk(popped, wire, left, refusing)
  BY <1>5, <1>9 DEF OpenOk
<1>11. StreamOk(popped, wire, left, refusing)
  BY <1>2, <1>9, <1>10 DEF StreamOk, IsOpen
<1>12. /\ store' \in Store /\ StreamOk(store', wire, left, refusing)
       /\ PipelineOk(store'.pipeline, queue)
       /\ store'.closeCount = popped.closeCount /\ Starts(popped, store')
  BY <1>1, <1>3, <1>6, <1>7, <1>9, <1>11, FillKeepsStream
<1>13. TokensOk(store', mainQueue, workerQueue)
  <2>1. TokensOk(popped, mainQueue, workerQueue)
    BY <1>9, SameTokens DEF SInv
  <2>2. QED
    BY <1>9, <1>12, <2>1, StartingAsksOnce
<1>14. QED
  BY <1>1, <1>3, <1>6, <1>7, <1>12, <1>13 DEF SInv, queue

LEMMA HandleWriteErrorStream ==
  ASSUME IInv, SInv, HandleWriteError
  PROVE  SInv'
<1> DEFINE rest    == Tail(store.pipeline)
           closed  == Close(store, "Error")
           reset   == [closed EXCEPT !.pipeline = rest, !.stream = "Initial"]
           queue   == mutationQueue'[syncUser]
           filled  == FillWritePipeline(reset, queue)
           started == StartIfNeeded(filled)
<1>1. /\ refusing /\ store.handshakeComplete /\ StreamEnds
      /\ RemoveBatch(Head(store.pipeline))
      /\ UNCHANGED <<mainQueue, workerQueue, syncUser, nextBatchId>>
  BY DEF HandleWriteError
<1>2. store' = ForgetHandshake(started)
  <2>1. closed.pipeline = store.pipeline
    BY ClosingStream DEF SInv
  <2>2. reset = [closed EXCEPT !.pipeline = Tail(@), !.stream = "Initial"]
    BY <2>1
  <2>3. QED
    BY <2>2 DEF HandleWriteError
<1>3. IsOpen(store) /\ store \in Store
  BY <1>1 DEF SInv, StreamOk
<1>4. store.pipeline # <<>>
  <2>1. Carries(store.pipeline, store.up, wire, down, 1)
    BY <1>1, <1>3, OpenStream DEF Lost
  <2>2. /\ Len(wire) \in Nat /\ Len(down) \in Nat /\ Len(store.up) \in Nat
        /\ Len(store.pipeline) = Len(down) + 1 + Len(wire) + Len(store.up)
    BY <2>1 DEF SInv, Store, Carries
  <2>3. \A a, b, c \in Nat : a + 1 + b + c # 0
    OBVIOUS
  <2>4. Len(store.pipeline) # 0
    BY <2>2, <2>3
  <2>5. QED
    BY <2>4
<1>5. /\ QueueOk(mutationQueue', syncUser, nextBatchId)
      /\ queue \in Seq(Batch) /\ IdsAscend(queue)
      /\ rest \in Seq(Batch) /\ Len(rest) <= MaxPendingWrites /\ Begins(rest, queue)
  BY <1>1, <1>4, FirstAnswered
<1>6. /\ closed \in Store /\ ~closed.idle /\ closed.up = <<>>
      /\ closed.closeCount = store.closeCount + 1 /\ closed.asked = store.asked
      /\ closed.stream = "Error"
  BY <1>3, ClosingStream DEF ClosedOk
<1> HIDE DEF closed, rest, queue
<1>7. /\ reset \in Store /\ reset.pipeline = rest /\ reset.stream = "Initial"
      /\ ~reset.idle /\ reset.up = <<>>
      /\ reset.closeCount = store.closeCount + 1 /\ reset.asked = store.asked
  BY <1>5, <1>6 DEF Store, StreamStates
<1> HIDE DEF reset
<1>8. ClosedOk(reset)
  BY <1>7 DEF ClosedOk, IsOpen
<1>9. /\ filled \in Store /\ ClosedOk(filled) /\ PipelineOk(filled.pipeline, queue)
      /\ filled.closeCount = reset.closeCount /\ Starts(reset, filled)
  BY <1>5, <1>7, <1>8, FillClosed
<1> HIDE DEF filled
<1>10. /\ started \in Store /\ started.pipeline = filled.pipeline
       /\ started.closeCount = filled.closeCount /\ Starts(filled, started)
       /\ ClosedOk(started)
  <2>1. /\ started \in Store /\ Starts(filled, started) /\ started.pipeline = filled.pipeline
        /\ started.closeCount = filled.closeCount
        /\ started.idle = filled.idle /\ started.up = filled.up
        /\ filled.pipeline = <<>> => started = filled
        /\ ~IsOpen(filled) => ~IsOpen(started)
    BY <1>9, StartIfNeededStarts
  <2> HIDE DEF started
  <2>2. QED
    BY <1>9, <2>1 DEF ClosedOk
<1> HIDE DEF started
<1>11. /\ store' \in Store /\ ~store'.handshakeComplete /\ ClosedOk(store')
       /\ store'.pipeline = filled.pipeline /\ store'.stream = started.stream
       /\ store'.closeCount = started.closeCount /\ store'.asked = started.asked
  BY <1>2, <1>10, Forgetting
<1>12. TokensOk(store', mainQueue, workerQueue)
  <2>1. TokensOk(reset, mainQueue, workerQueue)
    BY <1>3, <1>7, ClosingForgetsTokens DEF SInv
  <2>2. TokensOk(filled, mainQueue, workerQueue)
    BY <1>7, <1>9, <2>1, StartingAsksOnce
  <2>3. TokensOk(started, mainQueue, workerQueue)
    BY <1>9, <1>10, <2>2, StartingAsksOnce
  <2>4. QED
    BY <1>11, <2>3, SameTokens
<1>13. /\ StreamOk(store', wire', down', refusing') /\ wire' \in Seq(Requests)
       /\ down' \in Seq(Requests) /\ refusing' \in BOOLEAN
  BY <1>1, <1>11, EndedStream
<1>14. QED
  BY <1>1, <1>5, <1>9, <1>11, <1>12, <1>13 DEF SInv, queue

--------------------------------------------------------------------------------
(* Every start of the app, and every step. *)

LEMMA NothingStarted ==
  /\ Closed \in Store /\ ClosedOk(Closed) /\ ~Closed.handshakeComplete
  /\ Closed.pipeline = <<>> /\ StreamOk(Closed, <<>>, <<>>, FALSE)
  /\ TokensOk(Closed, <<>>, <<>>)
<1>1. /\ Closed.pipeline = <<>> /\ Closed.stream = "Initial" /\ ~Closed.handshakeComplete
      /\ ~Closed.idle /\ Closed.up = <<>> /\ Closed.closeCount = 0 /\ Closed.asked = {}
      /\ Closed \in Store
  BY DEF Closed, Store, StreamStates, Owners
<1>2. ClosedOk(Closed)
  BY <1>1 DEF ClosedOk, IsOpen
<1>3. StreamOk(Closed, <<>>, <<>>, FALSE)
  BY <1>1, <1>2 DEF StreamOk, IsOpen
<1>4. \A count : /\ AskedFor(Closed, count) = {}
                 /\ Posted(<<>>, count) = {} /\ Resuming(<<>>, count) = {}
  BY <1>1 DEF AskedFor, Posted, Resuming
<1>5. TokensOk(Closed, <<>>, <<>>)
  BY <1>4 DEF TokensOk, AtMostOne
<1>6. QED
  BY <1>1, <1>2, <1>3, <1>5

LEMMA RestartStream ==
  ASSUME IInv, SInv, Restart
  PROVE  SInv'
<1> DEFINE queue == mutationQueue[authUser]
<1>1. /\ mainQueue' = <<>> /\ workerQueue' = <<>> /\ syncUser' = authUser
      /\ nextBatchId' = NextBatchId /\ StreamEnds
      /\ store' = FillWritePipeline(Closed, queue)
      /\ UNCHANGED mutationQueue
  BY DEF Restart
<1>2. authUser \in Owners
  BY DEF IInv, QueuesOk
<1>3. QueueOk(mutationQueue, authUser, NextBatchId)
  BY <1>2, SwitchOk DEF SInv
<1>4. queue \in Seq(Batch) /\ IdsAscend(queue)
  BY <1>2, <1>3 DEF QueueOk
<1>5. Len(Closed.pipeline) <= MaxPendingWrites /\ Begins(Closed.pipeline, queue)
  BY <1>4, NothingStarted, PipelineHasRoom DEF Begins
<1> HIDE DEF queue
<1>6. /\ store' \in Store /\ ClosedOk(store') /\ ~store'.handshakeComplete
      /\ PipelineOk(store'.pipeline, queue)
      /\ store'.closeCount = Closed.closeCount /\ Starts(Closed, store')
  BY <1>1, <1>4, <1>5, NothingStarted, FillClosed
<1>7. TokensOk(store', <<>>, <<>>)
  BY <1>6, NothingStarted, StartingAsksOnce
<1>8. /\ StreamOk(store', wire', down', refusing') /\ wire' \in Seq(Requests)
      /\ down' \in Seq(Requests) /\ refusing' \in BOOLEAN
  BY <1>1, <1>6, EndedStream
<1>9. QED
  BY <1>1, <1>3, <1>6, <1>7, <1>8 DEF SInv, queue

LEMMA InitStream == Init => SInv
<1> SUFFICES ASSUME Init  PROVE  SInv
  OBVIOUS
<1>1. /\ mutationQueue = [u \in Owners |-> <<>>] /\ nextBatchId = 1 /\ syncUser = NoUser
      /\ store = Closed /\ wire = <<>> /\ down = <<>> /\ refusing = FALSE
      /\ mainQueue = <<>> /\ workerQueue = <<>>
  BY DEF Init
<1>2. syncUser \in Owners /\ mutationQueue[syncUser] = <<>>
  BY <1>1 DEF Owners
<1>3. mutationQueue \in [Owners -> Seq(Batch)]
  BY <1>1
<1>4. \A u \in Owners : IdsAscend(mutationQueue[u])
  BY <1>1 DEF IdsAscend
<1>5. HasHighest(Ids(mutationQueue))
  <2>1. ASSUME NEW k \in Ids(mutationQueue)  PROVE  k = 0
    <3>1. \A u \in Owners : DOMAIN mutationQueue[u] = {}
      BY <1>1
    <3>2. k = 0 \/ \E u \in Owners : \E i \in DOMAIN mutationQueue[u] : k = mutationQueue[u][i].id
      BY <1>3, IdsAreOfBatches
    <3>3. QED
      BY <3>1, <3>2
  <2>2. 0 \in Ids(mutationQueue)
    BY DEF Ids
  <2>3. Ids(mutationQueue) = {0}
    BY <2>1, <2>2
  <2>4. HasHighest({0})
    BY DEF HasHighest
  <2>5. QED
    BY <2>3, <2>4
<1>6. QueueOk(mutationQueue, syncUser, nextBatchId)
  BY <1>1, <1>2, <1>3, <1>4, <1>5 DEF QueueOk
<1>7. PipelineOk(store.pipeline, mutationQueue[syncUser])
  <2>1. Begins(<<>>, <<>>) /\ Len(<<>>) <= MaxPendingWrites
    BY PipelineHasRoom DEF Begins
  <2>2. QED
    BY <1>1, <1>2, <2>1, NothingStarted DEF PipelineOk
<1>8. /\ store \in Store /\ StreamOk(store, wire, down, refusing)
      /\ TokensOk(store, mainQueue, workerQueue)
  BY <1>1, NothingStarted
<1>9. wire \in Seq(Requests) /\ down \in Seq(Requests)
  BY <1>1, OneRequest
<1>10. refusing \in BOOLEAN
  BY <1>1
<1>11. QED
  BY <1>6, <1>7, <1>8, <1>9, <1>10 DEF SInv

LEMMA NextKeepsSInv == IInv /\ SInv /\ [Next]_vars => SInv'
<1> SUFFICES ASSUME IInv, SInv, [Next]_vars
             PROVE  SInv'
  OBVIOUS
<1>1. CASE WriteMutations \/ RunWriteMutations
  BY <1>1, WriteMutationsStream, RunWriteMutationsStream
<1>2. CASE \E u \in Owners : ChangeAuthUser(u)
  BY <1>2, ChangeAuthUserStream
<1>3. CASE \E request \in store.asked : AuthGetsToken(request)
  BY <1>3, AuthGetsTokenStream
<1>4. CASE RunAuthStateDidChange \/ RunGetTokenCallback
  BY <1>4, RunAuthStateDidChangeStream, RunGetTokenCallbackStream
<1>5. CASE HandleCredentialChange \/ ResumeStartWithCredentials \/ ResumeStartFails
  BY <1>5, HandleCredentialChangeStream, ResumeStartWithCredentialsStream,
     ResumeStartFailsStream
<1>6. CASE BackoffElapses \/ IdleTimeout
  BY <1>6, BackoffElapsesStream, IdleTimeoutStream
<1>7. CASE OnHandshakeResponse \/ OnMutationResult
  BY <1>7, OnHandshakeResponseStream, OnMutationResultStream
<1>8. CASE StreamFails \/ HandleWriteError \/ ConnectivityChanges
  BY <1>8, StreamFailsStream, HandleWriteErrorStream, ConnectivityChangesStream
<1>9. CASE Carry \/ BackendAnswers
  BY <1>9, CarryStream, BackendAnswersStream
<1>10. CASE Restart
  BY <1>10, RestartStream
<1>11. CASE (\E l \in leftovers : BackendAppliesLeftover(l)) \/ UNCHANGED vars
  <2>1. UNCHANGED <<mainQueue, workerQueue, syncUser, mutationQueue, nextBatchId,
                    store, wire, down, refusing>>
    BY <1>11 DEF BackendAppliesLeftover, vars, client, network
  <2>2. QED
    BY <2>1 DEF SInv
<1>12. QED
  BY <1>1, <1>2, <1>3, <1>4, <1>5, <1>6, <1>7, <1>8, <1>9, <1>10, <1>11 DEF Next

LEMMA SInvMeansMirrored == IInv /\ SInv => StreamMirrorsQueue
<1> SUFFICES ASSUME IInv, SInv
             PROVE  PipelineIsPrefix
                    /\ (Sendable(store) /\ ~refusing
                          => down \o wire \o store.up = WritesOf(store.pipeline))
  BY DEF StreamMirrorsQueue
<1> DEFINE p == store.pipeline
           q == mutationQueue[syncUser]
<1>1. /\ p \in Seq(Batch) /\ q \in Seq(Batch) /\ PipelineOk(p, q)
      /\ Len(p) \in Nat /\ Len(q) \in Nat
  BY DEF SInv, QueueOk, Store, IInv, QueuesOk
<1>2. PipelineIsPrefix
  <2>1. Len(p) <= Len(q) /\ \A i \in 1..Len(p) : p[i] = q[i]
    BY <1>1 DEF PipelineOk, Begins
  <2> HIDE DEF p, q
  <2>2. DOMAIN p = 1..Len(p) /\ DOMAIN q = 1..Len(q)
    BY <1>1
  <2>3. IsPrefix(p, q)
    BY <1>1, <2>1, <2>2 DEF IsPrefix
  <2>4. QED
    BY <1>1, <2>3 DEF PipelineOk, PipelineIsPrefix, p, q
<1>3. ASSUME Sendable(store), ~refusing
      PROVE  down \o wire \o store.up = WritesOf(p)
  <2> DEFINE d == down  w == wire  u == store.up
             t == WritesOf(p)
  <2>1. Carries(p, u, w, d, 0)
    BY <1>3, OpenStream DEF Sendable, Lost
  <2>2. /\ d \in Seq(Requests) /\ w \in Seq(Requests) /\ u \in Seq(Requests)
        /\ Len(d) \in Nat /\ Len(w) \in Nat /\ Len(u) \in Nat
    BY DEF SInv, Store
  <2>3. /\ t \in Seq(Writes) /\ Len(t) = Len(p)
        /\ \A i \in 1..Len(p) : t[i] = p[i].write
    BY <1>1, Writing
  <2> HIDE DEF d, w, u
  <2> DEFINE dw  == d \o w
             all == dw \o u
  <2>4. /\ dw \in Seq(Requests) /\ Len(dw) = Len(d) + Len(w)
        /\ \A i \in 1..(Len(d) + Len(w)) : dw[i] = IF i <= Len(d) THEN d[i] ELSE w[i - Len(d)]
    BY <2>2, ConcatProperties
  <2> HIDE DEF dw
  <2>5. /\ all \in Seq(Requests) /\ Len(all) = Len(dw) + Len(u)
        /\ \A i \in 1..(Len(dw) + Len(u)) :
             all[i] = IF i <= Len(dw) THEN dw[i] ELSE u[i - Len(dw)]
    <3>1. dw \in Seq(Requests) /\ u \in Seq(Requests)
      BY <2>2, <2>4
    <3>2. QED
      BY <3>1, ConcatProperties
  <2> HIDE DEF all, t, p
  <2>6. Len(p) = Len(d) + Len(w) + Len(u) /\ Len(all) = Len(p)
    BY <1>1, <2>1, <2>2, <2>4, <2>5 DEF Carries
  <2>7. ASSUME NEW i \in 1..Len(p)  PROVE  all[i] = t[i]
    <3>1. i \in Nat \ {0} /\ i <= Len(d) + Len(w) + Len(u)
      BY <1>1, <2>2, <2>6
    <3>2. CASE i <= Len(d)
      <4>1. i \in 1..Len(d) /\ all[i] = d[i]
        BY <2>2, <2>4, <2>5, <3>1, <3>2
      <4>2. QED
        BY <2>1, <2>3, <4>1 DEF Carries
    <3>3. CASE i > Len(d) /\ i <= Len(d) + Len(w)
      <4>1. i - Len(d) \in 1..Len(w) /\ Len(d) + 0 + (i - Len(d)) = i
        BY <2>2, <3>1, <3>3
      <4>2. all[i] = w[i - Len(d)]
        BY <2>2, <2>4, <2>5, <3>1, <3>3
      <4>3. w[i - Len(d)] = p[Len(d) + 0 + (i - Len(d))].write
        BY <2>1, <4>1 DEF Carries
      <4>4. QED
        BY <2>3, <4>1, <4>2, <4>3
    <3>4. CASE i > Len(d) + Len(w)
      <4> DEFINE k == i - (Len(d) + Len(w))
      <4>1. k \in 1..Len(u) /\ Len(d) + 0 + Len(w) + k = i
        BY <2>2, <3>1, <3>4
      <4>2. all[i] = u[k]
        BY <2>2, <2>4, <2>5, <3>1, <3>4
      <4> HIDE DEF k
      <4>3. u[k] = p[Len(d) + 0 + Len(w) + k].write
        BY <2>1, <4>1 DEF Carries
      <4>4. QED
        BY <2>3, <4>1, <4>2, <4>3
    <3>5. QED
      BY <2>2, <3>1, <3>2, <3>3, <3>4
  <2>8. all = t
    <3>1. t \in Seq(Requests)
      <4>1. Writes \subseteq Requests
        BY DEF Requests
      <4>2. QED
        BY <2>3, <4>1, SeqMonotonic
    <3>2. Len(all) = Len(t) /\ \A i \in 1..Len(all) : all[i] = t[i]
      BY <2>3, <2>6, <2>7
    <3>3. QED
      BY <2>5, <3>1, <3>2, SeqEqual
  <2>9. QED
    BY <2>8 DEF all, dw, d, w, u, t
<1>4. QED
  BY <1>2, <1>3

(* The pipeline is the beginning of the open queue, whoever signed in or   *)
(* out, and an open stream carries it, so that the result that comes next  *)
(* is that of its first batch: OnWriteStreamMutationResult, which learns   *)
(* no name, answers the right write.                                       *)
THEOREM StreamsMirrorQueues == Spec => []StreamMirrorsQueue
<1>1. Spec => []IInv
  BY InitIsOk, NextKeepsIInv, PTL DEF Spec
<1>2. Init => SInv
  BY InitStream
<1>3. IInv /\ SInv /\ [Next]_vars => SInv'
  BY NextKeepsSInv
<1>4. Spec => []SInv
  BY <1>1, <1>2, <1>3, PTL DEF Spec
<1>5. QED
  BY <1>1, <1>4, SInvMeansMirrored, PTL

--------------------------------------------------------------------------------
(* What the app is told.  Each write is numbered as it is made; the ones   *)
(* that are handled wait for an answer or have had one, and the ones on    *)
(* the worker queue were made later, in the order of that queue.           *)

IsWrite(operation) == operation.op = "write"

CallbackRecord == [user : Owners, id : Nat \ {0}, write : Writes]
OutcomeRecord  == [told : Writes, of : Writes, success : BOOLEAN]

Handled(cbs, outs) == {c.write : c \in cbs} \cup {o.told : o \in outs}

WritesAscend(worker, handled, count) ==
  /\ \A h \in handled : h <= count
  /\ \A i \in DOMAIN worker : IsWrite(worker[i]) =>
       /\ worker[i].write <= count
       /\ \A h \in handled : h < worker[i].write
       /\ \A j \in DOMAIN worker :
            i < j /\ IsWrite(worker[j]) => worker[i].write < worker[j].write

Waits(c, queues) ==
  \E i \in DOMAIN queues[c.user] :
    queues[c.user][i].id = c.id /\ queues[c.user][i].write = c.write

CallbacksOk(cbs, queues) ==
  /\ cbs \subseteq CallbackRecord
  /\ \A c \in cbs : Waits(c, queues)
  /\ \A c1, c2 \in cbs : c1.write = c2.write => c1 = c2

OutcomesOk(outs, held) ==
  /\ outs \subseteq OutcomeRecord
  /\ \A o \in outs : o.told = o.of /\ (o.success => o.of \in held)
  /\ \A o1, o2 \in outs : o1.told = o2.told => o1 = o2

Apart(cbs, outs) == \A c \in cbs : \A o \in outs : c.write # o.told

(* The results on their way are of writes that the backend holds. *)
ResultsOk(d, held) == \A i \in DOMAIN d : d[i] # Handshake => d[i] \in held

AInv ==
  /\ CallbacksOk(callbacks, mutationQueue)
  /\ OutcomesOk(outcomes, stored)
  /\ Apart(callbacks, outcomes)
  /\ ResultsOk(down, stored)
  /\ WritesAscend(workerQueue, Handled(callbacks, outcomes), made)
  /\ made \in 0..MaxWrites

LEMMA HandledAreNumbers ==
  ASSUME NEW cbs \in SUBSET CallbackRecord, NEW outs \in SUBSET OutcomeRecord
  PROVE  \A h \in Handled(cbs, outs) : h \in Nat
BY PipelineBounds DEF CallbackRecord, OutcomeRecord, Writes, Handled

LEMMA WritesAreTyped ==
  ASSUME NEW worker \in Seq(Operation), NEW i \in DOMAIN worker, IsWrite(worker[i])
  PROVE  worker[i].write \in Writes /\ worker[i].write \in Nat
<1>1. worker[i] \in Operation
  OBVIOUS
<1>2. QED
  BY <1>1, PipelineBounds DEF Operation, IsWrite, Writes

LEMMA AscendingTail ==
  ASSUME NEW worker \in Seq(Operation), worker # <<>>, NEW handled, NEW count,
         WritesAscend(worker, handled, count)
  PROVE  WritesAscend(Tail(worker), handled, count)
<1>1. \A i \in DOMAIN Tail(worker) :
        i \in Nat /\ i + 1 \in DOMAIN worker /\ Tail(worker)[i] = worker[i + 1]
  BY TailAndAppend
<1>2. QED
  BY <1>1 DEF WritesAscend

(* The first of the worker queue was made before those behind it. *)
LEMMA AscendingHead ==
  ASSUME NEW worker \in Seq(Operation), worker # <<>>, IsWrite(Head(worker)),
         NEW handled, NEW count, WritesAscend(worker, handled, count)
  PROVE  /\ Head(worker).write \notin handled
         /\ WritesAscend(Tail(worker), handled \cup {Head(worker).write}, count)
<1>1. \A i \in DOMAIN Tail(worker) :
        i \in Nat \ {0} /\ i + 1 \in DOMAIN worker /\ Tail(worker)[i] = worker[i + 1]
  BY TailAndAppend
<1>2. 1 \in DOMAIN worker /\ Head(worker) = worker[1]
  BY TailAndAppend
<1>3. worker[1].write \in Nat /\ worker[1].write <= count
  BY <1>2, WritesAreTyped DEF WritesAscend
<1>4. WritesAscend(Tail(worker), handled, count)
  BY AscendingTail
<1>5. ASSUME NEW i \in DOMAIN Tail(worker), IsWrite(Tail(worker)[i])
      PROVE  worker[1].write < Tail(worker)[i].write
  BY <1>1, <1>2, <1>5 DEF WritesAscend
<1>6. worker[1].write \notin handled
  <2>1. \A h \in handled : h < worker[1].write
    BY <1>2 DEF WritesAscend
  <2>2. ~(worker[1].write < worker[1].write)
    BY <1>3
  <2>3. QED
    BY <2>1, <2>2
<1>7. QED
  BY <1>2, <1>3, <1>4, <1>5, <1>6 DEF WritesAscend

LEMMA AscendingMore ==
  ASSUME NEW worker \in Seq(Operation), NEW op \in Operation, ~IsWrite(op),
         NEW handled, NEW count, WritesAscend(worker, handled, count)
  PROVE  WritesAscend(Append(worker, op), handled, count)
<1> DEFINE longer == Append(worker, op)
<1>1. /\ Len(worker) \in Nat /\ DOMAIN worker = 1..Len(worker)
      /\ DOMAIN longer = 1..(Len(worker) + 1) /\ longer[Len(worker) + 1] = op
      /\ \A i \in DOMAIN worker : longer[i] = worker[i]
  BY TailAndAppend
<1> HIDE DEF longer
<1>2. \A i \in DOMAIN longer : IsWrite(longer[i]) => i \in DOMAIN worker
  BY <1>1
<1>3. QED
  BY <1>1, <1>2 DEF WritesAscend, longer

(* A new write has the next number. *)
LEMMA AscendingWrite ==
  ASSUME NEW worker \in Seq(Operation), NEW count \in Nat, count + 1 \in Writes,
         NEW handled, \A h \in handled : h \in Nat, WritesAscend(worker, handled, count)
  PROVE  WritesAscend(Append(worker, WriteOp(count + 1)), handled, count + 1)
<1> DEFINE op     == WriteOp(count + 1)
           longer == Append(worker, op)
<1>1. op \in Operation /\ IsWrite(op) /\ op.write = count + 1
  BY BlocksAndOperations DEF WriteOp, IsWrite
<1> HIDE DEF op
<1>2. /\ Len(worker) \in Nat /\ DOMAIN worker = 1..Len(worker)
      /\ DOMAIN longer = 1..(Len(worker) + 1) /\ longer[Len(worker) + 1] = op
      /\ \A i \in DOMAIN worker : longer[i] = worker[i]
  BY <1>1, TailAndAppend
<1> HIDE DEF longer
<1>3. \A h \in handled : h <= count + 1 /\ h < count + 1
  BY DEF WritesAscend
<1>4. ASSUME NEW i \in DOMAIN worker, IsWrite(worker[i])
      PROVE  /\ worker[i].write \in Nat /\ worker[i].write <= count
             /\ worker[i].write < count + 1 /\ worker[i].write <= count + 1
  BY <1>4, WritesAreTyped DEF WritesAscend
<1>5. ASSUME NEW i \in DOMAIN longer, IsWrite(longer[i])
      PROVE  /\ longer[i].write <= count + 1
             /\ \A h \in handled : h < longer[i].write
             /\ \A j \in DOMAIN longer :
                  i < j /\ IsWrite(longer[j]) => longer[i].write < longer[j].write
  <2>1. CASE i \in DOMAIN worker
    <3>1. longer[i] = worker[i] /\ IsWrite(worker[i])
      BY <1>2, <1>5, <2>1
    <3>2. ASSUME NEW j \in DOMAIN longer, i < j, IsWrite(longer[j])
          PROVE  longer[i].write < longer[j].write
      <4>1. CASE j \in DOMAIN worker
        BY <1>2, <2>1, <3>1, <3>2, <4>1 DEF WritesAscend
      <4>2. CASE j = Len(worker) + 1
        BY <1>1, <1>2, <1>4, <2>1, <3>1, <4>2
      <4>3. QED
        BY <1>2, <4>1, <4>2
    <3>3. QED
      BY <1>4, <2>1, <3>1, <3>2 DEF WritesAscend
  <2>2. CASE i = Len(worker) + 1
    <3>1. \A j \in DOMAIN longer : ~(i < j)
      BY <1>2, <2>2
    <3>2. QED
      BY <1>1, <1>2, <1>3, <2>2, <3>1
  <2>3. QED
    BY <1>2, <2>1, <2>2
<1>6. QED
  BY <1>3, <1>5 DEF WritesAscend, longer, op

(* Steps that tell nobody anything. *)
LEMMA NothingTold ==
  ASSUME AInv, UNCHANGED <<mutationQueue, callbacks, outcomes, made>>,
         stored \subseteq stored', ResultsOk(down', stored'),
         WritesAscend(workerQueue', Handled(callbacks, outcomes), made)
  PROVE  AInv'
<1>1. OutcomesOk(outcomes, stored')
  BY DEF AInv, OutcomesOk
<1>2. QED
  BY <1>1 DEF AInv

LEMMA FewerResults ==
  ASSUME NEW d \in Seq(Requests), NEW held, ResultsOk(d, held)
  PROVE  /\ ResultsOk(<<>>, held)
         /\ d # <<>> => ResultsOk(Tail(d), held)
<1>1. ResultsOk(<<>>, held)
  BY DEF ResultsOk
<1>2. ASSUME d # <<>>  PROVE  ResultsOk(Tail(d), held)
  <2>1. \A i \in DOMAIN Tail(d) : i + 1 \in DOMAIN d /\ Tail(d)[i] = d[i + 1]
    BY <1>2, TailAndAppend
  <2>2. QED
    BY <2>1 DEF ResultsOk
<1>3. QED
  BY <1>1, <1>2

LEMMA WriteMutationsTells ==
  ASSUME IInv, AInv, WriteMutations
  PROVE  AInv'
<1>1. /\ made < MaxWrites /\ made' = made + 1
      /\ workerQueue' = Append(workerQueue, WriteOp(made + 1))
      /\ UNCHANGED <<mutationQueue, callbacks, outcomes, stored, down>>
  BY DEF WriteMutations, client, network
<1>2. made \in Nat /\ made' \in 0..MaxWrites /\ made + 1 \in Writes
  BY <1>1, PipelineBounds DEF AInv, Writes
<1>3. \A h \in Handled(callbacks, outcomes) : h \in Nat
  BY HandledAreNumbers DEF AInv, CallbacksOk, OutcomesOk
<1>4. WritesAscend(workerQueue', Handled(callbacks, outcomes), made')
  BY <1>1, <1>2, <1>3, AscendingWrite DEF AInv, IInv, QueuesOk
<1>5. QED
  BY <1>1, <1>2, <1>4 DEF AInv

(* Steps that neither make nor run a write. *)
OtherStep ==
  \/ \E u \in Owners : ChangeAuthUser(u)
  \/ \E request \in store.asked : AuthGetsToken(request)
  \/ RunAuthStateDidChange \/ RunGetTokenCallback
  \/ HandleCredentialChange \/ ResumeStartWithCredentials \/ ResumeStartFails
  \/ BackoffElapses \/ IdleTimeout \/ StreamFails \/ ConnectivityChanges
  \/ OnHandshakeResponse \/ OnMutationResult \/ HandleWriteError
  \/ Carry \/ BackendAnswers \/ \E l \in leftovers : BackendAppliesLeftover(l)
  \/ Restart \/ UNCHANGED vars

LEMMA OtherStepsAscend ==
  ASSUME IInv, OtherStep, NEW handled, WritesAscend(workerQueue, handled, made)
  PROVE  made' = made /\ WritesAscend(workerQueue', handled, made')
<1>1. CASE RunAuthStateDidChange \/ RunGetTokenCallback
  <2>1. made' = made
    BY <1>1 DEF RunAuthStateDidChange, RunGetTokenCallback, counts
  <2>2. \/ UNCHANGED workerQueue
        \/ \E op \in Operation : ~IsWrite(op) /\ workerQueue' = Append(workerQueue, op)
    <3>1. CASE RunAuthStateDidChange
      <4>1. Head(mainQueue).user \in Owners
        BY <3>1, HeadsAreTyped DEF RunAuthStateDidChange, IInv, IsNotice
      <4>2. CredentialChangeOp(Head(mainQueue).user) \in Operation
            /\ ~IsWrite(CredentialChangeOp(Head(mainQueue).user))
        BY <4>1, BlocksAndOperations DEF CredentialChangeOp, IsWrite
      <4>3. QED
        BY <3>1, <4>2 DEF RunAuthStateDidChange
    <3>2. CASE RunGetTokenCallback
      <4> DEFINE count == Head(mainQueue).request.closeCount
                 token == Head(mainQueue).token
      <4>1. count \in Nat /\ token \in Owners
        BY <3>2, HeadsAreTyped DEF RunGetTokenCallback, IInv, TokenRequest
      <4>2. \/ UNCHANGED workerQueue
            \/ workerQueue' = Append(workerQueue, ResumeStartOp(count, token))
        BY <3>2 DEF RunGetTokenCallback
      <4> HIDE DEF count, token
      <4>3. ResumeStartOp(count, token) \in Operation /\ ~IsWrite(ResumeStartOp(count, token))
        BY <4>1, BlocksAndOperations DEF ResumeStartOp, IsWrite
      <4>4. QED
        BY <4>2, <4>3
    <3>3. QED
      BY <1>1, <3>1, <3>2
  <2>3. QED
    BY <2>1, <2>2, AscendingMore DEF IInv, QueuesOk
<1>2. CASE HandleCredentialChange \/ ResumeStartWithCredentials \/ ResumeStartFails
  <2>1. workerQueue # <<>> /\ workerQueue' = Tail(workerQueue) /\ made' = made
    BY <1>2 DEF HandleCredentialChange, ResumeStartWithCredentials, ResumeStartFails, counts
  <2>2. QED
    BY <2>1, AscendingTail DEF IInv, QueuesOk
<1>3. CASE Restart
  <2>1. workerQueue' = <<>> /\ made' = made
    BY <1>3 DEF Restart
  <2>2. WritesAscend(<<>>, handled, made)
    BY DEF WritesAscend
  <2>3. QED
    BY <2>1, <2>2
<1>4. CASE \/ \E u \in Owners : ChangeAuthUser(u)
           \/ \E request \in store.asked : AuthGetsToken(request)
           \/ BackoffElapses \/ IdleTimeout \/ StreamFails \/ ConnectivityChanges
           \/ OnHandshakeResponse \/ OnMutationResult \/ HandleWriteError
           \/ Carry \/ BackendAnswers \/ UNCHANGED vars
           \/ \E l \in leftovers : BackendAppliesLeftover(l)
  <2>1. UNCHANGED <<workerQueue, made>>
    <3>1. CASE \/ \E u \in Owners : ChangeAuthUser(u)
               \/ \E request \in store.asked : AuthGetsToken(request)
               \/ BackoffElapses \/ IdleTimeout \/ StreamFails \/ ConnectivityChanges
      BY <3>1 DEF ChangeAuthUser, AuthGetsToken, BackoffElapses, IdleTimeout, StreamFails,
                  ConnectivityChanges, counts
    <3>2. CASE \/ OnHandshakeResponse \/ OnMutationResult \/ HandleWriteError
               \/ Carry \/ BackendAnswers \/ UNCHANGED vars
               \/ \E l \in leftovers : BackendAppliesLeftover(l)
      BY <3>2 DEF OnHandshakeResponse, OnMutationResult, HandleWriteError, Carry,
                  BackendAnswers, BackendAppliesLeftover, vars, counts
    <3>3. QED
      BY <1>4, <3>1, <3>2
  <2>2. QED
    BY <2>1
<1>5. QED
  BY <1>1, <1>2, <1>3, <1>4 DEF OtherStep

LEMMA StreamEndsQuietly ==
  ASSUME SInv, AInv, StreamEnds \/ EndStreamIf(IsStarted(store)) \/ UNCHANGED down
  PROVE  ResultsOk(down', stored)
<1>1. down' = <<>> \/ down' = down
  BY DEF StreamEnds, EndStreamIf, network
<1>2. QED
  BY <1>1, FewerResults DEF AInv, SInv

LEMMA QuietStepsTell ==
  ASSUME IInv, SInv, AInv,
         \/ \E u \in Owners : ChangeAuthUser(u)
         \/ \E request \in store.asked : AuthGetsToken(request)
         \/ RunAuthStateDidChange \/ RunGetTokenCallback
         \/ HandleCredentialChange \/ ResumeStartWithCredentials \/ ResumeStartFails
         \/ BackoffElapses \/ IdleTimeout \/ StreamFails \/ ConnectivityChanges
         \/ OnHandshakeResponse \/ Carry \/ UNCHANGED vars
  PROVE  AInv'
<1>1. /\ UNCHANGED <<mutationQueue, callbacks, outcomes, stored>>
      /\ \/ StreamEnds \/ EndStreamIf(IsStarted(store)) \/ UNCHANGED down
         \/ down # <<>> /\ down' = Tail(down)
  <2>1. CASE \/ \E u \in Owners : ChangeAuthUser(u)
             \/ \E request \in store.asked : AuthGetsToken(request)
             \/ RunAuthStateDidChange \/ RunGetTokenCallback
    BY <2>1 DEF ChangeAuthUser, AuthGetsToken, RunAuthStateDidChange, RunGetTokenCallback,
                client, network
  <2>2. CASE \/ HandleCredentialChange \/ ResumeStartWithCredentials \/ ResumeStartFails
             \/ BackoffElapses \/ IdleTimeout \/ StreamFails \/ ConnectivityChanges
    BY <2>2 DEF HandleCredentialChange, ResumeStartWithCredentials, ResumeStartFails,
                BackoffElapses, IdleTimeout, StreamFails, ConnectivityChanges, client, network,
                EndStreamIf
  <2>3. CASE OnHandshakeResponse \/ Carry \/ UNCHANGED vars
    BY <2>3 DEF OnHandshakeResponse, Carry, vars, client, network
  <2>4. QED
    BY <2>1, <2>2, <2>3
<1>2. ResultsOk(down', stored)
  BY <1>1, StreamEndsQuietly, FewerResults DEF SInv, AInv
<1>3. made' = made /\ WritesAscend(workerQueue', Handled(callbacks, outcomes), made)
  BY OtherStepsAscend DEF AInv, OtherStep
<1>4. QED
  BY <1>1, <1>2, <1>3, NothingTold

LEMMA BackendTells ==
  ASSUME SInv, AInv, BackendAnswers \/ \E l \in leftovers : BackendAppliesLeftover(l)
  PROVE  AInv'
<1>1. /\ UNCHANGED <<workerQueue, mutationQueue, callbacks, outcomes, made>>
      /\ stored \subseteq stored'
  BY DEF BackendAnswers, BackendAppliesLeftover, Apply, client, counts
<1>2. ASSUME ResultsOk(down, stored)  PROVE  ResultsOk(down, stored')
  BY <1>1, <1>2 DEF ResultsOk
<1>3. ResultsOk(down', stored')
  <2>1. CASE UNCHANGED down
    BY <1>2, <2>1 DEF AInv
  <2>2. CASE ~UNCHANGED down
    <3>1. /\ wire # <<>> /\ down' = Append(down, Head(wire))
          /\ Head(wire) # Handshake => Head(wire) \in stored'
      BY <2>2 DEF BackendAnswers, BackendAppliesLeftover, Apply
    <3>2. Head(wire) \in Requests /\ down \in Seq(Requests)
      BY <3>1, TailAndAppend DEF SInv
    <3>3. /\ DOMAIN down' = DOMAIN down \cup {Len(down) + 1}
          /\ down'[Len(down) + 1] = Head(wire)
          /\ \A i \in DOMAIN down : down'[i] = down[i]
      BY <3>1, <3>2, TailAndAppend
    <3>4. QED
      BY <1>2, <3>1, <3>3 DEF ResultsOk, AInv
  <2>3. QED
    BY <2>1, <2>2
<1>4. QED
  BY <1>1, <1>3, NothingTold DEF AInv

(* A restart forgets the callbacks, and what was on the worker queue. *)
LEMMA RestartTells ==
  ASSUME SInv, AInv, Restart
  PROVE  AInv'
<1>1. /\ workerQueue' = <<>> /\ callbacks' = {} /\ StreamEnds
      /\ UNCHANGED <<mutationQueue, outcomes, made, stored>>
  BY DEF Restart
<1>2. ResultsOk(down', stored)
  BY <1>1, StreamEndsQuietly
<1>3. CallbacksOk(callbacks', mutationQueue) /\ Apart(callbacks', outcomes)
  BY <1>1 DEF CallbacksOk, Apart
<1>4. WritesAscend(<<>>, Handled({}, outcomes), made)
  BY DEF AInv, WritesAscend, Handled
<1>5. QED
  BY <1>1, <1>2, <1>3, <1>4 DEF AInv

LEMMA RunWriteMutationsTells ==
  ASSUME IInv, SInv, AInv, RunWriteMutations
  PROVE  AInv'
<1> DEFINE w     == Head(workerQueue).write
           batch == [id |-> nextBatchId, write |-> w]
           new   == [user |-> syncUser, id |-> nextBatchId, write |-> w]
           q     == mutationQueue[syncUser]
           more  == Append(q, batch)
<1>1. /\ workerQueue # <<>> /\ IsWrite(Head(workerQueue)) /\ workerQueue' = Tail(workerQueue)
      /\ mutationQueue' = [mutationQueue EXCEPT ![syncUser] = more]
      /\ callbacks' = callbacks \cup {new}
      /\ UNCHANGED <<outcomes, made, stored, down>>
  BY DEF RunWriteMutations, IsWrite, network, counts
<1>2. /\ workerQueue \in Seq(Operation) /\ syncUser \in Owners /\ nextBatchId \in Nat \ {0}
      /\ mutationQueue \in [Owners -> Seq(Batch)] /\ q \in Seq(Batch)
  BY DEF IInv, QueuesOk, SInv, QueueOk
<1>3. w \in Writes
  <2>1. 1 \in DOMAIN workerQueue /\ Head(workerQueue) = workerQueue[1]
    BY <1>1, <1>2, TailAndAppend
  <2>2. QED
    BY <1>1, <1>2, <2>1, WritesAreTyped
<1>4. /\ w \notin Handled(callbacks, outcomes)
      /\ WritesAscend(workerQueue', Handled(callbacks, outcomes) \cup {w}, made)
  BY <1>1, <1>2, AscendingHead DEF AInv
<1> HIDE DEF w
<1>5. /\ new \in CallbackRecord /\ new.write = w /\ new.user = syncUser /\ new.id = nextBatchId
      /\ batch \in Batch /\ batch.id = nextBatchId /\ batch.write = w
  BY <1>2, <1>3 DEF CallbackRecord, Batch
<1> HIDE DEF new, batch
<1>6. /\ Len(q) \in Nat /\ Len(q) + 1 \in DOMAIN more /\ more[Len(q) + 1] = batch
      /\ \A i \in DOMAIN q : i \in DOMAIN more /\ more[i] = q[i]
  BY <1>2, <1>5, TailAndAppend
<1> HIDE DEF q, more
<1>7. /\ mutationQueue'[syncUser] = more
      /\ \A u \in Owners : u # syncUser => mutationQueue'[u] = mutationQueue[u]
  BY <1>1, <1>2
<1>8. ASSUME NEW c \in callbacks  PROVE  Waits(c, mutationQueue')
  <2>1. c.user \in Owners /\ Waits(c, mutationQueue)
    BY DEF AInv, CallbacksOk, CallbackRecord
  <2>2. CASE c.user = syncUser
    BY <1>6, <1>7, <2>1, <2>2 DEF Waits, q
  <2>3. CASE c.user # syncUser
    BY <1>7, <2>1, <2>3 DEF Waits
  <2>4. QED
    BY <2>2, <2>3
<1>9. Waits(new, mutationQueue')
  BY <1>5, <1>6, <1>7 DEF Waits
<1>10. CallbacksOk(callbacks', mutationQueue') /\ Apart(callbacks', outcomes)
  <2>1. callbacks' \subseteq CallbackRecord /\ \A c \in callbacks' : Waits(c, mutationQueue')
    BY <1>1, <1>5, <1>8, <1>9 DEF AInv, CallbacksOk
  <2>2. \A c \in callbacks : c.write # w
    BY <1>4 DEF Handled
  <2>3. \A o \in outcomes : o.told # w
    BY <1>4 DEF Handled
  <2>4. QED
    BY <1>1, <1>5, <2>1, <2>2, <2>3 DEF AInv, CallbacksOk, Apart
<1>11. Handled(callbacks', outcomes) = Handled(callbacks, outcomes) \cup {w}
  BY <1>1, <1>5 DEF Handled
<1>12. QED
  BY <1>1, <1>4, <1>10, <1>11 DEF AInv

(* An answer to the first of the queue finds the callback of that write.   *)
LEMMA AnswersTell ==
  ASSUME IInv, SInv, AInv, store.pipeline # <<>>, NEW success \in BOOLEAN,
         success => Head(store.pipeline).write \in stored,
         NotifyUser(Head(store.pipeline), success), RemoveBatch(Head(store.pipeline))
  PROVE  /\ CallbacksOk(callbacks', mutationQueue')
         /\ OutcomesOk(outcomes', stored)
         /\ Apart(callbacks', outcomes')
         /\ WritesAscend(workerQueue, Handled(callbacks', outcomes'), made)
<1> DEFINE batch == Head(store.pipeline)
           q     == mutationQueue[syncUser]
           kept  == {c \in callbacks : c.user = syncUser /\ c.id = batch.id}
           told  == {[told |-> c.write, of |-> batch.write, success |-> success] : c \in kept}
<1>1. callbacks' = callbacks \ kept /\ outcomes' = outcomes \cup told
  BY DEF NotifyUser
<1>2. q # <<>> /\ batch = Head(q) /\ Requeued(mutationQueue, syncUser, Tail(q), mutationQueue')
  BY FirstAnswered
<1>3. /\ syncUser \in Owners /\ mutationQueue \in [Owners -> Seq(Batch)]
      /\ q \in Seq(Batch) /\ IdsAscend(q)
  BY DEF IInv, QueuesOk, SInv, QueueOk
<1>4. /\ mutationQueue'[syncUser] = Tail(q)
      /\ \A u \in Owners : u # syncUser => mutationQueue'[u] = mutationQueue[u]
  BY <1>2, <1>3 DEF Requeued
<1>5. /\ Len(q) \in Nat /\ DOMAIN q = 1..Len(q) /\ 1 \in DOMAIN q /\ batch = q[1]
      /\ DOMAIN Tail(q) = 1..(Len(q) - 1)
      /\ \A i \in DOMAIN Tail(q) : Tail(q)[i] = q[i + 1]
  BY <1>2, <1>3, TailAndAppend
<1>6. batch \in Batch /\ \A i \in DOMAIN q : q[i].id \in Nat
  <2>1. \A b \in Batch : b.id \in Nat
    BY DEF Batch
  <2>2. QED
    BY <1>3, <1>5, <2>1
<1>7. \A i \in DOMAIN q : q[i].id = batch.id => i = 1
  BY <1>5, <1>6, <1>3 DEF IdsAscend
<1> HIDE DEF batch
<1>8. ASSUME NEW c \in kept  PROVE  c.write = batch.write
  <2>1. Waits(c, mutationQueue) /\ c.user = syncUser /\ c.id = batch.id
    BY DEF AInv, CallbacksOk
  <2>2. PICK i \in DOMAIN q : q[i].id = c.id /\ q[i].write = c.write
    BY <2>1 DEF Waits
  <2>3. QED
    BY <1>5, <1>7, <2>1, <2>2
<1>9. ASSUME NEW c \in callbacks \ kept  PROVE  Waits(c, mutationQueue')
  <2>1. c.user \in Owners /\ Waits(c, mutationQueue)
    BY DEF AInv, CallbacksOk, CallbackRecord
  <2>2. CASE c.user # syncUser
    BY <1>4, <2>1, <2>2 DEF Waits
  <2>3. CASE c.user = syncUser
    <3>1. PICK i \in DOMAIN q : q[i].id = c.id /\ q[i].write = c.write
      BY <2>1, <2>3 DEF Waits
    <3>2. i # 1
      BY <1>5, <2>3, <3>1
    <3>3. i - 1 \in DOMAIN Tail(q) /\ Tail(q)[i - 1] = q[i]
      BY <1>5, <3>1, <3>2
    <3>4. QED
      BY <1>4, <2>3, <3>1, <3>3 DEF Waits
  <2>4. QED
    BY <2>2, <2>3
<1>10. CallbacksOk(callbacks', mutationQueue')
  BY <1>1, <1>9 DEF AInv, CallbacksOk
<1>11. ASSUME NEW o \in told
       PROVE  /\ o \in OutcomeRecord
              /\ o = [told |-> batch.write, of |-> batch.write, success |-> success]
              /\ o.told = batch.write /\ o.of = batch.write /\ o.success = success
              /\ \E c \in kept : c.write = o.told
  <2>1. PICK c \in kept : o = [told |-> c.write, of |-> batch.write, success |-> success]
    OBVIOUS
  <2>2. c.write = batch.write
    BY <1>8
  <2>3. batch.write \in Writes
    BY <1>6 DEF Batch
  <2>4. QED
    BY <2>1, <2>2, <2>3 DEF OutcomeRecord
<1>12. success => batch.write \in stored
  BY DEF batch
<1> HIDE DEF told, kept
<1>13. OutcomesOk(outcomes', stored)
  <2>1. outcomes' \subseteq OutcomeRecord
    BY <1>1, <1>11 DEF AInv, OutcomesOk
  <2>2. \A o \in outcomes' : o.told = o.of /\ (o.success => o.of \in stored)
    BY <1>1, <1>11, <1>12 DEF AInv, OutcomesOk
  <2>3. \A o \in told : \A o2 \in outcomes : o.told # o2.told
    <3>1. \A o \in told : \E c \in callbacks : c.write = o.told
      BY <1>11 DEF kept
    <3>2. QED
      BY <3>1 DEF AInv, Apart
  <2>4. \A o1, o2 \in told : o1 = o2
    BY <1>11
  <2>5. \A o1, o2 \in outcomes' : o1.told = o2.told => o1 = o2
    BY <1>1, <2>3, <2>4 DEF AInv, OutcomesOk
  <2>6. QED
    BY <2>1, <2>2, <2>5 DEF OutcomesOk
<1>14. Apart(callbacks', outcomes')
  <2>1. \A c \in callbacks \ kept : \A o \in told : c.write # o.told
    BY <1>11 DEF AInv, CallbacksOk, kept
  <2>2. QED
    BY <1>1, <2>1 DEF AInv, Apart
<1>15. Handled(callbacks', outcomes') \subseteq Handled(callbacks, outcomes)
  <2>1. \A o \in told : \E c \in callbacks : c.write = o.told
    BY <1>11 DEF kept
  <2>2. QED
    BY <1>1, <2>1 DEF Handled
<1>16. WritesAscend(workerQueue, Handled(callbacks', outcomes'), made)
  BY <1>15 DEF AInv, WritesAscend
<1>17. QED
  BY <1>10, <1>13, <1>14, <1>16

LEMMA ResultsTell ==
  ASSUME IInv, SInv, AInv, OnMutationResult
  PROVE  AInv'
<1>1. /\ down # <<>> /\ Head(down) # Handshake /\ down' = Tail(down)
      /\ NotifyUser(Head(store.pipeline), TRUE) /\ RemoveBatch(Head(store.pipeline))
      /\ UNCHANGED <<workerQueue, made, stored>>
  BY DEF OnMutationResult, counts
<1>2. IsOpen(store) /\ down \in Seq(Requests)
  BY <1>1 DEF SInv, StreamOk
<1>3. 1 \in DOMAIN down /\ Head(down) = down[1] /\ Len(down) \in Nat /\ 1 \in 1..Len(down)
  BY <1>1, <1>2, TailAndAppend
<1>4. store.handshakeComplete
  <2>1. ~store.handshakeComplete => down = <<Handshake>> \/ down = <<>>
    BY <1>2, OpenStream DEF ShakesHands
  <2>2. QED
    BY <1>1, <2>1, OneRequest
<1>5. /\ store.pipeline \in Seq(Batch) /\ Lost(refusing) \in {0, 1}
      /\ store.up \in Seq(Requests) /\ wire \in Seq(Requests)
      /\ Carries(store.pipeline, store.up, wire, down, Lost(refusing))
  BY <1>2, <1>4, OpenStream DEF SInv
<1>6. store.pipeline # <<>> /\ Head(store.pipeline).write = Head(down)
  <2>1. store.pipeline # <<>>
    BY <1>1, <1>2, <1>5, CarriesResult
  <2>2. Head(store.pipeline) = store.pipeline[1]
    BY <1>5, <2>1, TailAndAppend
  <2>3. QED
    BY <1>3, <1>5, <2>1, <2>2 DEF Carries
<1>7. Head(down) \in stored
  BY <1>1, <1>3 DEF AInv, ResultsOk
<1>8. /\ CallbacksOk(callbacks', mutationQueue') /\ OutcomesOk(outcomes', stored)
      /\ Apart(callbacks', outcomes')
      /\ WritesAscend(workerQueue, Handled(callbacks', outcomes'), made)
  BY <1>1, <1>6, <1>7, AnswersTell
<1>9. ResultsOk(down', stored)
  BY <1>1, <1>2, FewerResults DEF AInv
<1>10. QED
  BY <1>1, <1>8, <1>9 DEF AInv

(* A permanent error is about the first of the pipeline. *)
LEMMA RefusingPipeline ==
  ASSUME SInv, refusing, store.handshakeComplete
  PROVE  store.pipeline # <<>> /\ store.pipeline \in Seq(Batch)
<1>1. IsOpen(store)
  BY DEF SInv, StreamOk
<1>2. Carries(store.pipeline, store.up, wire, down, 1) /\ store.pipeline \in Seq(Batch)
  BY <1>1, OpenStream DEF Lost
<1>3. /\ Len(wire) \in Nat /\ Len(down) \in Nat /\ Len(store.up) \in Nat
      /\ Len(store.pipeline) = Len(down) + 1 + Len(wire) + Len(store.up)
  BY <1>2 DEF SInv, Store, Carries
<1>4. \A a, b, c \in Nat : a + 1 + b + c # 0
  OBVIOUS
<1>5. Len(store.pipeline) # 0
  BY <1>3, <1>4
<1>6. QED
  BY <1>2, <1>5

LEMMA ErrorsTell ==
  ASSUME IInv, SInv, AInv, HandleWriteError
  PROVE  AInv'
<1>1. /\ refusing /\ store.handshakeComplete /\ StreamEnds
      /\ NotifyUser(Head(store.pipeline), FALSE) /\ RemoveBatch(Head(store.pipeline))
      /\ UNCHANGED <<workerQueue, made, stored>>
  BY DEF HandleWriteError, counts
<1>2. store.pipeline # <<>>
  BY <1>1, RefusingPipeline
<1>3. /\ CallbacksOk(callbacks', mutationQueue') /\ OutcomesOk(outcomes', stored)
      /\ Apart(callbacks', outcomes')
      /\ WritesAscend(workerQueue, Handled(callbacks', outcomes'), made)
  BY <1>1, <1>2, AnswersTell
<1>4. ResultsOk(down', stored)
  BY <1>1, StreamEndsQuietly
<1>5. QED
  BY <1>1, <1>3, <1>4 DEF AInv

LEMMA NextKeepsAInv == IInv /\ SInv /\ AInv /\ [Next]_vars => AInv'
<1> SUFFICES ASSUME IInv, SInv, AInv, [Next]_vars
             PROVE  AInv'
  OBVIOUS
<1>1. CASE WriteMutations \/ RunWriteMutations
  BY <1>1, WriteMutationsTells, RunWriteMutationsTells
<1>2. CASE \/ \E u \in Owners : ChangeAuthUser(u)
           \/ \E request \in store.asked : AuthGetsToken(request)
           \/ RunAuthStateDidChange \/ RunGetTokenCallback
           \/ HandleCredentialChange \/ ResumeStartWithCredentials \/ ResumeStartFails
           \/ BackoffElapses \/ IdleTimeout \/ StreamFails \/ ConnectivityChanges
           \/ OnHandshakeResponse \/ Carry \/ UNCHANGED vars
  BY <1>2, QuietStepsTell
<1>3. CASE OnMutationResult \/ HandleWriteError
  BY <1>3, ResultsTell, ErrorsTell
<1>4. CASE BackendAnswers \/ \E l \in leftovers : BackendAppliesLeftover(l)
  BY <1>4, BackendTells
<1>5. CASE Restart
  BY <1>5, RestartTells
<1>6. QED
  BY <1>1, <1>2, <1>3, <1>4, <1>5 DEF Next

LEMMA AInvMeansTrue == IInv /\ SInv /\ AInv => OutcomesAreTrue
<1> SUFFICES ASSUME IInv, SInv, AInv
             PROVE  /\ CallbacksHaveBatches
                    /\ \A o \in outcomes : o.told = o.of /\ (o.success => o.of \in stored)
                    /\ \A o1, o2 \in outcomes : o1.told = o2.told => o1 = o2
  BY DEF OutcomesAreTrue
<1>1. ASSUME NEW c \in callbacks
      PROVE  /\ c = [user |-> c.user, id |-> c.id, write |-> c.write]
             /\ c.user \in Owners
             /\ \E i \in DOMAIN mutationQueue[c.user] :
                  mutationQueue[c.user][i] = [id |-> c.id, write |-> c.write]
  <2>1. /\ c = [user |-> c.user, id |-> c.id, write |-> c.write] /\ c.user \in Owners
        /\ Waits(c, mutationQueue)
    BY DEF AInv, CallbacksOk, CallbackRecord
  <2>2. PICK i \in DOMAIN mutationQueue[c.user] :
          mutationQueue[c.user][i].id = c.id /\ mutationQueue[c.user][i].write = c.write
    BY <2>1 DEF Waits
  <2>3. mutationQueue \in [Owners -> Seq(Batch)]
    BY DEF SInv, QueueOk
  <2>4. mutationQueue[c.user][i] \in Batch
    BY <2>1, <2>3, BatchesAreTyped
  <2>5. mutationQueue[c.user][i] = [id |-> c.id, write |-> c.write]
    BY <2>2, <2>4 DEF Batch
  <2>6. QED
    BY <2>1, <2>5
<1>2. ASSUME NEW c1 \in callbacks, NEW c2 \in callbacks, c1.user = c2.user, c1.id = c2.id
      PROVE  c1 = c2
  <2> DEFINE q == mutationQueue[c1.user]
  <2>1. PICK i \in DOMAIN q : q[i] = [id |-> c1.id, write |-> c1.write]
    BY <1>1
  <2>2. PICK j \in DOMAIN q : q[j] = [id |-> c2.id, write |-> c2.write]
    BY <1>1, <1>2
  <2>3. c1.user \in Owners /\ mutationQueue \in [Owners -> Seq(Batch)] /\ IdsAscend(q)
    BY <1>1 DEF SInv, QueueOk
  <2>4. DOMAIN q = 1..Len(q) /\ Len(q) \in Nat /\ q[i].id \in Nat /\ q[j].id \in Nat
    BY <2>3, BatchesAreTyped
  <2>5. i = j
    <3>1. q[i].id = q[j].id
      BY <1>2, <2>1, <2>2
    <3>2. QED
      BY <2>3, <2>4, <3>1 DEF IdsAscend
  <2>6. c1.write = c2.write
    BY <2>1, <2>2, <2>5
  <2>7. QED
    BY <1>1, <1>2, <2>6
<1>3. CallbacksHaveBatches
  BY <1>1, <1>2 DEF CallbacksHaveBatches, ToSet
<1>4. QED
  BY <1>3 DEF AInv, OutcomesOk

LEMMA StreamsKeepTheirShape == Spec => [](IInv /\ SInv)
<1>1. Spec => []IInv
  BY InitIsOk, NextKeepsIInv, PTL DEF Spec
<1>2. Init => SInv
  BY InitStream
<1>3. IInv /\ SInv /\ [Next]_vars => SInv'
  BY NextKeepsSInv
<1>4. QED
  BY <1>1, <1>2, <1>3, PTL DEF Spec

LEMMA InitAInv == Init => AInv
<1> SUFFICES ASSUME Init  PROVE  AInv
  OBVIOUS
<1>1. /\ callbacks = {} /\ outcomes = {} /\ down = <<>> /\ workerQueue = <<>> /\ made = 0
      /\ MaxWrites \in Nat
  BY PipelineBounds DEF Init
<1>2. WritesAscend(<<>>, Handled({}, {}), 0) /\ ResultsOk(<<>>, stored)
  BY DEF WritesAscend, Handled, ResultsOk
<1>3. CallbacksOk({}, mutationQueue) /\ OutcomesOk({}, stored) /\ Apart({}, {})
  BY DEF CallbacksOk, OutcomesOk, Apart
<1>4. QED
  BY <1>1, <1>2, <1>3 DEF AInv

LEMMA TellingKeepsTrue == Spec => [](IInv /\ SInv /\ AInv)
<1>1. Spec => [](IInv /\ SInv)
  BY StreamsKeepTheirShape
<1>2. Init => AInv
  BY InitAInv
<1>3. IInv /\ SInv /\ AInv /\ [Next]_vars => AInv'
  BY NextKeepsAInv
<1>4. QED
  BY <1>1, <1>2, <1>3, PTL DEF Spec

(* Every completion handler of the app is told what became of its own      *)
(* write, once, and success only of a write that the backend holds:        *)
(* NotifyUser looks it up by user and batch id.                            *)
THEOREM OutcomesTrue == Spec => []OutcomesAreTrue
<1>1. IInv /\ SInv /\ AInv => OutcomesAreTrue
  BY AInvMeansTrue
<1>2. QED
  BY <1>1, TellingKeepsTrue, PTL

--------------------------------------------------------------------------------
(* The writes, from the worker queue to the backend.                       *)

Queued(queues) == UNION {{queues[u][i].write : i \in DOMAIN queues[u]} : u \in Owners}

(* No write is in two places of the queues. *)
WritesUnique(queues) ==
  \A u, v \in Owners : \A i \in DOMAIN queues[u], j \in DOMAIN queues[v] :
    queues[u][i].write = queues[v][j].write => u = v /\ i = j

(* Write a is ahead of write b in a queue. *)
Precedes(queues, a, b) ==
  \E u \in Owners : \E i, j \in DOMAIN queues[u] :
    i < j /\ queues[u][i].write = a /\ queues[u][j].write = b

(* What a closed stream has carried is applied in the order of the queue.  *)
LeftoverOk(l, queues, sent, held) ==
  /\ l # <<>>
  /\ \A k \in DOMAIN l :
       /\ l[k] \in sent \cup held
       /\ \A a : Precedes(queues, a, l[k]) => a \in held \/ \E n \in DOMAIN l : n < k /\ l[n] = a

(* What was written on the present stream was carried, and so was the      *)
(* write that has been refused.                                            *)
WireOk(w, sent, held) ==
  \A i \in DOMAIN w : w[i] # Handshake => w[i] \in sent \cup held
RefusedOk(r, d, queue, sent, held) ==
  r => queue[Len(d) + 1].write \in sent \cup held

RInv ==
  /\ carried \subseteq Writes /\ stored \subseteq Writes /\ refused \subseteq Writes
  /\ leftovers \subseteq Seq(Writes)
  /\ WritesUnique(mutationQueue)
  /\ WritesAscend(workerQueue, Queued(mutationQueue) \cup carried \cup stored, made)
  /\ WireOk(wire, carried, stored)
  /\ RefusedOk(refusing, down, mutationQueue[syncUser], carried, stored)
  /\ \A l \in leftovers : LeftoverOk(l, mutationQueue, carried, stored)

LEMMA QueuedAreInQueues ==
  ASSUME NEW queues
  PROVE  \A w : w \in Queued(queues) <=>
                  \E u \in Owners : \E i \in DOMAIN queues[u] : queues[u][i].write = w
BY DEF Queued

LEMMA FewerToCome ==
  ASSUME NEW worker, NEW taken, NEW fewer, fewer \subseteq taken, NEW count,
         WritesAscend(worker, taken, count)
  PROVE  WritesAscend(worker, fewer, count)
BY DEF WritesAscend

(* A batch of a new write joins a queue. *)
LEMMA QueueingOrder ==
  ASSUME NEW queues \in [Owners -> Seq(Batch)], NEW u \in Owners, NEW b \in Batch,
         WritesUnique(queues), b.write \notin Queued(queues),
         NEW after, Requeued(queues, u, Append(queues[u], b), after)
  PROVE  /\ WritesUnique(after)
         /\ Queued(after) = Queued(queues) \cup {b.write}
         /\ \A x, y : Precedes(after, x, y) => Precedes(queues, x, y) \/ y = b.write
<1> DEFINE q    == queues[u]
           more == Append(q, b)
<1>1. /\ q \in Seq(Batch) /\ Len(q) \in Nat /\ DOMAIN q = 1..Len(q)
      /\ DOMAIN more = 1..(Len(q) + 1) /\ more[Len(q) + 1] = b
      /\ \A i \in DOMAIN q : more[i] = q[i]
  BY TailAndAppend
<1>2. /\ after[u] = more
      /\ \A v \in Owners : v # u => after[v] = queues[v]
  BY DEF Requeued
<1>3. \A v \in Owners : \A i \in DOMAIN queues[v] : queues[v][i].write # b.write
  BY QueuedAreInQueues
<1> HIDE DEF more
<1>4. \A v \in Owners : \A i \in DOMAIN after[v] :
        \/ i \in DOMAIN queues[v] /\ after[v][i] = queues[v][i]
        \/ v = u /\ i = Len(q) + 1 /\ after[v][i] = b
  BY <1>1, <1>2
<1>5. \A v \in Owners : \A i \in DOMAIN queues[v] :
        i \in DOMAIN after[v] /\ after[v][i] = queues[v][i]
  BY <1>1, <1>2
<1>6. Len(q) + 1 \in DOMAIN after[u] /\ after[u][Len(q) + 1] = b
  BY <1>1, <1>2
<1>7. WritesUnique(after)
  BY <1>3, <1>4 DEF WritesUnique
<1>8. Queued(after) = Queued(queues) \cup {b.write}
  BY <1>4, <1>5, <1>6, QueuedAreInQueues
<1>9. ASSUME NEW x, NEW y, Precedes(after, x, y), y # b.write
      PROVE  Precedes(queues, x, y)
  <2>1. PICK v \in Owners : \E i, j \in DOMAIN after[v] :
               i < j /\ after[v][i].write = x /\ after[v][j].write = y
    BY <1>9 DEF Precedes
  <2>2. PICK i \in DOMAIN after[v], j \in DOMAIN after[v] :
               i < j /\ after[v][i].write = x /\ after[v][j].write = y
    BY <2>1
  <2>3. j \in DOMAIN queues[v] /\ queues[v][j].write = y
    BY <1>4, <1>9, <2>2
  <2>4. i \in DOMAIN queues[v] /\ queues[v][i].write = x
    <3>1. DOMAIN queues[v] = 1..Len(queues[v]) /\ Len(queues[v]) \in Nat
      BY BatchesAreTyped
    <3>2. v = u /\ i = Len(q) + 1 => ~(i < j)
      BY <1>1, <2>3, <3>1
    <3>3. QED
      BY <1>4, <2>2, <3>2
  <2>5. QED
    BY <2>2, <2>3, <2>4 DEF Precedes
<1>10. QED
  BY <1>7, <1>8, <1>9

(* The first batch leaves a queue. *)
LEMMA LeavingOrder ==
  ASSUME NEW queues \in [Owners -> Seq(Batch)], NEW u \in Owners, queues[u] # <<>>,
         WritesUnique(queues), NEW after, Requeued(queues, u, Tail(queues[u]), after)
  PROVE  /\ WritesUnique(after)
         /\ Queued(after) \subseteq Queued(queues)
         /\ \A x, y : Precedes(after, x, y) => Precedes(queues, x, y)
<1> DEFINE q == queues[u]
           shift(v) == IF v = u THEN 1 ELSE 0
<1>1. /\ q \in Seq(Batch) /\ Len(q) \in Nat
      /\ \A i \in DOMAIN Tail(q) :
           i \in Nat /\ i + 1 \in DOMAIN q /\ Tail(q)[i] = q[i + 1]
  BY TailAndAppend
<1>2. /\ after[u] = Tail(q)
      /\ \A v \in Owners : v # u => after[v] = queues[v]
  BY DEF Requeued
<1>3. ASSUME NEW v \in Owners, NEW i \in DOMAIN after[v]
      PROVE  /\ i \in Nat /\ shift(v) \in {0, 1}
             /\ i + shift(v) \in DOMAIN queues[v] /\ after[v][i] = queues[v][i + shift(v)]
  <2>1. CASE v = u
    BY <1>1, <1>2, <1>3, <2>1
  <2>2. CASE v # u
    <3>1. DOMAIN queues[v] = 1..Len(queues[v]) /\ Len(queues[v]) \in Nat
      BY BatchesAreTyped
    <3>2. i \in DOMAIN queues[v] /\ after[v] = queues[v]
      BY <1>2, <1>3, <2>2
    <3>3. QED
      BY <2>2, <3>1, <3>2
  <2>3. QED
    BY <2>1, <2>2
<1> HIDE DEF shift
<1>4. WritesUnique(after)
  <2> SUFFICES ASSUME NEW v1 \in Owners, NEW v2 \in Owners, NEW i \in DOMAIN after[v1],
                      NEW j \in DOMAIN after[v2], after[v1][i].write = after[v2][j].write
               PROVE  v1 = v2 /\ i = j
    BY DEF WritesUnique
  <2>1. v1 = v2 /\ i + shift(v1) = j + shift(v2)
    BY <1>3 DEF WritesUnique
  <2>2. QED
    BY <1>3, <2>1
<1>5. Queued(after) \subseteq Queued(queues)
  BY <1>3, QueuedAreInQueues
<1>6. ASSUME NEW x, NEW y, Precedes(after, x, y)  PROVE  Precedes(queues, x, y)
  <2>1. PICK v \in Owners : \E i, j \in DOMAIN after[v] :
               i < j /\ after[v][i].write = x /\ after[v][j].write = y
    BY <1>6 DEF Precedes
  <2>2. PICK i \in DOMAIN after[v], j \in DOMAIN after[v] :
               i < j /\ after[v][i].write = x /\ after[v][j].write = y
    BY <2>1
  <2>3. i + shift(v) < j + shift(v)
    BY <1>3, <2>2
  <2>4. QED
    BY <1>3, <2>2, <2>3 DEF Precedes
<1>7. QED
  BY <1>4, <1>5, <1>6

(* The pipeline is the beginning of a queue: what precedes one of its      *)
(* writes is in the pipeline ahead of it.                                  *)
LEMMA PipelineOrder ==
  ASSUME IInv, SInv, WritesUnique(mutationQueue), NEW n \in 1..Len(store.pipeline),
         NEW a, Precedes(mutationQueue, a, store.pipeline[n].write)
  PROVE  \E j \in 1..Len(store.pipeline) : j < n /\ store.pipeline[j].write = a
<1> DEFINE p == store.pipeline
           q == mutationQueue[syncUser]
<1>1. /\ p \in Seq(Batch) /\ Len(p) \in Nat /\ syncUser \in Owners
      /\ mutationQueue \in [Owners -> Seq(Batch)] /\ Begins(p, q)
  BY DEF SInv, QueueOk, Store, PipelineOk, IInv, QueuesOk
<1>2. DOMAIN q = 1..Len(q) /\ Len(q) \in Nat
  BY <1>1, BatchesAreTyped
<1>3. n \in DOMAIN q /\ p[n] = q[n]
  BY <1>1, <1>2 DEF Begins
<1>4. PICK u \in Owners : \E i, j \in DOMAIN mutationQueue[u] :
             /\ i < j /\ mutationQueue[u][i].write = a
             /\ mutationQueue[u][j].write = p[n].write
  BY DEF Precedes
<1>5. PICK i \in DOMAIN mutationQueue[u], j \in DOMAIN mutationQueue[u] :
             /\ i < j /\ mutationQueue[u][i].write = a
             /\ mutationQueue[u][j].write = p[n].write
  BY <1>4
<1>6. u = syncUser /\ j = n
  BY <1>1, <1>3, <1>5 DEF WritesUnique
<1>7. i \in 1..Len(p) /\ i < n /\ p[i] = q[i]
  BY <1>1, <1>2, <1>5, <1>6 DEF Begins
<1>8. QED
  BY <1>5, <1>6, <1>7

(* What is known of a stream on which writes are: the write at place i of  *)
(* the network is that of the pipeline behind those that were answered.    *)
LEMMA WireIsPipeline ==
  ASSUME SInv, NEW i \in DOMAIN wire, wire[i] # Handshake
  PROVE  /\ IsOpen(store) /\ store.handshakeComplete
         /\ Carries(store.pipeline, store.up, wire, down, Lost(refusing))
         /\ wire \in Seq(Requests) /\ down \in Seq(Requests) /\ store.up \in Seq(Requests)
         /\ store.pipeline \in Seq(Batch) /\ Lost(refusing) \in {0, 1}
         /\ Len(down) + Lost(refusing) + i \in 1..Len(store.pipeline)
         /\ store.pipeline[Len(down) + Lost(refusing) + i].write = wire[i]
         /\ wire[i] \in Writes
<1>1. wire \in Seq(Requests) /\ down \in Seq(Requests) /\ DOMAIN wire = 1..Len(wire)
      /\ Len(wire) \in Nat /\ Len(down) \in Nat
  BY DEF SInv
<1>2. IsOpen(store)
  <2>1. wire = <<>> => DOMAIN wire = {}
    OBVIOUS
  <2>2. QED
    BY <2>1 DEF SInv, StreamOk
<1>3. /\ store.pipeline \in Seq(Batch) /\ Len(store.pipeline) \in Nat
      /\ store.up \in Seq(Requests) /\ Len(store.up) \in Nat /\ Lost(refusing) \in {0, 1}
  BY <1>2, OpenStream
<1>4. store.handshakeComplete
  <2>1. ~store.handshakeComplete => wire = <<>> \/ wire = <<Handshake>>
    BY <1>2, OpenStream DEF ShakesHands
  <2>2. wire # <<>> /\ wire # <<Handshake>>
    <3>1. \A k \in DOMAIN <<Handshake>> : <<Handshake>>[k] = Handshake
      OBVIOUS
    <3>2. QED
      BY <3>1
  <2>3. QED
    BY <2>1, <2>2
<1>5. Carries(store.pipeline, store.up, wire, down, Lost(refusing))
  BY <1>2, <1>4, OpenStream
<1>6. Len(down) + Lost(refusing) + i \in 1..Len(store.pipeline)
  BY <1>1, <1>3, <1>5 DEF Carries
<1>7. store.pipeline[Len(down) + Lost(refusing) + i].write = wire[i]
  BY <1>1, <1>5 DEF Carries
<1>8. wire[i] \in Writes
  BY <1>1 DEF Requests
<1>9. QED
  BY <1>1, <1>2, <1>3, <1>4, <1>5, <1>6, <1>7, <1>8

LEMMA LeftoverStaysOk ==
  ASSUME NEW l, NEW queues, NEW sent, NEW held, LeftoverOk(l, queues, sent, held),
         NEW queues2, NEW sent2, NEW held2, held \subseteq held2,
         \A k \in DOMAIN l : l[k] \in sent2 \cup held2,
         \A k \in DOMAIN l : \A a :
           Precedes(queues2, a, l[k]) => Precedes(queues, a, l[k])
  PROVE  LeftoverOk(l, queues2, sent2, held2)
BY DEF LeftoverOk

(* What a stream has carried when it is closed is in the order of the      *)
(* queue, behind what the backend has answered.                            *)
LEMMA LeftoversAreInOrder ==
  ASSUME IInv, SInv, AInv, RInv, StreamEnds
  PROVE  /\ wire' = <<>> /\ down' = <<>> /\ refusing' = FALSE
         /\ leftovers' \subseteq Seq(Writes)
         /\ \A l \in leftovers' : LeftoverOk(l, mutationQueue, carried, stored)
<1>1. /\ wire' = <<>> /\ down' = <<>> /\ refusing' = FALSE
      /\ leftovers' = IF refusing THEN leftovers
                      ELSE leftovers \cup ({WritesOn(wire)} \ {<<>>})
  BY DEF StreamEnds
<1>2. ASSUME ~refusing, WritesOn(wire) # <<>>
      PROVE  WritesOn(wire) = wire /\ wire # <<>> /\ \A i \in DOMAIN wire : wire[i] # Handshake
  <2>1. wire \in Seq(Requests)
    BY DEF SInv
  <2>2. wire # <<>> /\ wire # <<Handshake>>
    BY <1>2, OneRequest DEF WritesOn
  <2>3. IsOpen(store) /\ store.handshakeComplete
    <3>1. IsOpen(store)
      BY <2>2 DEF SInv, StreamOk
    <3>2. QED
      BY <2>2, <3>1, OpenStream DEF ShakesHands
  <2>4. /\ Carries(store.pipeline, store.up, wire, down, 0) /\ store.pipeline \in Seq(Batch)
        /\ store.up \in Seq(Requests) /\ down \in Seq(Requests)
    BY <1>2, <2>3, OpenStream DEF Lost, SInv
  <2>5. Head(wire) # Handshake
    BY <2>1, <2>2, <2>4, OnlyWrites
  <2>6. ASSUME NEW i \in DOMAIN wire  PROVE  wire[i] # Handshake
    <3>1. \A b \in Batch : b.write # Handshake
      BY PipelineBounds DEF Batch, Writes, Handshake
    <3>2. Len(down) + 0 + i \in 1..Len(store.pipeline)
      <4>1. /\ Len(down) \in Nat /\ Len(wire) \in Nat /\ Len(store.up) \in Nat
            /\ Len(store.pipeline) \in Nat /\ i \in 1..Len(wire)
        BY <2>1, <2>4
      <4>2. Len(store.pipeline) = Len(down) + 0 + Len(wire) + Len(store.up)
        BY <2>4 DEF Carries
      <4>3. \A a, b, c, m \in Nat : \A n \in 1..b : m = a + 0 + b + c => a + 0 + n \in 1..m
        OBVIOUS
      <4>4. QED
        BY <4>1, <4>2, <4>3
    <3>3. wire[i] = store.pipeline[Len(down) + 0 + i].write
      BY <2>1, <2>4 DEF Carries
    <3>4. QED
      BY <2>4, <3>1, <3>2, <3>3
  <2>7. QED
    BY <2>2, <2>5, <2>6 DEF WritesOn
<1>3. ASSUME ~refusing, WritesOn(wire) # <<>>
      PROVE  wire \in Seq(Writes) /\ LeftoverOk(wire, mutationQueue, carried, stored)
  <2>1. wire # <<>> /\ \A i \in DOMAIN wire : wire[i] # Handshake
    BY <1>2, <1>3
  <2>2. ASSUME NEW k \in DOMAIN wire
        PROVE  /\ wire[k] \in Writes /\ wire[k] \in carried \cup stored
               /\ wire \in Seq(Requests) /\ DOMAIN wire = 1..Len(wire) /\ Len(wire) \in Nat
    BY <2>1, WireIsPipeline DEF RInv, WireOk
  <2>3. ASSUME NEW k \in DOMAIN wire, NEW a, Precedes(mutationQueue, a, wire[k])
        PROVE  a \in stored \/ \E n \in DOMAIN wire : n < k /\ wire[n] = a
    <3> DEFINE p == store.pipeline
    <3>1. /\ Carries(p, store.up, wire, down, 0) /\ p \in Seq(Batch)
          /\ down \in Seq(Requests) /\ wire \in Seq(Requests) /\ store.up \in Seq(Requests)
          /\ Len(down) + 0 + k \in 1..Len(p) /\ p[Len(down) + 0 + k].write = wire[k]
      BY <1>3, <2>1, WireIsPipeline DEF Lost
    <3>2. WritesUnique(mutationQueue)
      BY DEF RInv
    <3>3. PICK j \in 1..Len(p) : j < Len(down) + 0 + k /\ p[j].write = a
      <4> DEFINE n == Len(down) + 0 + k
      <4>1. n \in 1..Len(store.pipeline) /\ Precedes(mutationQueue, a, store.pipeline[n].write)
        BY <2>3, <3>1
      <4> HIDE DEF n
      <4>2. \E j \in 1..Len(store.pipeline) : j < n /\ store.pipeline[j].write = a
        BY <3>2, <4>1, PipelineOrder
      <4>3. QED
        BY <4>2 DEF n
    <3> HIDE DEF p
    <3>4. Len(p) \in Nat /\ Len(down) \in Nat /\ Len(wire) \in Nat /\ k \in 1..Len(wire)
      BY <3>1
    <3>5. CASE j <= Len(down)
      <4>1. j \in DOMAIN down /\ down[j] = a
        <5>1. j \in 1..Len(down)
          BY <3>3, <3>4, <3>5
        <5>2. DOMAIN down = 1..Len(down)
          BY <3>1
        <5>3. down[j] = p[j].write
          BY <3>1, <5>1 DEF Carries
        <5>4. QED
          BY <3>3, <5>1, <5>2, <5>3
      <4>2. a # Handshake
        <5>1. \A b \in Batch : b.write # Handshake
          BY PipelineBounds DEF Batch, Writes, Handshake
        <5>2. QED
          BY <3>1, <3>3, <5>1
      <4>3. QED
        BY <4>1, <4>2 DEF AInv, ResultsOk
    <3>6. CASE j > Len(down)
      <4> DEFINE n == j - Len(down)
      <4>1. n \in 1..Len(wire) /\ n < k /\ Len(down) + 0 + n = j
        BY <3>3, <3>4, <3>6
      <4> HIDE DEF n
      <4>2. wire[n] = a
        BY <3>1, <3>3, <4>1 DEF Carries
      <4>3. QED
        BY <3>1, <4>1, <4>2
    <3>7. QED
      BY <3>3, <3>4, <3>5, <3>6
  <2>4. wire \in Seq(Writes)
    <3>1. wire \in Seq(Requests)
      BY DEF SInv
    <3>2. QED
      BY <2>2, <3>1
  <2>5. QED
    BY <2>1, <2>2, <2>3, <2>4 DEF LeftoverOk
<1>4. QED
  BY <1>1, <1>2, <1>3 DEF RInv

LEMMA NothingCarriedYet ==
  ASSUME NEW sent, NEW held, NEW d, NEW queue
  PROVE  WireOk(<<>>, sent, held) /\ RefusedOk(FALSE, d, queue, sent, held)
BY DEF WireOk, RefusedOk

LEMMA WriteMutationsCarry ==
  ASSUME IInv, SInv, AInv, RInv, WriteMutations
  PROVE  RInv'
<1> DEFINE taken == Queued(mutationQueue) \cup carried \cup stored
<1>1. /\ made < MaxWrites /\ made' = made + 1
      /\ workerQueue' = Append(workerQueue, WriteOp(made + 1))
      /\ UNCHANGED <<mutationQueue, syncUser, wire, down, refusing, leftovers, stored,
                     carried, refused>>
  BY DEF WriteMutations, client, network
<1>2. made \in Nat /\ made + 1 \in Writes
  BY <1>1, PipelineBounds DEF AInv, Writes
<1>3. \A h \in taken : h \in Nat
  <2>1. \A w \in Writes : w \in Nat
    BY PipelineBounds DEF Writes
  <2>2. \A h \in Queued(mutationQueue) : h \in Writes
    <3>1. mutationQueue \in [Owners -> Seq(Batch)]
      BY DEF SInv, QueueOk
    <3>2. \A u \in Owners : \A i \in DOMAIN mutationQueue[u] : mutationQueue[u][i].write \in Writes
      BY <3>1, BatchesAreTyped
    <3>3. QED
      BY <3>2, QueuedAreInQueues
  <2>3. QED
    BY <2>1, <2>2 DEF RInv
<1>4. WritesAscend(workerQueue', taken, made')
  <2>1. WritesAscend(workerQueue, taken, made) /\ workerQueue \in Seq(Operation)
    BY DEF RInv, IInv, QueuesOk
  <2> HIDE DEF taken
  <2>2. QED
    BY <1>1, <1>2, <1>3, <2>1, AscendingWrite
<1>5. QED
  BY <1>1, <1>4 DEF RInv

(* Steps that carry nothing, apply nothing and answer nothing. *)
LEMMA QuietStepsCarry ==
  ASSUME IInv, SInv, AInv, RInv,
         \/ \E u \in Owners : ChangeAuthUser(u)
         \/ \E request \in store.asked : AuthGetsToken(request)
         \/ RunAuthStateDidChange \/ RunGetTokenCallback
         \/ HandleCredentialChange \/ ResumeStartWithCredentials \/ ResumeStartFails
         \/ BackoffElapses \/ IdleTimeout \/ StreamFails \/ ConnectivityChanges
         \/ OnHandshakeResponse \/ Restart \/ UNCHANGED vars
  PROVE  RInv'
<1>1. /\ UNCHANGED <<mutationQueue, stored, carried, refused>>
      /\ \/ StreamEnds
         \/ EndStreamIf(IsStarted(store)) /\ ~IsStarted(store)
         \/ UNCHANGED <<syncUser, wire, down, refusing, leftovers>>
         \/ OnHandshakeResponse
  <2>1. CASE \/ \E u \in Owners : ChangeAuthUser(u)
             \/ \E request \in store.asked : AuthGetsToken(request)
             \/ RunAuthStateDidChange \/ RunGetTokenCallback
    BY <2>1 DEF ChangeAuthUser, AuthGetsToken, RunAuthStateDidChange, RunGetTokenCallback,
                client, network
  <2>2. CASE \/ HandleCredentialChange \/ ResumeStartWithCredentials \/ ResumeStartFails
             \/ BackoffElapses
    BY <2>2 DEF HandleCredentialChange, ResumeStartWithCredentials, ResumeStartFails,
                BackoffElapses, client, network, EndStreamIf
  <2>3. CASE \/ IdleTimeout \/ StreamFails \/ ConnectivityChanges
             \/ OnHandshakeResponse \/ Restart \/ UNCHANGED vars
    BY <2>3 DEF IdleTimeout, StreamFails, ConnectivityChanges, OnHandshakeResponse, Restart,
                vars, client, network, EndStreamIf
  <2>4. QED
    BY <2>1, <2>2, <2>3
<1>2. WritesAscend(workerQueue', Queued(mutationQueue) \cup carried \cup stored, made')
  <2> DEFINE taken == Queued(mutationQueue) \cup carried \cup stored
  <2>1. WritesAscend(workerQueue, taken, made)
    BY DEF RInv
  <2> HIDE DEF taken
  <2>2. made' = made /\ WritesAscend(workerQueue', taken, made')
    BY <2>1, OtherStepsAscend DEF OtherStep
  <2>3. QED
    BY <2>2 DEF taken
<1>3. ASSUME /\ WireOk(wire', carried, stored)
             /\ RefusedOk(refusing', down', mutationQueue[syncUser'], carried, stored)
             /\ leftovers' \subseteq Seq(Writes)
             /\ \A l \in leftovers' : LeftoverOk(l, mutationQueue, carried, stored)
      PROVE  RInv'
  BY <1>1, <1>2, <1>3 DEF RInv
<1>4. CASE StreamEnds
  BY <1>3, <1>4, LeftoversAreInOrder, NothingCarriedYet
<1>5. CASE EndStreamIf(IsStarted(store)) /\ ~IsStarted(store)
  <2>1. UNCHANGED <<wire, down, refusing, leftovers>>
    BY <1>5 DEF EndStreamIf, network
  <2>2. ~refusing
    BY <1>5 DEF SInv, StreamOk, IsOpen, IsStarted
  <2>3. RefusedOk(refusing', down', mutationQueue[syncUser'], carried, stored)
    BY <2>1, <2>2 DEF RefusedOk
  <2>4. QED
    BY <1>3, <2>1, <2>3 DEF RInv
<1>6. CASE UNCHANGED <<syncUser, wire, down, refusing, leftovers>>
  BY <1>3, <1>6 DEF RInv
<1>7. CASE OnHandshakeResponse
  <2>1. /\ down # <<>> /\ Head(down) = Handshake
        /\ UNCHANGED <<wire, refusing, leftovers>>
    BY <1>7 DEF OnHandshakeResponse
  <2>2. ~refusing
    <3>1. IsOpen(store) /\ down \in Seq(Requests) /\ wire \in Seq(Requests)
      BY <2>1 DEF SInv, StreamOk
    <3>2. ~store.handshakeComplete
      BY <2>1, <3>1, OpenStream, OnlyWrites
    <3>3. QED
      BY <3>1, <3>2, OpenStream
  <2>3. RefusedOk(refusing', down', mutationQueue[syncUser'], carried, stored)
    BY <2>1, <2>2 DEF RefusedOk
  <2>4. QED
    BY <1>3, <2>1, <2>3 DEF RInv
<1>8. QED
  BY <1>1, <1>4, <1>5, <1>6, <1>7

(* The write that was refused is in the queue, behind those answered. *)
LEMMA LostIsQueued ==
  ASSUME IInv, SInv, refusing
  PROVE  /\ Len(down) + 1 \in DOMAIN mutationQueue[syncUser]
         /\ mutationQueue[syncUser] \in Seq(Batch) /\ down \in Seq(Requests)
         /\ store.pipeline[Len(down) + 1] = mutationQueue[syncUser][Len(down) + 1]
<1> DEFINE p  == store.pipeline
           q  == mutationQueue[syncUser]
           up == store.up
<1>1. /\ IsOpen(store) /\ store.handshakeComplete
  <2>1. IsOpen(store)
    BY DEF SInv, StreamOk
  <2>2. QED
    BY <2>1, OpenStream
<1>2. /\ Carries(p, up, wire, down, 1) /\ up \in Seq(Requests) /\ p \in Seq(Batch)
      /\ q \in Seq(Batch) /\ wire \in Seq(Requests) /\ down \in Seq(Requests)
      /\ Begins(p, q)
  BY <1>1, OpenStream DEF SInv, QueueOk, PipelineOk, Lost, IInv, QueuesOk
<1> HIDE DEF p, q, up
<1>3. /\ Len(p) \in Nat /\ Len(up) \in Nat /\ Len(wire) \in Nat /\ Len(down) \in Nat
      /\ Len(q) \in Nat /\ DOMAIN q = 1..Len(q)
  BY <1>2
<1>4. Len(down) + 1 \in 1..Len(p)
  BY <1>2, <1>3 DEF Carries
<1>5. Len(down) + 1 \in DOMAIN q /\ p[Len(down) + 1] = q[Len(down) + 1]
  BY <1>2, <1>3, <1>4 DEF Begins
<1>6. QED
  BY <1>2, <1>5 DEF p, q

(* A result is of the first of the pipeline, and the backend holds it. *)
LEMMA FirstIsStored ==
  ASSUME SInv, AInv, down # <<>>, Head(down) # Handshake
  PROVE  store.pipeline # <<>> /\ Head(store.pipeline).write \in stored
<1>1. IsOpen(store) /\ down \in Seq(Requests)
  BY DEF SInv, StreamOk
<1>2. 1 \in DOMAIN down /\ Head(down) = down[1] /\ Len(down) \in Nat /\ 1 \in 1..Len(down)
  BY <1>1, TailAndAppend
<1>3. store.handshakeComplete
  BY <1>1, OpenStream, OneRequest DEF ShakesHands
<1>4. /\ store.pipeline \in Seq(Batch) /\ Lost(refusing) \in {0, 1}
      /\ store.up \in Seq(Requests) /\ wire \in Seq(Requests)
      /\ Carries(store.pipeline, store.up, wire, down, Lost(refusing))
  BY <1>1, <1>3, OpenStream DEF SInv
<1>5. store.pipeline # <<>>
  BY <1>1, <1>4, CarriesResult
<1>6. Head(store.pipeline).write = Head(down)
  <2>1. Head(store.pipeline) = store.pipeline[1]
    BY <1>4, <1>5, TailAndAppend
  <2>2. QED
    BY <1>2, <1>4, <2>1 DEF Carries
<1>7. QED
  BY <1>2, <1>5, <1>6 DEF AInv, ResultsOk

LEMMA RunWriteMutationsCarries ==
  ASSUME IInv, SInv, AInv, RInv, RunWriteMutations
  PROVE  RInv'
<1> DEFINE w     == Head(workerQueue).write
           batch == [id |-> nextBatchId, write |-> w]
           q     == mutationQueue[syncUser]
           more  == Append(q, batch)
           taken == Queued(mutationQueue) \cup carried \cup stored
<1>1. /\ workerQueue # <<>> /\ IsWrite(Head(workerQueue)) /\ workerQueue' = Tail(workerQueue)
      /\ mutationQueue' = [mutationQueue EXCEPT ![syncUser] = more]
      /\ UNCHANGED <<syncUser, wire, down, refusing, leftovers, stored, carried, refused, made>>
  BY DEF RunWriteMutations, IsWrite, network, counts
<1>2. /\ workerQueue \in Seq(Operation) /\ syncUser \in Owners /\ nextBatchId \in Nat \ {0}
      /\ mutationQueue \in [Owners -> Seq(Batch)] /\ q \in Seq(Batch)
  BY DEF IInv, QueuesOk, SInv, QueueOk
<1>3. w \in Writes
  <2>1. 1 \in DOMAIN workerQueue /\ Head(workerQueue) = workerQueue[1]
    BY <1>1, <1>2, TailAndAppend
  <2>2. QED
    BY <1>1, <1>2, <2>1, WritesAreTyped
<1>4. WritesAscend(workerQueue, taken, made)
  BY DEF RInv
<1>5. /\ w \notin taken
      /\ WritesAscend(workerQueue', taken \cup {w}, made)
  <2> HIDE DEF taken
  <2>1. QED
    BY <1>1, <1>2, <1>4, AscendingHead
<1> HIDE DEF w
<1>6. batch \in Batch /\ batch.write = w
  BY <1>2, <1>3 DEF Batch
<1> HIDE DEF batch
<1>7. Requeued(mutationQueue, syncUser, more, mutationQueue')
  BY <1>1 DEF Requeued
<1>8. /\ WritesUnique(mutationQueue')
      /\ Queued(mutationQueue') = Queued(mutationQueue) \cup {w}
      /\ \A x, y : Precedes(mutationQueue', x, y) => Precedes(mutationQueue, x, y) \/ y = w
  <2>1. WritesUnique(mutationQueue) /\ batch.write \notin Queued(mutationQueue)
    BY <1>5, <1>6 DEF RInv
  <2>2. QED
    BY <1>2, <1>6, <1>7, <2>1, QueueingOrder
<1>9. WritesAscend(workerQueue', Queued(mutationQueue') \cup carried \cup stored, made)
  <2>1. Queued(mutationQueue') \cup carried \cup stored = taken \cup {w}
    BY <1>8
  <2>2. QED
    BY <1>5, <2>1
<1>10. ASSUME NEW l \in leftovers  PROVE  LeftoverOk(l, mutationQueue', carried, stored)
  <2>1. LeftoverOk(l, mutationQueue, carried, stored)
    BY DEF RInv
  <2>2. \A k \in DOMAIN l : l[k] \in carried \cup stored /\ l[k] # w
    BY <1>5, <2>1 DEF LeftoverOk
  <2>3. QED
    BY <1>8, <2>1, <2>2, LeftoverStaysOk
<1>11. RefusedOk(refusing, down, mutationQueue'[syncUser], carried, stored)
  <2>1. ASSUME refusing  PROVE  mutationQueue'[syncUser][Len(down) + 1] = q[Len(down) + 1]
    <3>1. Len(down) + 1 \in DOMAIN q
      BY <2>1, LostIsQueued
    <3>2. mutationQueue'[syncUser] = more
      BY <1>1, <1>2
    <3>3. \A i \in DOMAIN q : more[i] = q[i]
      BY <1>2, <1>6, TailAndAppend
    <3>4. QED
      BY <3>1, <3>2, <3>3
  <2>2. QED
    BY <2>1 DEF RInv, RefusedOk
<1>12. QED
  BY <1>1, <1>8, <1>9, <1>10, <1>11 DEF RInv

(* The first batch has its answer and leaves the queue. *)
LEMMA LeavingCarries ==
  ASSUME IInv, SInv, AInv, RInv, store.pipeline # <<>>, RemoveBatch(Head(store.pipeline)),
         NEW sent \in SUBSET carried
  PROVE  /\ mutationQueue[syncUser] # <<>>
         /\ Head(store.pipeline) = Head(mutationQueue[syncUser])
         /\ mutationQueue'[syncUser] = Tail(mutationQueue[syncUser])
         /\ Requeued(mutationQueue, syncUser, Tail(mutationQueue[syncUser]), mutationQueue')
         /\ WritesUnique(mutationQueue')
         /\ WritesAscend(workerQueue, Queued(mutationQueue') \cup sent \cup stored, made)
         /\ \A x, y : Precedes(mutationQueue', x, y) => Precedes(mutationQueue, x, y)
<1> DEFINE q == mutationQueue[syncUser]
<1>1. /\ syncUser \in Owners /\ mutationQueue \in [Owners -> Seq(Batch)]
  BY DEF IInv, QueuesOk, SInv, QueueOk
<1>2. /\ q # <<>> /\ Head(store.pipeline) = Head(q)
      /\ Requeued(mutationQueue, syncUser, Tail(q), mutationQueue')
  BY FirstAnswered
<1>3. mutationQueue'[syncUser] = Tail(q)
  BY <1>1, <1>2 DEF Requeued
<1>4. /\ WritesUnique(mutationQueue') /\ Queued(mutationQueue') \subseteq Queued(mutationQueue)
      /\ \A x, y : Precedes(mutationQueue', x, y) => Precedes(mutationQueue, x, y)
  BY <1>1, <1>2, LeavingOrder DEF RInv
<1> DEFINE taken == Queued(mutationQueue) \cup carried \cup stored
           fewer == Queued(mutationQueue') \cup sent \cup stored
<1>5. fewer \subseteq taken /\ WritesAscend(workerQueue, taken, made)
  BY <1>4 DEF RInv
<1> HIDE DEF fewer, taken
<1>6. WritesAscend(workerQueue, fewer, made)
  BY <1>5, FewerToCome
<1>7. QED
  BY <1>2, <1>3, <1>4, <1>6 DEF fewer

LEMMA ResultsCarry ==
  ASSUME IInv, SInv, AInv, RInv, OnMutationResult
  PROVE  /\ RInv'
         /\ store.pipeline # <<>> /\ Head(store.pipeline).write \in stored
<1>1. /\ down # <<>> /\ Head(down) # Handshake /\ down' = Tail(down)
      /\ RemoveBatch(Head(store.pipeline))
      /\ UNCHANGED <<syncUser, workerQueue, wire, refusing, leftovers, stored, carried, refused,
                     made>>
  BY DEF OnMutationResult, counts
<1>2. store.pipeline # <<>> /\ Head(store.pipeline).write \in stored
  BY <1>1, FirstIsStored
<1>3. /\ mutationQueue'[syncUser] = Tail(mutationQueue[syncUser])
      /\ mutationQueue[syncUser] # <<>> /\ WritesUnique(mutationQueue')
      /\ WritesAscend(workerQueue, Queued(mutationQueue') \cup carried \cup stored, made)
      /\ \A x, y : Precedes(mutationQueue', x, y) => Precedes(mutationQueue, x, y)
  BY <1>1, <1>2, LeavingCarries
<1>4. ASSUME NEW l \in leftovers  PROVE  LeftoverOk(l, mutationQueue', carried, stored)
  <2>1. LeftoverOk(l, mutationQueue, carried, stored)
    BY DEF RInv
  <2>2. \A k \in DOMAIN l : l[k] \in carried \cup stored
    BY <2>1 DEF LeftoverOk
  <2>3. QED
    BY <1>3, <2>1, <2>2, LeftoverStaysOk
<1>5. RefusedOk(refusing, down', mutationQueue'[syncUser], carried, stored)
  <2> DEFINE q == mutationQueue[syncUser]
  <2>1. ASSUME refusing  PROVE  Tail(q)[Len(down') + 1] = q[Len(down) + 1]
    <3>1. Len(down) + 1 \in DOMAIN q /\ q \in Seq(Batch) /\ down \in Seq(Requests)
      BY <2>1, LostIsQueued
    <3>2. Len(down') = Len(down) - 1 /\ Len(down) \in Nat \ {0}
      <4>1. Len(down) # 0
        BY <1>1, <3>1
      <4>2. QED
        BY <1>1, <3>1, <4>1
    <3>3. /\ DOMAIN Tail(q) = 1..(Len(q) - 1) /\ DOMAIN q = 1..Len(q) /\ Len(q) \in Nat
          /\ \A i \in DOMAIN Tail(q) : Tail(q)[i] = q[i + 1]
      BY <1>3, <3>1, TailAndAppend
    <3> HIDE DEF q
    <3>4. Len(down) \in DOMAIN Tail(q) /\ Len(down') + 1 = Len(down)
      BY <3>1, <3>2, <3>3
    <3>5. QED
      BY <3>3, <3>4
  <2>2. QED
    BY <1>3, <2>1 DEF RInv, RefusedOk
<1>6. QED
  BY <1>1, <1>2, <1>3, <1>4, <1>5 DEF RInv

LEMMA ErrorsCarry ==
  ASSUME IInv, SInv, AInv, RInv, HandleWriteError
  PROVE  /\ RInv'
         /\ store.pipeline # <<>> /\ Head(store.pipeline).write \in carried \cup stored
         /\ carried' \in {carried, carried \ {Head(store.pipeline).write}}
<1> DEFINE w == Head(store.pipeline).write
<1>1. /\ refusing /\ store.handshakeComplete /\ StreamEnds
      /\ RemoveBatch(Head(store.pipeline))
      /\ refused' = refused \cup {w}
      /\ carried' = IF \E l \in leftovers' : w \in ToSet(l) THEN carried ELSE carried \ {w}
      /\ UNCHANGED <<syncUser, workerQueue, stored, made>>
  BY DEF HandleWriteError, counts
<1>2. store.pipeline # <<>> /\ store.pipeline \in Seq(Batch)
  BY <1>1, RefusingPipeline
<1>3. carried' \in SUBSET carried
  BY <1>1
<1>4. /\ mutationQueue[syncUser] # <<>> /\ Head(store.pipeline) = Head(mutationQueue[syncUser])
      /\ mutationQueue'[syncUser] = Tail(mutationQueue[syncUser])
      /\ WritesUnique(mutationQueue')
      /\ WritesAscend(workerQueue, Queued(mutationQueue') \cup carried' \cup stored, made)
      /\ \A x, y : Precedes(mutationQueue', x, y) => Precedes(mutationQueue, x, y)
  BY <1>1, <1>2, <1>3, LeavingCarries
<1>5. w \in Writes
  <2>1. Head(store.pipeline) \in Batch
    BY <1>2, TailAndAppend
  <2>2. QED
    BY <2>1 DEF Batch
<1>6. w \in carried \cup stored
  <2> DEFINE q == mutationQueue[syncUser]
  <2>1. q \in Seq(Batch) /\ down \in Seq(Requests)
    BY <1>1, LostIsQueued
  <2>2. Head(q) = q[1]
    BY <1>4, <2>1, TailAndAppend
  <2>3. CASE down = <<>>
    <3>1. Len(down) + 1 = 1
      BY <2>3
    <3>2. QED
      BY <1>1, <1>4, <2>2, <3>1 DEF RInv, RefusedOk
  <2>4. CASE down # <<>>
    <3>1. Head(down) # Handshake
      <4>1. IsOpen(store)
        BY <1>1 DEF SInv, StreamOk
      <4>2. QED
        BY <1>1, <2>4, <4>1, OpenStream, OnlyWrites DEF SInv
    <3>2. QED
      BY <2>4, <3>1, FirstIsStored
  <2>5. QED
    BY <2>3, <2>4
<1>7. /\ wire' = <<>> /\ refusing' = FALSE /\ leftovers' = leftovers
  BY <1>1 DEF StreamEnds
<1>8. ASSUME NEW l \in leftovers  PROVE  LeftoverOk(l, mutationQueue', carried', stored)
  <2>1. LeftoverOk(l, mutationQueue, carried, stored)
    BY DEF RInv
  <2>2. \A k \in DOMAIN l : l[k] \in carried \cup stored /\ l[k] \in ToSet(l)
    BY <2>1 DEF LeftoverOk, ToSet
  <2>3. \A k \in DOMAIN l : l[k] \in carried' \cup stored
    BY <1>1, <1>7, <2>2
  <2>4. QED
    BY <1>4, <2>1, <2>3, LeftoverStaysOk
<1>9. /\ WireOk(wire', carried', stored)
      /\ RefusedOk(refusing', down', mutationQueue'[syncUser], carried', stored)
  BY <1>7, NothingCarriedYet
<1>10. RInv'
  <2>1. carried' \subseteq Writes /\ refused' \subseteq Writes /\ stored' \subseteq Writes
        /\ leftovers' \subseteq Seq(Writes)
    BY <1>1, <1>3, <1>5, <1>7 DEF RInv
  <2>2. QED
    BY <1>1, <1>4, <1>7, <1>8, <1>9, <2>1 DEF RInv
<1>11. QED
  BY <1>1, <1>2, <1>6, <1>10

(* What is to be written next is the first of the pipeline not yet on the  *)
(* network.                                                                *)
LEMMA UpIsPipeline ==
  ASSUME SInv, store.up # <<>>, Head(store.up) # Handshake
  PROVE  LET n == Len(down) + Lost(refusing) + Len(wire) + 1 IN
           /\ Carries(store.pipeline, store.up, wire, down, Lost(refusing))
           /\ Len(down) \in Nat /\ Len(wire) \in Nat /\ Lost(refusing) \in {0, 1}
           /\ store.pipeline \in Seq(Batch)
           /\ down \in Seq(Requests) /\ wire \in Seq(Requests)
           /\ n \in 1..Len(store.pipeline) /\ store.pipeline[n].write = Head(store.up)
<1> DEFINE up == store.up
           p  == store.pipeline
<1>1. IsOpen(store)
  BY DEF SInv, StreamOk, ClosedOk
<1>2. /\ p \in Seq(Batch) /\ up \in Seq(Requests) /\ Lost(refusing) \in {0, 1}
      /\ wire \in Seq(Requests) /\ down \in Seq(Requests)
  BY <1>1, OpenStream DEF SInv
<1>3. store.handshakeComplete
  BY <1>1, OpenStream, OneRequest DEF ShakesHands
<1>4. Carries(p, up, wire, down, Lost(refusing))
  BY <1>1, <1>3, OpenStream
<1>5. up # <<>> /\ Head(up) # Handshake
  OBVIOUS
<1> HIDE DEF up, p
<1>6. /\ Len(p) \in Nat /\ Len(up) \in Nat \ {0} /\ Len(down) \in Nat /\ Len(wire) \in Nat
      /\ 1 \in 1..Len(up) /\ Head(up) = up[1]
  <2>1. Len(up) # 0
    BY <1>2, <1>5
  <2>2. QED
    BY <1>2, <1>5, <2>1, TailAndAppend
<1>7. Len(down) + Lost(refusing) + Len(wire) + 1 \in 1..Len(p)
  BY <1>2, <1>4, <1>6 DEF Carries
<1>8. Head(up) = p[Len(down) + Lost(refusing) + Len(wire) + 1].write
  BY <1>4, <1>6 DEF Carries
<1>9. QED
  BY <1>2, <1>4, <1>6, <1>7, <1>8 DEF up, p

LEMMA CarryCarries ==
  ASSUME IInv, SInv, AInv, RInv, Carry
  PROVE  RInv'
<1> DEFINE r == Head(store.up)
<1>1. /\ store.up # <<>> /\ wire' = Append(wire, r)
      /\ carried' = carried \cup ({r} \ {Handshake})
      /\ UNCHANGED <<syncUser, workerQueue, mutationQueue, down, refusing, leftovers, stored,
                     refused, made>>
  BY DEF Carry, client, counts
<1>2. wire \in Seq(Requests) /\ r \in Requests
  <2>1. store.up \in Seq(Requests)
    BY DEF SInv, Store
  <2>2. QED
    BY <1>1, <2>1, TailAndAppend DEF SInv
<1>3. ASSUME r # Handshake
      PROVE  r \in Writes /\ r \in Queued(mutationQueue)
  <2> DEFINE n == Len(down) + Lost(refusing) + Len(wire) + 1
  <2>1. n \in 1..Len(store.pipeline) /\ store.pipeline[n].write = r
    BY <1>1, <1>3, UpIsPipeline
  <2> HIDE DEF n
  <2>2. r \in Writes
    BY <1>2, <1>3 DEF Requests
  <2>3. /\ syncUser \in Owners /\ mutationQueue \in [Owners -> Seq(Batch)]
        /\ Begins(store.pipeline, mutationQueue[syncUser]) /\ store.pipeline \in Seq(Batch)
    BY DEF SInv, QueueOk, PipelineOk, IInv, QueuesOk, Store
  <2>4. n \in DOMAIN mutationQueue[syncUser] /\ mutationQueue[syncUser][n].write = r
    <3>1. /\ DOMAIN mutationQueue[syncUser] = 1..Len(mutationQueue[syncUser])
          /\ Len(mutationQueue[syncUser]) \in Nat
      BY <2>3, BatchesAreTyped
    <3>2. QED
      BY <2>1, <2>3, <3>1 DEF Begins
  <2>5. QED
    BY <2>2, <2>3, <2>4, QueuedAreInQueues
<1>4. carried' \subseteq Writes
  BY <1>1, <1>3 DEF RInv
<1>5. WritesAscend(workerQueue, Queued(mutationQueue) \cup carried' \cup stored, made)
  <2>1. Queued(mutationQueue) \cup carried' \cup stored
          = Queued(mutationQueue) \cup carried \cup stored
    BY <1>1, <1>3
  <2>2. QED
    BY <2>1 DEF RInv
<1>6. WireOk(wire', carried', stored)
  <2>1. /\ DOMAIN wire' = DOMAIN wire \cup {Len(wire) + 1} /\ wire'[Len(wire) + 1] = r
        /\ \A i \in DOMAIN wire : wire'[i] = wire[i]
    BY <1>1, <1>2, TailAndAppend
  <2>2. QED
    BY <1>1, <2>1 DEF RInv, WireOk
<1>7. RefusedOk(refusing, down, mutationQueue[syncUser], carried', stored)
  BY <1>1 DEF RInv, RefusedOk
<1>8. ASSUME NEW l \in leftovers  PROVE  LeftoverOk(l, mutationQueue, carried', stored)
  BY <1>1 DEF RInv, LeftoverOk
<1>9. QED
  BY <1>1, <1>4, <1>5, <1>6, <1>7, <1>8 DEF RInv

(* The write at the head of the network was carried, and what precedes it  *)
(* in its queue is applied.                                                *)
LEMMA NextOnWire ==
  ASSUME IInv, SInv, AInv, RInv, wire # <<>>, Head(wire) # Handshake, ~refusing
  PROVE  /\ wire \in Seq(Requests) /\ wire # <<>>
         /\ Head(wire) \in Writes /\ Head(wire) \in carried \cup stored
         /\ \A a : Precedes(mutationQueue, a, Head(wire)) => a \in stored
         /\ mutationQueue[syncUser][Len(down) + 1].write = Head(wire)
<1> DEFINE p == store.pipeline
           w == Head(wire)
<1>1. wire \in Seq(Requests) /\ down \in Seq(Requests)
  BY DEF SInv
<1>2. 1 \in DOMAIN wire /\ w = wire[1] /\ Len(down) \in Nat
  BY <1>1, TailAndAppend
<1>3. /\ Carries(p, store.up, wire, down, 0) /\ p \in Seq(Batch)
      /\ Len(down) + 0 + 1 \in 1..Len(p) /\ p[Len(down) + 0 + 1].write = w
      /\ w \in Writes
  BY <1>2, WireIsPipeline DEF Lost
<1>4. w \in carried \cup stored
  BY <1>2 DEF RInv, WireOk
<1>5. ASSUME NEW a, Precedes(mutationQueue, a, w)  PROVE  a \in stored
  <2> DEFINE n == Len(down) + 0 + 1
  <2>1. n \in 1..Len(store.pipeline) /\ Precedes(mutationQueue, a, store.pipeline[n].write)
    BY <1>3, <1>5
  <2>2. WritesUnique(mutationQueue)
    BY DEF RInv
  <2> HIDE DEF n
  <2>3. PICK j \in 1..Len(p) : j < n /\ p[j].write = a
    BY <2>1, <2>2, PipelineOrder
  <2>4. j \in 1..Len(down)
    BY <1>2, <2>3 DEF n
  <2>5. j \in DOMAIN down /\ down[j] = a
    BY <1>1, <1>3, <2>3, <2>4 DEF Carries
  <2>6. a # Handshake
    <3>1. \A b \in Batch : b.write # Handshake
      BY PipelineBounds DEF Batch, Writes, Handshake
    <3>2. QED
      BY <1>3, <2>3, <3>1
  <2>7. QED
    BY <2>5, <2>6 DEF AInv, ResultsOk
<1>6. mutationQueue[syncUser][Len(down) + 1].write = w
  <2>1. Begins(p, mutationQueue[syncUser])
    BY DEF SInv, PipelineOk
  <2>2. Len(down) + 0 + 1 = Len(down) + 1
    BY <1>2
  <2>3. QED
    BY <1>3, <2>1, <2>2 DEF Begins
<1>7. QED
  BY <1>1, <1>3, <1>4, <1>5, <1>6

(* The backend takes a write: one that was carried, when all before it in  *)
(* its queue are applied.                                                  *)
AppliesInOrder ==
  \/ UNCHANGED <<carried, stored>>
  \/ \E w \in Writes \cap (carried \cup stored) :
       /\ Apply(w)
       /\ \A a : Precedes(mutationQueue, a, w) => a \in stored

LEMMA Applying ==
  ASSUME NEW w \in carried \cup stored, Apply(w)
  PROVE  /\ carried' \cup stored' = carried \cup stored
         /\ stored \subseteq stored' /\ w \in stored'
BY DEF Apply

LEMMA LeftoversWait ==
  ASSUME RInv, carried' \cup stored' = carried \cup stored, stored \subseteq stored',
         NEW l \in leftovers
  PROVE  LeftoverOk(l, mutationQueue, carried', stored')
<1>1. LeftoverOk(l, mutationQueue, carried, stored)
  BY DEF RInv
<1>2. QED
  BY <1>1, LeftoverStaysOk DEF LeftoverOk

LEMMA BackendAnswersCarries ==
  ASSUME IInv, SInv, AInv, RInv, BackendAnswers
  PROVE  RInv' /\ AppliesInOrder
<1>1. /\ wire # <<>> /\ ~refusing /\ wire' = Tail(wire)
      /\ UNCHANGED <<syncUser, mutationQueue, workerQueue, leftovers, refused, made>>
  BY DEF BackendAnswers, client, counts
<1>2. wire \in Seq(Requests)
  BY DEF SInv
<1>3. \A i \in DOMAIN wire' : i + 1 \in DOMAIN wire /\ wire'[i] = wire[i + 1]
  BY <1>1, <1>2, TailAndAppend
<1>4. /\ carried' \cup stored' = carried \cup stored /\ stored \subseteq stored'
      /\ carried' \subseteq Writes /\ stored' \subseteq Writes
      /\ AppliesInOrder
  <2>1. CASE UNCHANGED <<carried, stored>>
    BY <2>1 DEF AppliesInOrder, RInv
  <2>2. CASE Head(wire) # Handshake /\ Apply(Head(wire))
    <3>1. /\ Head(wire) \in Writes /\ Head(wire) \in carried \cup stored
          /\ \A a : Precedes(mutationQueue, a, Head(wire)) => a \in stored
      BY <1>1, <2>2, NextOnWire
    <3>2. /\ carried' \cup stored' = carried \cup stored /\ stored \subseteq stored'
      BY <2>2, <3>1, Applying
    <3>3. AppliesInOrder
      BY <2>2, <3>1 DEF AppliesInOrder
    <3>4. QED
      BY <3>2, <3>3 DEF RInv
  <2>3. QED
    BY <2>1, <2>2 DEF BackendAnswers
<1>5. WireOk(wire', carried', stored')
  BY <1>3, <1>4 DEF RInv, WireOk
<1>6. RefusedOk(refusing', down', mutationQueue[syncUser], carried', stored')
  <2>1. CASE refusing' = refusing
    BY <1>1, <2>1 DEF RefusedOk
  <2>2. CASE Head(wire) # Handshake /\ UNCHANGED <<down, stored, carried>>
    <3>1. /\ Head(wire) \in carried \cup stored
          /\ mutationQueue[syncUser][Len(down) + 1].write = Head(wire)
      BY <1>1, <2>2, NextOnWire
    <3>2. QED
      BY <2>2, <3>1 DEF RefusedOk
  <2>3. QED
    BY <2>1, <2>2 DEF BackendAnswers
<1>7. \A l \in leftovers : LeftoverOk(l, mutationQueue, carried', stored')
  BY <1>4, LeftoversWait
<1>8. WritesAscend(workerQueue, Queued(mutationQueue) \cup carried' \cup stored', made)
  <2>1. Queued(mutationQueue) \cup carried' \cup stored'
          = Queued(mutationQueue) \cup carried \cup stored
    BY <1>4
  <2>2. QED
    BY <2>1 DEF RInv
<1>9. QED
  BY <1>1, <1>4, <1>5, <1>6, <1>7, <1>8 DEF RInv

LEMMA LeftoversCarry ==
  ASSUME IInv, SInv, AInv, RInv, NEW l \in leftovers, BackendAppliesLeftover(l)
  PROVE  RInv' /\ AppliesInOrder
<1>1. UNCHANGED <<syncUser, mutationQueue, workerQueue, wire, down, refusing, refused, made>>
  BY DEF BackendAppliesLeftover, client, counts
<1>2. /\ l \in Seq(Writes) /\ l # <<>>
      /\ \A k \in DOMAIN l :
           /\ l[k] \in carried \cup stored
           /\ \A a : Precedes(mutationQueue, a, l[k]) =>
                       a \in stored \/ \E n \in DOMAIN l : n < k /\ l[n] = a
  BY DEF RInv, LeftoverOk
<1>3. /\ 1 \in DOMAIN l /\ Head(l) = l[1] /\ Head(l) \in Writes
      /\ DOMAIN l = 1..Len(l) /\ Len(l) \in Nat
  BY <1>2, TailAndAppend
<1>4. ASSUME /\ carried' \cup stored' = carried \cup stored /\ stored \subseteq stored'
             /\ leftovers' \subseteq Seq(Writes)
             /\ \A k \in leftovers' : LeftoverOk(k, mutationQueue, carried', stored')
      PROVE  RInv'
  <2>1. carried' \subseteq Writes /\ stored' \subseteq Writes
    BY <1>4 DEF RInv
  <2>2. WireOk(wire, carried', stored')
    BY <1>4 DEF RInv, WireOk
  <2>3. RefusedOk(refusing, down, mutationQueue[syncUser], carried', stored')
    BY <1>4 DEF RInv, RefusedOk
  <2>4. WritesAscend(workerQueue, Queued(mutationQueue) \cup carried' \cup stored', made)
    <3>1. Queued(mutationQueue) \cup carried' \cup stored'
            = Queued(mutationQueue) \cup carried \cup stored
      BY <1>4
    <3>2. QED
      BY <3>1 DEF RInv
  <2>5. QED
    BY <1>1, <1>4, <2>1, <2>2, <2>3, <2>4 DEF RInv
<1>5. CASE leftovers' = leftovers \ {l} /\ UNCHANGED <<stored, carried>>
  <2>1. RInv'
    BY <1>4, <1>5 DEF RInv
  <2>2. QED
    BY <1>5, <2>1 DEF AppliesInOrder
<1>6. CASE Apply(Head(l)) /\ leftovers' = (leftovers \ {l}) \cup ({Tail(l)} \ {<<>>})
  <2>1. Head(l) \in carried \cup stored
    BY <1>2, <1>3
  <2>2. /\ carried' \cup stored' = carried \cup stored
        /\ stored \subseteq stored' /\ Head(l) \in stored'
    BY <1>6, <2>1, Applying
  <2>3. \A a : Precedes(mutationQueue, a, Head(l)) => a \in stored
    <3>1. \A n \in DOMAIN l : ~(n < 1)
      BY <1>3
    <3>2. QED
      BY <1>2, <1>3, <3>1
  <2>4. ASSUME Tail(l) # <<>>
        PROVE  Tail(l) \in Seq(Writes) /\ LeftoverOk(Tail(l), mutationQueue, carried', stored')
    <3>1. /\ Tail(l) \in Seq(Writes)
          /\ \A i \in DOMAIN Tail(l) :
               i \in Nat /\ i + 1 \in DOMAIN l /\ Tail(l)[i] = l[i + 1]
      BY <1>2, TailAndAppend
    <3>2. \A n \in DOMAIN l : n = 1 \/ (n - 1 \in DOMAIN Tail(l) /\ Tail(l)[n - 1] = l[n])
      <4> DEFINE t == Tail(l)
      <4>1. Len(t) = Len(l) - 1 /\ DOMAIN t = 1..Len(t)
            /\ \A i \in 1..Len(t) : t[i] = l[i + 1]
        BY <1>2, TailAndAppend
      <4> HIDE DEF t
      <4>2. ASSUME NEW n \in DOMAIN l, n # 1
            PROVE  n - 1 \in 1..Len(t) /\ (n - 1) + 1 = n
        BY <1>3, <4>1, <4>2
      <4>3. \A n \in DOMAIN l : n = 1 \/ (n - 1 \in DOMAIN t /\ t[n - 1] = l[n])
        BY <4>1, <4>2
      <4>4. QED
        BY <4>3 DEF t
    <3>3. ASSUME NEW k \in DOMAIN Tail(l)
          PROVE  /\ Tail(l)[k] \in carried' \cup stored'
                 /\ \A a : Precedes(mutationQueue, a, Tail(l)[k]) =>
                             a \in stored' \/ \E n \in DOMAIN Tail(l) : n < k /\ Tail(l)[n] = a
      <4>1. k \in Nat /\ k + 1 \in DOMAIN l /\ Tail(l)[k] = l[k + 1]
        BY <3>1, <3>3
      <4>2. Tail(l)[k] \in carried' \cup stored'
        BY <1>2, <2>2, <4>1
      <4>3. ASSUME NEW a, Precedes(mutationQueue, a, Tail(l)[k]), a \notin stored'
            PROVE  \E n \in DOMAIN Tail(l) : n < k /\ Tail(l)[n] = a
        <5>1. PICK n \in DOMAIN l : n < k + 1 /\ l[n] = a
          BY <1>2, <2>2, <4>1, <4>3
        <5>2. n # 1
          BY <1>3, <2>2, <4>3, <5>1
        <5>3. n - 1 \in DOMAIN Tail(l) /\ Tail(l)[n - 1] = a /\ n - 1 < k
          BY <1>3, <3>2, <4>1, <5>1, <5>2
        <5>4. QED
          BY <5>3
      <4>4. QED
        BY <4>2, <4>3
    <3>4. QED
      BY <2>4, <3>1, <3>3 DEF LeftoverOk
  <2>5. \A k \in leftovers : LeftoverOk(k, mutationQueue, carried', stored')
    BY <2>2, LeftoversWait
  <2>6. /\ leftovers' \subseteq Seq(Writes)
        /\ \A k \in leftovers' : LeftoverOk(k, mutationQueue, carried', stored')
    BY <1>6, <2>4, <2>5 DEF RInv
  <2>7. AppliesInOrder
    BY <1>3, <1>6, <2>1, <2>3 DEF AppliesInOrder
  <2>8. QED
    BY <1>4, <2>2, <2>6, <2>7
<1>7. QED
  BY <1>5, <1>6 DEF BackendAppliesLeftover

LEMMA InitRInv == Init => RInv
<1> SUFFICES ASSUME Init  PROVE  RInv
  OBVIOUS
<1>1. /\ workerQueue = <<>> /\ mutationQueue = [u \in Owners |-> <<>>] /\ wire = <<>>
      /\ refusing = FALSE /\ leftovers = {} /\ stored = {} /\ carried = {} /\ refused = {}
      /\ made = 0
  BY DEF Init
<1>2. \A u \in Owners : DOMAIN mutationQueue[u] = {}
  BY <1>1
<1>3. WritesUnique(mutationQueue) /\ Queued(mutationQueue) = {}
  BY <1>2 DEF WritesUnique, Queued
<1>4. WritesAscend(workerQueue, {}, made)
  BY <1>1 DEF WritesAscend
<1>5. WritesAscend(workerQueue, Queued(mutationQueue) \cup carried \cup stored, made)
  <2>1. Queued(mutationQueue) \cup carried \cup stored = {}
    BY <1>1, <1>3
  <2>2. QED
    BY <1>4, <2>1
<1>6. QED
  BY <1>1, <1>3, <1>5, NothingCarriedYet DEF RInv

LEMMA NextKeepsRInv == IInv /\ SInv /\ AInv /\ RInv /\ [Next]_vars => RInv'
<1> SUFFICES ASSUME IInv, SInv, AInv, RInv, [Next]_vars
             PROVE  RInv'
  OBVIOUS
<1>1. CASE WriteMutations \/ RunWriteMutations
  BY <1>1, WriteMutationsCarry, RunWriteMutationsCarries
<1>2. CASE \/ \E u \in Owners : ChangeAuthUser(u)
           \/ \E request \in store.asked : AuthGetsToken(request)
           \/ RunAuthStateDidChange \/ RunGetTokenCallback
           \/ HandleCredentialChange \/ ResumeStartWithCredentials \/ ResumeStartFails
           \/ BackoffElapses \/ IdleTimeout \/ StreamFails \/ ConnectivityChanges
           \/ OnHandshakeResponse \/ Restart \/ UNCHANGED vars
  BY <1>2, QuietStepsCarry
<1>3. CASE OnMutationResult \/ HandleWriteError \/ Carry
  BY <1>3, ResultsCarry, ErrorsCarry, CarryCarries
<1>4. CASE BackendAnswers \/ \E l \in leftovers : BackendAppliesLeftover(l)
  BY <1>4, BackendAnswersCarries, LeftoversCarry
<1>5. QED
  BY <1>1, <1>2, <1>3, <1>4 DEF Next

--------------------------------------------------------------------------------
(* The refinement: a batch stands for the document it writes.              *)

Documents(queue) == [i \in DOMAIN queue |-> Document(queue[i].write)]
DocumentQueues(queues) == [u \in Owners |-> Documents(queues[u])]
DocumentsOf(writes) == {Document(w) : w \in writes}

LEMMA OneDocumentEach == \A a, b : Document(a) = Document(b) => a = b
<1>1. \A a : Document(a).document = a
  BY DEF Document
<1>2. QED
  BY <1>1

LEMMA DocumentIn == \A w, writes : Document(w) \in DocumentsOf(writes) <=> w \in writes
BY OneDocumentEach DEF DocumentsOf

LEMMA DocumentsShape ==
  ASSUME NEW q \in Seq(Batch)
  PROVE  /\ Documents(q) \in Seq(DocumentsOf(Writes))
         /\ Len(q) \in Nat /\ DOMAIN q = 1..Len(q) /\ Len(Documents(q)) = Len(q)
         /\ DOMAIN Documents(q) = 1..Len(q)
         /\ \A i \in 1..Len(q) : Documents(q)[i] = Document(q[i].write)
<1>1. Len(q) \in Nat /\ DOMAIN q = 1..Len(q) /\ \A i \in 1..Len(q) : q[i].write \in Writes
  <2>1. \A i \in 1..Len(q) : q[i] \in Batch
    OBVIOUS
  <2>2. QED
    BY <2>1 DEF Batch
<1>2. \A i \in 1..Len(q) : Document(q[i].write) \in DocumentsOf(Writes)
  BY <1>1, DocumentIn
<1>3. Documents(q) = [i \in 1..Len(q) |-> Document(q[i].write)]
  BY <1>1 DEF Documents
<1> HIDE DEF Documents
<1>4. Documents(q) \in [1..Len(q) -> DocumentsOf(Writes)]
  BY <1>2, <1>3
<1>5. Documents(q) \in Seq(DocumentsOf(Writes))
  BY <1>1, <1>4, SeqDef
<1>6. QED
  BY <1>1, <1>3, <1>4, <1>5, LenProperties

LEMMA DocumentsGrow ==
  ASSUME NEW q \in Seq(Batch), NEW b \in Batch
  PROVE  Documents(Append(q, b)) = Append(Documents(q), Document(b.write))
<1> DEFINE D    == DocumentsOf(Writes)
           d    == Document(b.write)
           more == Append(q, b)
<1>1. /\ more \in Seq(Batch) /\ Len(more) = Len(q) + 1
      /\ more[Len(q) + 1] = b /\ \A i \in 1..Len(q) : more[i] = q[i]
  OBVIOUS
<1>2. d \in D
  <2>1. b.write \in Writes
    BY DEF Batch
  <2>2. QED
    BY <2>1, DocumentIn
<1>3. /\ Documents(q) \in Seq(D) /\ Len(Documents(q)) = Len(q) /\ Len(q) \in Nat
      /\ \A i \in 1..Len(q) : Documents(q)[i] = Document(q[i].write)
  BY DocumentsShape
<1>4. /\ Documents(more) \in Seq(D) /\ Len(Documents(more)) = Len(q) + 1
      /\ \A i \in 1..(Len(q) + 1) : Documents(more)[i] = Document(more[i].write)
  BY <1>1, DocumentsShape
<1> HIDE DEF D, d, more
<1>5. /\ Append(Documents(q), d) \in Seq(D) /\ Len(Append(Documents(q), d)) = Len(q) + 1
      /\ Append(Documents(q), d)[Len(q) + 1] = d
      /\ \A i \in 1..Len(q) : Append(Documents(q), d)[i] = Documents(q)[i]
  BY <1>2, <1>3, TailAndAppend
<1>6. \A i \in 1..(Len(q) + 1) : Documents(more)[i] = Append(Documents(q), d)[i]
  <2>1. Documents(more)[Len(q) + 1] = d
    BY <1>1, <1>3, <1>4 DEF d
  <2>2. \A i \in 1..Len(q) : Documents(more)[i] = Documents(q)[i]
    BY <1>1, <1>3, <1>4
  <2>3. \A i \in 1..(Len(q) + 1) : i = Len(q) + 1 \/ i \in 1..Len(q)
    BY <1>3
  <2>4. QED
    BY <1>5, <2>1, <2>2, <2>3
<1>7. Documents(more) = Append(Documents(q), d)
  BY <1>4, <1>5, <1>6, SeqEqual
<1>8. QED
  BY <1>7 DEF more, d

LEMMA DocumentsShrink ==
  ASSUME NEW q \in Seq(Batch), q # <<>>
  PROVE  /\ Documents(q) # <<>> /\ Documents(Tail(q)) = Tail(Documents(q))
         /\ Head(Documents(q)) = Document(Head(q).write)
<1> DEFINE D    == DocumentsOf(Writes)
           rest == Tail(q)
<1>1. /\ rest \in Seq(Batch) /\ Len(rest) = Len(q) - 1 /\ Len(q) \in Nat \ {0}
      /\ \A i \in 1..Len(rest) : i + 1 \in 1..Len(q) /\ rest[i] = q[i + 1]
      /\ Head(q) = q[1] /\ 1 \in 1..Len(q)
  <2>1. Len(q) # 0
    OBVIOUS
  <2>2. QED
    BY <2>1, TailAndAppend
<1>2. /\ Documents(q) \in Seq(D) /\ Len(Documents(q)) = Len(q)
      /\ \A i \in 1..Len(q) : Documents(q)[i] = Document(q[i].write)
  BY DocumentsShape
<1>3. /\ Documents(rest) \in Seq(D) /\ Len(Documents(rest)) = Len(rest)
      /\ \A i \in 1..Len(rest) : Documents(rest)[i] = Document(rest[i].write)
  BY <1>1, DocumentsShape
<1> HIDE DEF D, rest
<1>4. Documents(q) # <<>>
  BY <1>1, <1>2
<1>5. /\ Tail(Documents(q)) \in Seq(D) /\ Len(Tail(Documents(q))) = Len(rest)
      /\ \A i \in 1..Len(rest) : Tail(Documents(q))[i] = Documents(q)[i + 1]
      /\ Head(Documents(q)) = Documents(q)[1]
  BY <1>1, <1>2, <1>4, HeadTailProperties, TailAndAppend
<1>6. \A i \in 1..Len(rest) : Documents(rest)[i] = Tail(Documents(q))[i]
  BY <1>1, <1>2, <1>3, <1>5
<1>7. Documents(rest) = Tail(Documents(q))
  BY <1>3, <1>5, <1>6, SeqEqual
<1>8. QED
  BY <1>1, <1>2, <1>4, <1>5, <1>7 DEF rest

LEMMA DocumentQueuesChange ==
  ASSUME NEW queues \in [Owners -> Seq(Batch)], NEW u \in Owners, NEW queue, NEW after,
         Requeued(queues, u, queue, after)
  PROVE  DocumentQueues(after) = [DocumentQueues(queues) EXCEPT ![u] = Documents(queue)]
<1>1. /\ after[u] = queue
      /\ \A v \in Owners : v # u => after[v] = queues[v]
  BY DEF Requeued
<1>2. QED
  BY <1>1 DEF DocumentQueues

LEMMA StoredDocuments == \A w : Client!IsStored(Document(w)) <=> w \in stored
BY DEF Client!IsStored, Document

LEMMA InitIsClientInit == Init => Client!FirestoreInit
<1> SUFFICES ASSUME Init  PROVE  Client!FirestoreInit
  OBVIOUS
<1>1. /\ syncUser = NoUser /\ mutationQueue = [u \in Owners |-> <<>>]
      /\ carried = {} /\ stored = {} /\ refused = {}
  BY DEF Init
<1>2. \A u \in Owners : [i \in DOMAIN mutationQueue[u] |-> Document(mutationQueue[u][i].write)] = <<>>
  BY <1>1
<1>3. Owners = Client!Owners
  BY DEF Owners, Client!Owners
<1>4. QED
  BY <1>1, <1>2, <1>3 DEF Client!FirestoreInit

(* The client's state is that of these variables. *)
LEMMA ClientStands ==
  UNCHANGED <<syncUser, mutationQueue, carried, stored, refused>>
    => UNCHANGED Client!firestoreVars
BY DEF Client!firestoreVars

LEMMA RunWriteMutationsIsWrite ==
  ASSUME IInv, SInv, RunWriteMutations
  PROVE  \E w \in Writes : Client!WriteMutation(Document(w))
<1> DEFINE w     == Head(workerQueue).write
           batch == [id |-> nextBatchId, write |-> w]
           q     == mutationQueue[syncUser]
           more  == Append(q, batch)
<1>1. /\ workerQueue # <<>> /\ IsWrite(Head(workerQueue))
      /\ mutationQueue' = [mutationQueue EXCEPT ![syncUser] = more]
      /\ UNCHANGED <<syncUser, stored, carried, refused>>
  BY DEF RunWriteMutations, IsWrite, network
<1>2. /\ workerQueue \in Seq(Operation) /\ syncUser \in Owners /\ nextBatchId \in Nat \ {0}
      /\ mutationQueue \in [Owners -> Seq(Batch)] /\ q \in Seq(Batch)
  BY DEF IInv, QueuesOk, SInv, QueueOk
<1>3. w \in Writes
  <2>1. 1 \in DOMAIN workerQueue /\ Head(workerQueue) = workerQueue[1]
    BY <1>1, <1>2, TailAndAppend
  <2>2. QED
    BY <1>1, <1>2, <2>1, WritesAreTyped
<1> HIDE DEF w
<1>4. batch \in Batch /\ batch.write = w
  BY <1>2, <1>3 DEF Batch
<1> HIDE DEF batch
<1>5. Requeued(mutationQueue, syncUser, more, mutationQueue')
  BY <1>1 DEF Requeued
<1>6. Documents(more) = Append(Documents(q), Document(w))
  BY <1>2, <1>4, DocumentsGrow
<1> HIDE DEF more
<1>7. DocumentQueues(mutationQueue')
        = [DocumentQueues(mutationQueue) EXCEPT ![syncUser] = Append(@, Document(w))]
  <2>1. DocumentQueues(mutationQueue)[syncUser] = Documents(q)
    BY <1>2 DEF DocumentQueues
  <2>2. DocumentQueues(mutationQueue')
          = [DocumentQueues(mutationQueue) EXCEPT ![syncUser] = Documents(more)]
    BY <1>2, <1>5, DocumentQueuesChange
  <2>3. QED
    BY <1>6, <2>1, <2>2
<1>8. QED
  BY <1>1, <1>3, <1>7 DEF Client!WriteMutation, DocumentQueues, Documents

(* The first write leaves the queue of the client. *)
LEMMA LeavingIsDropping ==
  ASSUME IInv, SInv, AInv, RInv, store.pipeline # <<>>, RemoveBatch(Head(store.pipeline)),
         syncUser' = syncUser
  PROVE  /\ Client!HasWork /\ Client!DropNextWrite
         /\ Client!NextWrite = Document(Head(store.pipeline).write)
<1> DEFINE q == mutationQueue[syncUser]
<1>1. /\ syncUser \in Owners /\ mutationQueue \in [Owners -> Seq(Batch)] /\ q \in Seq(Batch)
  BY DEF IInv, QueuesOk, SInv, QueueOk
<1>2. /\ q # <<>> /\ Head(store.pipeline) = Head(q)
      /\ Requeued(mutationQueue, syncUser, Tail(q), mutationQueue')
  BY FirstAnswered
<1>3. /\ Documents(q) # <<>> /\ Documents(Tail(q)) = Tail(Documents(q))
      /\ Head(Documents(q)) = Document(Head(q).write)
  BY <1>1, <1>2, DocumentsShrink
<1>4. DocumentQueues(mutationQueue)[syncUser] = Documents(q)
  BY <1>1 DEF DocumentQueues
<1>5. DocumentQueues(mutationQueue')
        = [DocumentQueues(mutationQueue) EXCEPT ![syncUser] = Tail(@)]
  <2>1. DocumentQueues(mutationQueue')
          = [DocumentQueues(mutationQueue) EXCEPT ![syncUser] = Documents(Tail(q))]
    BY <1>1, <1>2, DocumentQueuesChange
  <2>2. QED
    BY <1>3, <1>4, <2>1
<1>6. DocumentQueues(mutationQueue)[syncUser] # <<>>
  BY <1>3, <1>4
<1>7. Head(DocumentQueues(mutationQueue)[syncUser]) = Document(Head(store.pipeline).write)
  BY <1>2, <1>3, <1>4
<1>8. Client!HasWork
  BY <1>6 DEF Client!HasWork, DocumentQueues, Documents
<1>9. Client!DropNextWrite
  BY <1>5 DEF Client!DropNextWrite, DocumentQueues, Documents
<1>10. Client!NextWrite = Document(Head(store.pipeline).write)
  BY <1>7 DEF Client!NextWrite, DocumentQueues, Documents
<1>11. QED
  BY <1>8, <1>9, <1>10

LEMMA ResultIsSuccessfulWrite ==
  ASSUME IInv, SInv, AInv, RInv, OnMutationResult
  PROVE  Client!HandleSuccessfulWrite
<1>1. /\ RemoveBatch(Head(store.pipeline))
      /\ UNCHANGED <<syncUser, stored, carried, refused>>
  BY DEF OnMutationResult
<1>2. store.pipeline # <<>> /\ Head(store.pipeline).write \in stored
  BY ResultsCarry
<1>3. /\ Client!HasWork /\ Client!DropNextWrite
      /\ Client!NextWrite = Document(Head(store.pipeline).write)
  BY <1>1, <1>2, LeavingIsDropping
<1>4. Client!IsStored(Client!NextWrite)
  BY <1>2, <1>3, StoredDocuments
<1>5. QED
  BY <1>1, <1>3, <1>4 DEF Client!HandleSuccessfulWrite

LEMMA ErrorIsRejectedWrite ==
  ASSUME IInv, SInv, AInv, RInv, HandleWriteError
  PROVE  Client!HandleRejectedWrite
<1> DEFINE w == Head(store.pipeline).write
<1>1. /\ RemoveBatch(Head(store.pipeline))
      /\ refused' = refused \cup {w}
      /\ UNCHANGED <<syncUser, stored>>
  BY DEF HandleWriteError
<1>2. /\ store.pipeline # <<>> /\ w \in carried \cup stored
      /\ carried' \in {carried, carried \ {w}}
  BY ErrorsCarry
<1>3. /\ Client!HasWork /\ Client!DropNextWrite
      /\ Client!NextWrite = Document(w)
  BY <1>1, <1>2, LeavingIsDropping
<1> HIDE DEF w
<1>4. Document(w) \in DocumentsOf(carried) \/ Client!IsStored(Document(w))
  BY <1>2, StoredDocuments, DocumentIn
<1>5. DocumentsOf(carried') \in {DocumentsOf(carried), DocumentsOf(carried) \ {Document(w)}}
  <2>1. DocumentsOf(carried \ {w}) = DocumentsOf(carried) \ {Document(w)}
    BY OneDocumentEach DEF DocumentsOf
  <2>2. QED
    BY <1>2, <2>1
<1>6. DocumentsOf(refused') = DocumentsOf(refused) \cup {Document(w)}
  BY <1>1 DEF DocumentsOf
<1>7. QED
  BY <1>1, <1>3, <1>4, <1>5, <1>6 DEF Client!HandleRejectedWrite, DocumentsOf

(* What stands before the next write to send was carried or is applied.    *)
LEMMA SentBefore ==
  ASSUME IInv, SInv, AInv, RInv, store.up # <<>>, Head(store.up) # Handshake
  PROVE  LET n == Len(down) + Lost(refusing) + Len(wire) + 1 IN
           /\ n \in DOMAIN mutationQueue[syncUser]
           /\ mutationQueue[syncUser][n].write = Head(store.up)
           /\ \A j \in 1..(n - 1) :
                mutationQueue[syncUser][j].write \in carried \cup stored
<1> DEFINE n == Len(down) + Lost(refusing) + Len(wire) + 1
           p == store.pipeline
           q == mutationQueue[syncUser]
<1>1. /\ Carries(p, store.up, wire, down, Lost(refusing))
      /\ Len(down) \in Nat /\ Len(wire) \in Nat /\ Lost(refusing) \in {0, 1}
      /\ p \in Seq(Batch) /\ down \in Seq(Requests) /\ wire \in Seq(Requests)
      /\ n \in 1..Len(p) /\ p[n].write = Head(store.up)
  BY UpIsPipeline
<1>2. /\ syncUser \in Owners /\ mutationQueue \in [Owners -> Seq(Batch)] /\ Begins(p, q)
  BY DEF SInv, QueueOk, PipelineOk, IInv, QueuesOk
<1>3. DOMAIN q = 1..Len(q) /\ Len(q) \in Nat
  BY <1>2, BatchesAreTyped
<1>4. /\ Len(p) \in Nat /\ \A j \in 1..Len(p) : j \in DOMAIN q /\ p[j] = q[j]
  BY <1>1, <1>2, <1>3 DEF Begins
<1>5. \A b \in Batch : b.write # Handshake
  BY PipelineBounds DEF Batch, Writes, Handshake
<1>6. ASSUME NEW j \in 1..(n - 1)  PROVE  q[j].write \in carried \cup stored
  <2>1. j \in 1..Len(p) /\ p[j] = q[j] /\ p[j].write # Handshake
    <3>1. j \in 1..Len(p)
      BY <1>1, <1>4
    <3>2. p[j] \in Batch
      BY <1>1, <3>1
    <3>3. QED
      BY <1>4, <1>5, <3>1, <3>2
  <2>2. CASE j <= Len(down)
    <3>1. j \in 1..Len(down) /\ DOMAIN down = 1..Len(down)
      BY <1>1, <2>1, <2>2
    <3>2. down[j] = p[j].write
      BY <1>1, <3>1 DEF Carries
    <3>3. QED
      BY <2>1, <3>1, <3>2 DEF AInv, ResultsOk
  <2>3. CASE refusing /\ j = Len(down) + 1
    BY <2>3 DEF RInv, RefusedOk
  <2>4. CASE j > Len(down) + Lost(refusing)
    <3> DEFINE k == j - Len(down) - Lost(refusing)
    <3>1. k \in 1..Len(wire) /\ Len(down) + Lost(refusing) + k = j
      BY <1>1, <2>4
    <3> HIDE DEF k
    <3>2. wire[k] = p[Len(down) + Lost(refusing) + k].write
      BY <1>1, <3>1 DEF Carries
    <3>3. k \in DOMAIN wire /\ wire[k] = q[j].write
      BY <1>1, <2>1, <3>1, <3>2
    <3>4. QED
      BY <2>1, <3>3 DEF RInv, WireOk
  <2>5. j <= Len(down) \/ (refusing /\ j = Len(down) + 1) \/ j > Len(down) + Lost(refusing)
    BY <1>1 DEF Lost
  <2>6. QED
    BY <2>2, <2>3, <2>4, <2>5
<1>7. n \in DOMAIN q /\ q[n].write = Head(store.up)
  BY <1>1, <1>4
<1>8. QED
  BY <1>6, <1>7

LEMMA CarryIsFilling ==
  ASSUME IInv, SInv, AInv, RInv, Carry
  PROVE  UNCHANGED Client!firestoreVars \/ Client!FillWritePipeline
<1> DEFINE w == Head(store.up)
           n == Len(down) + Lost(refusing) + Len(wire) + 1
           q == mutationQueue[syncUser]
<1>1. /\ store.up # <<>>
      /\ carried' = carried \cup ({w} \ {Handshake})
      /\ UNCHANGED <<syncUser, mutationQueue, stored, refused>>
  BY DEF Carry, client
<1>2. CASE w = Handshake \/ w \in carried
  <2>1. carried' = carried
    BY <1>1, <1>2
  <2>2. QED
    BY <1>1, <2>1, ClientStands
<1>3. CASE w # Handshake /\ w \notin carried
  <2>1. /\ n \in DOMAIN q /\ q[n].write = w
        /\ \A j \in 1..(n - 1) : q[j].write \in carried \cup stored
    BY <1>1, <1>3, SentBefore
  <2>2. syncUser \in Owners /\ mutationQueue \in [Owners -> Seq(Batch)]
    BY DEF SInv, QueueOk, IInv, QueuesOk
  <2>3. q \in Seq(Batch) /\ DOMAIN q = 1..Len(q) /\ Len(q) \in Nat
    BY <2>2, BatchesAreTyped
  <2>4. /\ DOMAIN Documents(q) = 1..Len(q)
        /\ \A i \in 1..Len(q) : Documents(q)[i] = Document(q[i].write)
    BY <2>3, DocumentsShape
  <2> HIDE DEF n, w
  <2>5. n \in DOMAIN Documents(q) /\ Documents(q)[n] = Document(w)
    BY <2>1, <2>3, <2>4
  <2>6. Documents(q)[n] \notin DocumentsOf(carried)
    BY <1>3, <2>5, DocumentIn
  <2>7. \A j \in 1..(n - 1) :
          Documents(q)[j] \in DocumentsOf(carried) \/ Client!IsStored(Documents(q)[j])
    <3>1. ASSUME NEW j \in 1..(n - 1)
          PROVE  /\ Documents(q)[j] = Document(q[j].write)
                 /\ q[j].write \in carried \cup stored
      <4>1. j \in 1..Len(q)
        BY <2>1, <2>3
      <4>2. QED
        BY <2>1, <2>4, <4>1
    <3>2. \A x : Document(x).collection = "orders" /\ Document(x).document = x
      BY DEF Document
    <3>3. ASSUME NEW j \in 1..(n - 1)
          PROVE  \/ Documents(q)[j] \in DocumentsOf(carried)
                 \/ /\ Documents(q)[j].collection = "orders"
                    /\ Documents(q)[j].document \in stored
      BY <3>1, <3>2, DocumentIn
    <3>4. QED
      BY <3>3 DEF Client!IsStored
  <2>8. DocumentsOf(carried') = DocumentsOf(carried) \cup {Documents(q)[n]}
    <3>1. carried' = carried \cup {w}
      BY <1>1, <1>3 DEF w
    <3>2. QED
      BY <2>5, <3>1 DEF DocumentsOf
  <2>9. Documents(q) = DocumentQueues(mutationQueue)[syncUser]
    BY <2>2 DEF DocumentQueues
  <2>10. Client!FillWritePipeline
    <3> DEFINE queue == DocumentQueues(mutationQueue)[syncUser]
    <3>1. \E i \in DOMAIN queue :
            /\ queue[i] \notin DocumentsOf(carried)
            /\ \A j \in 1..i - 1 : queue[j] \in DocumentsOf(carried) \/ Client!IsStored(queue[j])
            /\ DocumentsOf(carried') = DocumentsOf(carried) \cup {queue[i]}
      BY <2>5, <2>6, <2>7, <2>8, <2>9
    <3>2. UNCHANGED <<syncUser, DocumentQueues(mutationQueue), stored, DocumentsOf(refused)>>
      BY <1>1
    <3>3. QED
      BY <3>1, <3>2 DEF Client!FillWritePipeline, Client!IsStored, DocumentQueues, Documents,
                        DocumentsOf
  <2>11. QED
    BY <2>10
<1>4. QED
  BY <1>2, <1>3

LEMMA ApplyingIsBackendApplies ==
  ASSUME SInv, AppliesInOrder, UNCHANGED <<syncUser, mutationQueue, refused>>
  PROVE  \/ UNCHANGED Client!firestoreVars
         \/ \E w \in Writes : Client!BackendApplies(Document(w))
<1>1. CASE UNCHANGED <<carried, stored>>
  BY <1>1, ClientStands
<1>2. ASSUME NEW w \in Writes, w \in carried \cup stored, Apply(w),
             \A a : Precedes(mutationQueue, a, w) => a \in stored
      PROVE  \/ UNCHANGED Client!firestoreVars
             \/ \E m \in Writes : Client!BackendApplies(Document(m))
  <2>1. CASE w \notin carried
    <3>1. UNCHANGED <<carried, stored>>
      BY <1>2, <2>1 DEF Apply
    <3>2. QED
      BY <3>1, ClientStands
  <2>2. CASE w \in carried
    <3>1. mutationQueue \in [Owners -> Seq(Batch)]
      BY DEF SInv, QueueOk
    <3>2. ASSUME NEW u \in Owners, NEW i \in DOMAIN DocumentQueues(mutationQueue)[u],
                 DocumentQueues(mutationQueue)[u][i] = Document(w), NEW j \in 1..i - 1
          PROVE  Client!IsStored(DocumentQueues(mutationQueue)[u][j])
      <4> DEFINE q == mutationQueue[u]
      <4>1. q \in Seq(Batch) /\ DOMAIN q = 1..Len(q) /\ Len(q) \in Nat
        BY <3>1, BatchesAreTyped
      <4>2. DocumentQueues(mutationQueue)[u] = Documents(q)
        BY DEF DocumentQueues
      <4>3. /\ DOMAIN Documents(q) = 1..Len(q)
            /\ \A k \in 1..Len(q) : Documents(q)[k] = Document(q[k].write)
        BY <4>1, DocumentsShape
      <4>4. i \in DOMAIN q /\ j \in DOMAIN q /\ j < i
        BY <3>2, <4>1, <4>2, <4>3
      <4>5. q[i].write = w
        BY <3>2, <4>1, <4>2, <4>3, <4>4, OneDocumentEach
      <4>6. q[j].write \in stored
        BY <1>2, <4>4, <4>5 DEF Precedes
      <4>7. DocumentQueues(mutationQueue)[u][j] = Document(q[j].write)
        BY <4>1, <4>2, <4>3, <4>4
      <4>8. Document(q[j].write).collection = "orders" /\ Document(q[j].write).document = q[j].write
        BY DEF Document
      <4>9. QED
        BY <4>6, <4>7, <4>8 DEF Client!IsStored
    <3>3. Document(w) \in DocumentsOf(carried)
      BY <2>2, DocumentIn
    <3>4. DocumentsOf(carried') = DocumentsOf(carried) \ {Document(w)}
      <4>1. carried' = carried \ {w}
        BY <1>2 DEF Apply
      <4>2. QED
        BY <4>1, OneDocumentEach DEF DocumentsOf
    <3>5. stored' = stored \cup {w}
      BY <1>2 DEF Apply
    <3>6. Document(w).collection = "orders" /\ Document(w).document = w
      BY DEF Document
    <3>7. UNCHANGED <<syncUser, DocumentQueues(mutationQueue), DocumentsOf(refused)>>
      OBVIOUS
    <3>8. \A u \in Owners : \A i \in DOMAIN DocumentQueues(mutationQueue)[u] :
            DocumentQueues(mutationQueue)[u][i] = Document(w) =>
              \A j \in 1..i - 1 : Client!IsStored(DocumentQueues(mutationQueue)[u][j])
      BY <3>2
    <3>9. Client!Owners = Owners
      BY DEF Owners, Client!Owners
    <3>10. Client!BackendApplies(Document(w))
      BY <3>3, <3>4, <3>5, <3>6, <3>7, <3>8, <3>9
      DEF Client!BackendApplies, Client!IsStored, DocumentQueues, Documents, DocumentsOf
    <3>11. QED
      BY <3>10
  <2>3. QED
    BY <2>1, <2>2
<1>3. QED
  BY <1>1, <1>2 DEF AppliesInOrder

ClientStep ==
  \/ UNCHANGED Client!firestoreVars
  \/ \E w \in Writes : Client!WriteMutation(Document(w)) \/ Client!BackendApplies(Document(w))
  \/ \E u \in Owners : Client!HandleCredentialChange(u)
  \/ Client!FillWritePipeline \/ Client!HandleSuccessfulWrite \/ Client!HandleRejectedWrite

LEMMA ClientStepIsNext ==
  ClientStep => [Client!ClientNext({Document(w) : w \in Writes})]_(Client!firestoreVars)
<1>1. Client!Owners = Owners
  BY DEF Owners, Client!Owners
<1>2. QED
  BY <1>1 DEF ClientStep, Client!ClientNext

(* The steps at which another user's queue is opened, or none is. *)
LEMMA OpeningIsCredentialChange ==
  ASSUME syncUser' \in Owners, UNCHANGED <<mutationQueue, carried, stored, refused>>
  PROVE  ClientStep
<1>1. UNCHANGED <<DocumentQueues(mutationQueue), DocumentsOf(carried), stored,
                  DocumentsOf(refused)>>
  OBVIOUS
<1>2. PICK u \in Owners : syncUser' = u
  OBVIOUS
<1>3. Client!HandleCredentialChange(u)
  BY <1>1, <1>2
  DEF Client!HandleCredentialChange, DocumentQueues, Documents, DocumentsOf
<1>4. QED
  BY <1>3 DEF ClientStep

LEMMA NextIsClientNext ==
  ASSUME IInv, SInv, AInv, RInv, [Next]_vars
  PROVE  ClientStep
<1>1. CASE RunWriteMutations
  BY <1>1, RunWriteMutationsIsWrite DEF ClientStep
<1>2. CASE OnMutationResult \/ HandleWriteError
  BY <1>2, ResultIsSuccessfulWrite, ErrorIsRejectedWrite DEF ClientStep
<1>3. CASE Carry
  BY <1>3, CarryIsFilling DEF ClientStep
<1>4. CASE BackendAnswers \/ \E l \in leftovers : BackendAppliesLeftover(l)
  <2>1. AppliesInOrder
    BY <1>4, BackendAnswersCarries, LeftoversCarry
  <2>2. UNCHANGED <<syncUser, mutationQueue, refused>>
    BY <1>4 DEF BackendAnswers, BackendAppliesLeftover, client
  <2>3. QED
    BY <2>1, <2>2, ApplyingIsBackendApplies DEF ClientStep
<1>5. CASE HandleCredentialChange \/ Restart
  <2>1. UNCHANGED <<mutationQueue, carried, stored, refused>>
    BY <1>5 DEF HandleCredentialChange, Restart, EndStreamIf, network
  <2>2. syncUser' \in Owners
    <3>1. IInv'
      BY NextKeepsIInv
    <3>2. QED
      BY <3>1 DEF IInv, QueuesOk
  <2>3. QED
    BY <2>1, <2>2, OpeningIsCredentialChange
<1>6. CASE \/ WriteMutations \/ \E u \in Owners : ChangeAuthUser(u)
           \/ \E request \in store.asked : AuthGetsToken(request)
           \/ RunAuthStateDidChange \/ RunGetTokenCallback
           \/ ResumeStartWithCredentials \/ ResumeStartFails
           \/ BackoffElapses \/ IdleTimeout \/ StreamFails \/ ConnectivityChanges
           \/ OnHandshakeResponse \/ UNCHANGED vars
  <2>1. UNCHANGED <<syncUser, mutationQueue, carried, stored, refused>>
    <3>1. CASE \/ WriteMutations \/ \E u \in Owners : ChangeAuthUser(u)
               \/ \E request \in store.asked : AuthGetsToken(request)
               \/ RunAuthStateDidChange \/ RunGetTokenCallback
      BY <3>1 DEF WriteMutations, ChangeAuthUser, AuthGetsToken, RunAuthStateDidChange,
                  RunGetTokenCallback, client, network
    <3>2. CASE \/ ResumeStartWithCredentials \/ ResumeStartFails
               \/ BackoffElapses \/ IdleTimeout
      BY <3>2 DEF ResumeStartWithCredentials, ResumeStartFails, BackoffElapses, IdleTimeout,
                  client, network
    <3>3. CASE StreamFails \/ ConnectivityChanges \/ OnHandshakeResponse \/ UNCHANGED vars
      BY <3>3 DEF StreamFails, ConnectivityChanges, OnHandshakeResponse, EndStreamIf, vars,
                  client, network
    <3>4. QED
      BY <1>6, <3>1, <3>2, <3>3
  <2>2. QED
    BY <2>1, ClientStands DEF ClientStep
<1>7. QED
  BY <1>1, <1>2, <1>3, <1>4, <1>5, <1>6 DEF Next

LEMMA WritesKeepTheirOrder == Spec => [](IInv /\ SInv /\ AInv /\ RInv)
<1>1. Init => RInv
  BY InitRInv
<1>2. IInv /\ SInv /\ AInv /\ RInv /\ [Next]_vars => RInv'
  BY NextKeepsRInv
<1>3. QED
  BY <1>1, <1>2, TellingKeepsTrue, PTL DEF Spec

(* The client as the rest of the project knows it is what SyncEngine, the  *)
(* mutation queues and the write stream make of it: whatever breaks or     *)
(* changes on the way, writes of a user are applied in the order of that   *)
(* user's queue, and leave it from the front, with an answer.              *)
THEOREM ClientImplemented == Spec => ImplementsClient
<1>1. Init => Client!FirestoreInit
  BY InitIsClientInit
<1>2. IInv /\ SInv /\ AInv /\ RInv /\ [Next]_vars
        => [Client!ClientNext({Document(w) : w \in Writes})]_(Client!firestoreVars)
  BY NextIsClientNext, ClientStepIsNext
<1>3. QED
  BY <1>1, <1>2, WritesKeepTheirOrder, PTL DEF Spec, ImplementsClient

--------------------------------------------------------------------------------
(* No state that the code asserts away.                                    *)

Counted == authChanges \in 0..MaxAuthChanges /\ mishaps \in 0..MaxMishaps

LEMMA Bounds == MaxAuthChanges \in Nat /\ MaxMishaps \in Nat /\ MaxWrites \in Nat
BY PipelineBounds

LEMMA NextKeepsCount == Counted /\ [Next]_vars => Counted'
<1> SUFFICES ASSUME Counted, [Next]_vars  PROVE  Counted'
  OBVIOUS
<1>1. \/ UNCHANGED <<authChanges, mishaps>>
      \/ authChanges < MaxAuthChanges /\ authChanges' = authChanges + 1 /\ UNCHANGED mishaps
      \/ mishaps < MaxMishaps /\ mishaps' = mishaps + 1 /\ UNCHANGED authChanges
  <2>1. CASE \/ WriteMutations \/ RunWriteMutations
             \/ \E u \in Owners : ChangeAuthUser(u)
             \/ \E request \in store.asked : AuthGetsToken(request)
             \/ RunAuthStateDidChange \/ RunGetTokenCallback
    BY <2>1 DEF WriteMutations, RunWriteMutations, ChangeAuthUser, AuthGetsToken,
                RunAuthStateDidChange, RunGetTokenCallback, counts
  <2>2. CASE \/ HandleCredentialChange \/ ResumeStartWithCredentials \/ ResumeStartFails
             \/ BackoffElapses \/ IdleTimeout \/ OnHandshakeResponse
    BY <2>2 DEF HandleCredentialChange, ResumeStartWithCredentials, ResumeStartFails,
                BackoffElapses, IdleTimeout, OnHandshakeResponse, counts
  <2>3. CASE \/ OnMutationResult \/ StreamFails \/ HandleWriteError \/ ConnectivityChanges
             \/ Carry
    BY <2>3 DEF OnMutationResult, StreamFails, HandleWriteError, ConnectivityChanges, Carry,
                counts
  <2>4. CASE \/ BackendAnswers \/ \E l \in leftovers : BackendAppliesLeftover(l)
             \/ Restart \/ UNCHANGED vars
    BY <2>4 DEF BackendAnswers, BackendAppliesLeftover, Restart, vars, counts
  <2>5. QED
    BY <2>1, <2>2, <2>3, <2>4 DEF Next
<1>2. QED
  BY <1>1, Bounds DEF Counted

LEMMA OneResumes ==
  ASSUME IInv, SInv
  PROVE  /\ ResumesOfThisStart # {} => store.stream = "Starting"
         /\ Cardinality(ResumesOfThisStart) <= 1
<1> DEFINE S == Resuming(workerQueue, store.closeCount)
<1>1. /\ store.stream # "Starting" => S = {}
      /\ AtMostOne(S)
  BY DEF SInv, TokensOk
<1>2. \A op \in ResumesOfThisStart : \E i \in S : op = workerQueue[i]
  BY DEF ResumesOfThisStart, ToSet, Resuming
<1> HIDE DEF S
<1>3. \A x, y \in ResumesOfThisStart : x = y
  BY <1>1, <1>2 DEF AtMostOne
<1>4. ResumesOfThisStart = {} \/ \E x : ResumesOfThisStart = {x}
  BY <1>3
<1>5. Cardinality(ResumesOfThisStart) \in {0, 1}
  BY <1>4, FS_EmptySet, FS_Singleton
<1>6. QED
  BY <1>1, <1>2, <1>5

LEMMA InvariantsMeanTypeOK == IInv /\ SInv /\ AInv /\ RInv /\ Counted => TypeOK
<1> SUFFICES ASSUME IInv, SInv, AInv, RInv, Counted  PROVE  TypeOK
  OBVIOUS
<1>1. /\ authUser \in Owners /\ mainQueue \in Seq(Block) /\ workerQueue \in Seq(Operation)
      /\ syncUser \in Owners
  BY DEF IInv, QueuesOk
<1>2. /\ mutationQueue \in [Owners -> Seq(Batch)] /\ nextBatchId \in Nat \ {0}
      /\ wire \in Seq(Requests) /\ down \in Seq(Requests) /\ refusing \in BOOLEAN
      /\ store \in Store
  BY DEF SInv, QueueOk
<1>3. /\ callbacks \subseteq [user : Owners, id : Nat \ {0}, write : Writes]
      /\ outcomes \subseteq [told : Writes, of : Writes, success : BOOLEAN]
      /\ made \in 0..MaxWrites
  BY DEF AInv, CallbacksOk, OutcomesOk, CallbackRecord, OutcomeRecord
<1>4. /\ leftovers \subseteq Seq(Writes) /\ stored \subseteq Writes /\ carried \subseteq Writes
      /\ refused \subseteq Writes
  BY DEF RInv
<1>5. store \in [pipeline : Seq(Batch), stream : StreamStates, handshakeComplete : BOOLEAN,
                 idle : BOOLEAN, up : Seq(Writes \cup {Handshake}), token : Owners,
                 closeCount : Nat, asked : SUBSET TokenRequest]
  BY <1>2 DEF Store, Requests
<1>6. QED
  BY <1>1, <1>2, <1>3, <1>4, <1>5 DEF TypeOK, Counted, Requests

LEMMA InvariantsMeanLegal ==
  IInv /\ SInv /\ AInv /\ RInv /\ Counted => StatesAreLegal
<1> SUFFICES ASSUME IInv, SInv, AInv, RInv, Counted  PROVE  StatesAreLegal
  OBVIOUS
<1>1. TypeOK
  BY InvariantsMeanTypeOK
<1>2. store.idle => IsOpen(store) /\ store.pipeline = <<>>
  BY DEF SInv, StreamOk, OpenOk, ClosedOk
<1>3. QED
  BY <1>1, <1>2, OneResumes DEF StatesAreLegal

(* The idle timer never runs over a pending write, and a token asked for   *)
(* before the stream was closed starts nothing: the states that the stream *)
(* asserts away (Write stream was stopped gracefully while still needed;   *)
(* State should still be Starting) are not reached.                        *)
THEOREM StatesLegal == Spec => []StatesAreLegal
<1>1. Init => Counted
  BY Bounds DEF Init, Counted
<1>2. Counted /\ [Next]_vars => Counted'
  BY NextKeepsCount
<1>3. IInv /\ SInv /\ AInv /\ RInv /\ Counted => StatesAreLegal
  BY InvariantsMeanLegal
<1>4. QED
  BY <1>1, <1>2, <1>3, WritesKeepTheirOrder, PTL DEF Spec

================================================================================
