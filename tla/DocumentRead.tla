------------------------------ MODULE DocumentRead ------------------------------
(***************************************************************************)
(* How the Firestore client answers getDocument: a listener that is        *)
(* removed by its first event (DocumentReference, EventManager,            *)
(* QueryListener), the view of the document (SyncEngine, View), the watch  *)
(* half of RemoteStore with its stream and WatchChangeAggregator, and the  *)
(* OnlineStateTracker, which decides when to answer from the cache.        *)
(*                                                                         *)
(* The main queue asks and is answered; everything else is a handler of    *)
(* the worker queue.  The stream, its timers and the backend move at any   *)
(* time.  A document is its target: a document that is read again keeps    *)
(* the target id it has in the target cache.                               *)
(***************************************************************************)
EXTENDS Integers, Sequences, FiniteSets, SequencesExt

CONSTANTS Docs,         \* documents the app reads
          MaxReads,     \* bound on the calls of getDocument
          MaxVersion,   \* bound on the versions of a document
          MaxBreaks,    \* bound on broken open streams and restarts of the network
          MaxRefusals   \* bound on the listens the backend refuses

ASSUME ReadBounds == {MaxReads, MaxVersion, MaxBreaks, MaxRefusals} \subseteq Nat

VARIABLES reads,     \* the reads asked for: a read is its position
          ops,       \* operations of the worker queue
          events,    \* blocks of the main queue: what listeners are told
          muted,     \* reads whose AsyncEventListener is muted
          answers,   \* what each completion handler was called with
          views,     \* EventManager's queries_ and SyncEngine's views
          cached,    \* version of each document in the local cache
          net,       \* RemoteStore, its watch stream and OnlineStateTracker
          agg,       \* WatchChangeAggregator
          up,        \* requests of the stream not yet handled by the backend
          down,      \* responses of the stream not yet read
          watched,   \* targets the backend watches for the stream
          held,      \* version of each document at the backend
          breaks, refusals

app == <<reads, events, muted, answers>>
backend == <<watched, held>>
vars == <<app, ops, views, cached, net, agg, up, down, backend, breaks, refusals>>

Reads == 1..MaxReads
Versions == 0..MaxVersion    \* 0 is a document that does not exist
NoView == [listeners |-> {}]

StreamStates == {"Initial", "Starting", "Open", "Error", "Backoff"}
OnlineStates == {"Unknown", "Online", "Offline"}

(* What a listener is told: a snapshot, or the error its listen failed     *)
(* with.                                                                   *)
Snapshot(v, c) == [kind |-> "snapshot", version |-> v, fromCache |-> c]
Failure        == [kind |-> "error"]
Outcome == [kind : {"snapshot"}, version : Versions, fromCache : BOOLEAN]
             \cup [kind : {"error"}]

(* What the completion handler gets.  A document missing from the cache    *)
(* is the error "Failed to get document because the client is offline".    *)
Unavailable == [kind |-> "unavailable"]

(* A view begins with the read "by".  Its listeners are all the reads that *)
(* wait on it; "raised" are those of them whose first event was raised.    *)
View == {v \in [by : Reads, listeners : SUBSET Reads, raised : SUBSET Reads,
                version : Versions, current : BOOLEAN] : v.raised \subseteq v.listeners}

Request == [op : {"watch", "unwatch"}, doc : Docs]
Response == [change : {"added", "removed", "refused"}, doc : Docs]
              \cup [change : {"current", "document"}, doc : Docs, version : Versions]
              \cup [change : {"snapshot"}]

TypeOK ==
  /\ reads \in Seq([doc : Docs, floor : Versions])
  /\ ops \in Seq([op : {"listen", "remove"}, read : Reads])
  /\ events \in Seq([read : Reads, outcome : Outcome])
  /\ muted \subseteq Reads
  /\ answers \in [Reads -> Seq(Outcome \cup {Unavailable})]
  /\ \A d \in Docs : views[d] = NoView \/ views[d] \in View
  /\ cached \in [Docs -> Versions]
  /\ net \in [targets : SUBSET Docs, stream : StreamStates, idle : BOOLEAN,
              online : OnlineStates, failures : 0..1, timer : BOOLEAN, trapped : BOOLEAN]
  /\ agg \in [outstanding : [Docs -> Int], current : SUBSET Docs,
              dirty : SUBSET Docs, docs : [Docs -> Versions]]
  /\ up \in Seq(Request)
  /\ down \in Seq(Response)
  /\ watched \subseteq Docs
  /\ held \in [Docs -> Versions]
  /\ breaks \in 0..MaxBreaks
  /\ refusals \in 0..MaxRefusals

NewAggregator == [outstanding |-> [d \in Docs |-> 0], current |-> {}, dirty |-> {},
                  docs |-> [d \in Docs |-> 0]]

(* The cache is persistent: it may hold the document, or an old version. *)
Init ==
  /\ reads = <<>>
  /\ ops = <<>>
  /\ events = <<>>
  /\ muted = {}
  /\ answers = [r \in Reads |-> <<>>]
  /\ views = [d \in Docs |-> NoView]
  /\ held \in [Docs -> {v \in Versions : v <= 1}]
  /\ cached \in {c \in [Docs -> Versions] : \A d \in Docs : c[d] <= held[d]}
  /\ net = [targets |-> {}, stream |-> "Initial", idle |-> FALSE, online |-> "Unknown",
            failures |-> 0, timer |-> FALSE, trapped |-> FALSE]
  /\ agg = NewAggregator
  /\ up = <<>>
  /\ down = <<>>
  /\ watched = {}
  /\ breaks = 0
  /\ refusals = 0

--------------------------------------------------------------------------------
(* OnlineStateTracker and the watch stream: what their methods make of net. *)

IsOpen(n)    == n.stream = "Open"
IsStarted(n) == n.stream \in {"Starting", "Backoff", "Open"}
ShouldStartWatchStream(n) == ~IsStarted(n) /\ n.targets # {}

(* A failed HARD_ASSERT ends the process. *)
HardAssert(n, condition) == [n EXCEPT !.trapped = @ \/ ~condition]

HandleWatchStreamStart(n) ==
  IF n.failures # 0 THEN n
  ELSE [HardAssert(n, ~n.timer) EXCEPT !.online = "Unknown", !.timer = TRUE]

(* kMaxWatchStreamFailures is 1: only whether there was a failure counts. *)
HandleWatchStreamFailure(n) ==
  IF n.online = "Online"
  THEN [HardAssert(n, n.failures = 0 /\ ~n.timer) EXCEPT !.online = "Unknown"]
  ELSE [n EXCEPT !.online = "Offline", !.failures = 1, !.timer = FALSE]

(* Faulty variants, named for the fault, stand before the definition they  *)
(* vary; no specification uses them.                                       *)
UpdateKeepsTimer(n, state) == [n EXCEPT !.online = state, !.failures = 0]

UpdateState(n, state) == [n EXCEPT !.online = state, !.failures = 0, !.timer = FALSE]

(* After an error the stream backs off first. *)
StartWatchStream(n) ==
  HandleWatchStreamStart(
    [n EXCEPT !.stream = IF @ = "Error" THEN "Backoff" ELSE "Starting"])

(* OnWatchStreamClose, after Stream::Close with or without an error. *)
CloseWithError(n) ==
  LET closed == [n EXCEPT !.stream = "Error", !.idle = FALSE] IN
    IF n.targets = {} THEN UpdateState(closed, "Unknown")
    ELSE StartWatchStream(HandleWatchStreamFailure(closed))

CloseWhenIdle(n) ==
  LET closed == [n EXCEPT !.stream = "Initial", !.idle = FALSE] IN
    UpdateState(HardAssert(closed, ~ShouldStartWatchStream(closed)), "Unknown")

RestartNetwork(n) ==
  LET stopped == UpdateState([n EXCEPT !.stream = "Initial", !.idle = FALSE], "Unknown") IN
    IF n.targets = {} THEN stopped ELSE StartWatchStream(stopped)

(* The stream's queues and the aggregator go with it. *)
StreamEnds ==
  /\ up' = <<>>
  /\ down' = <<>>
  /\ watched' = {}
  /\ agg' = NewAggregator

Send(request) ==
  /\ up' = Append(up, request)
  /\ agg' = [agg EXCEPT !.outstanding[request.doc] = @ + 1]

--------------------------------------------------------------------------------
(* Views and listeners *)

HasView(d) == views[d] # NoView

Event(r, outcome) == [read |-> r, outcome |-> outcome]

(* Each read of a set is told once.  The listeners of a document are told  *)
(* in the order they came; documents are in no order.                      *)
Tell(toRead, said) ==
  \E order \in SetToSeqs(toRead) :
    /\ \A i, j \in DOMAIN order :
         i < j /\ reads[order[i]].doc = reads[order[j]].doc => order[i] < order[j]
    /\ events' = events \o [i \in DOMAIN order |-> Event(order[i], said[order[i]])]

(* HandleOnlineStateChange(Offline): views are no longer current, which    *)
(* their listeners are told, and who still waits is told what the cache    *)
(* has.  Another online state changes nothing for a listener that waits.   *)
GoOfflineIf(offline) ==
  IF ~offline THEN UNCHANGED <<views, events>>
  ELSE LET told(d) == IF ~HasView(d) THEN {}
                      ELSE IF views[d].current THEN views[d].listeners
                      ELSE views[d].listeners \ views[d].raised
           toRead == UNION {told(d) : d \in Docs}
           said == [r \in toRead |-> Snapshot(views[reads[r].doc].version, TRUE)]
       IN /\ Tell(toRead, said)
          /\ views' = [d \in Docs |->
                IF ~HasView(d) THEN NoView
                ELSE [views[d] EXCEPT !.current = FALSE, !.raised = views[d].listeners]]

(* SetAndBroadcast, for a handler that makes n of net. *)
Broadcast(n) ==
  /\ net' = n
  /\ GoOfflineIf(n.online = "Offline" /\ net.online # "Offline")

--------------------------------------------------------------------------------
(* The app *)

(* getDocument: a listener that waits for the backend when online. *)
GetDocument(d) ==
  /\ Len(reads) < MaxReads
  /\ reads' = Append(reads, [doc |-> d, floor |-> 0])
  /\ ops' = Append(ops, [op |-> "listen", read |-> Len(reads) + 1])
  /\ UNCHANGED <<events, muted, answers, views, cached, net, agg, up, down, backend,
                 breaks, refusals>>

ListenerIsNotMuted ==
  /\ events # <<>>
  /\ events' = Tail(events)
  /\ LET r == Head(events).read
         o == Head(events).outcome
     IN
       /\ answers' = [answers EXCEPT ![r] = Append(@,
                        IF o.kind = "snapshot" /\ o.version = 0 /\ o.fromCache
                        THEN Unavailable ELSE o)]
       /\ ops' = IF o.kind = "error" THEN ops ELSE Append(ops, [op |-> "remove", read |-> r])
  /\ UNCHANGED <<reads, muted, views, cached, net, agg, up, down, backend, breaks, refusals>>

(* AsyncEventListener and ListenOnce: the first snapshot mutes and removes *)
(* the listener and is the answer; so is an error, after which EventManager *)
(* has forgotten the listener.                                             *)
RunEvent ==
  /\ events # <<>>
  /\ events' = Tail(events)
  /\ LET r == Head(events).read
         o == Head(events).outcome
     IN
       IF r \in muted THEN UNCHANGED <<answers, muted, ops>>
       ELSE /\ answers' = [answers EXCEPT ![r] = Append(@,
                             IF o.kind = "snapshot" /\ o.version = 0 /\ o.fromCache
                             THEN Unavailable ELSE o)]
            /\ IF o.kind = "error" THEN UNCHANGED <<muted, ops>>
               ELSE /\ muted' = muted \cup {r}
                    /\ ops' = Append(ops, [op |-> "remove", read |-> r])
  /\ UNCHANGED <<reads, views, cached, net, agg, up, down, backend, breaks, refusals>>

--------------------------------------------------------------------------------
(* EventManager, SyncEngine and RemoteStore on the worker queue *)

(* A read joins the view there is, and is told at once what that knows if  *)
(* it is current, or the client offline.                                   *)
JoinView(r, d) ==
  LET v == views[d]
      tell == v.current \/ net.online = "Offline"
  IN
    /\ views' = [views EXCEPT ![d].listeners = @ \cup {r},
                              ![d].raised = IF tell THEN @ \cup {r} ELSE @]
    /\ events' = IF tell THEN Append(events, Event(r, Snapshot(v.version, ~v.current)))
                 ELSE events
    /\ reads' = [reads EXCEPT ![r].floor = reads[v.by].floor]
    /\ UNCHANGED <<net, agg, up>>

(* SyncEngine::Listen: the view begins with what the cache has, and the    *)
(* document is watched, now or as soon as the stream is open.  A request   *)
(* cancels the idle timer.                                                 *)
Listen(r, d) ==
  LET tell == net.online = "Offline"
      n == [net EXCEPT !.targets = @ \cup {d}, !.idle = FALSE]
  IN
    /\ views' = [views EXCEPT ![d] =
                   [by |-> r, listeners |-> {r}, raised |-> IF tell THEN {r} ELSE {},
                    version |-> cached[d], current |-> FALSE]]
    /\ events' = IF tell THEN Append(events, Event(r, Snapshot(cached[d], TRUE))) ELSE events
    /\ reads' = [reads EXCEPT ![r].floor = held[d]]
    /\ IF ShouldStartWatchStream(n)
       THEN net' = StartWatchStream(n) /\ agg' = NewAggregator /\ UNCHANGED up
       ELSE IF IsOpen(n)
       THEN net' = n /\ Send([op |-> "watch", doc |-> d])
       ELSE net' = n /\ UNCHANGED <<agg, up>>

AddQueryListener ==
  /\ ops # <<>>
  /\ Head(ops).op = "listen"
  /\ ops' = Tail(ops)
  /\ LET r == Head(ops).read
         d == reads[r].doc
     IN IF HasView(d) THEN JoinView(r, d) ELSE Listen(r, d)
  /\ UNCHANGED <<muted, answers, cached, down, backend, breaks, refusals>>

(* RemoteStore::StopListening: an open stream without targets becomes      *)
(* idle; without one, nothing can show whether the client is online.       *)
StopListening(d) ==
  LET n == [HardAssert(net, d \in net.targets) EXCEPT !.targets = @ \ {d}, !.idle = FALSE] IN
    IF IsOpen(net)
    THEN /\ net' = [n EXCEPT !.idle = n.targets = {}]
         /\ Send([op |-> "unwatch", doc |-> d])
    ELSE /\ net' = IF n.targets = {} THEN UpdateState(n, "Unknown") ELSE n
         /\ UNCHANGED <<agg, up>>

AnyListenerEndsTheListen ==
  /\ ops # <<>>
  /\ Head(ops).op = "remove"
  /\ ops' = Tail(ops)
  /\ LET d == reads[Head(ops).read].doc IN
       IF HasView(d)
       THEN /\ views' = [views EXCEPT ![d] = NoView]
            /\ StopListening(d)
       ELSE UNCHANGED <<views, net, agg, up>>
  /\ UNCHANGED <<app, cached, down, backend, breaks, refusals>>

(* The last listener to go takes the view and the target with it.  A       *)
(* listener that an error has removed meanwhile is not found.              *)
RemoveQueryListener ==
  /\ ops # <<>>
  /\ Head(ops).op = "remove"
  /\ ops' = Tail(ops)
  /\ LET r == Head(ops).read
         d == reads[r].doc
     IN IF HasView(d) /\ views[d].listeners = {r}
        THEN /\ views' = [views EXCEPT ![d] = NoView]
             /\ StopListening(d)
        ELSE /\ views' = IF HasView(d)
                       THEN [views EXCEPT ![d].listeners = @ \ {r}, ![d].raised = @ \ {r}]
                       ELSE views
             /\ UNCHANGED <<net, agg, up>>
  /\ UNCHANGED <<app, cached, down, backend, breaks, refusals>>

--------------------------------------------------------------------------------
(* The watch stream *)

(* OnWatchStreamOpen: every target is asked for.  Credentials and the      *)
(* start of the call are those of WritePipeline's stream.                  *)
StreamOpens ==
  /\ net.stream = "Starting"
  /\ net' = [net EXCEPT !.stream = "Open"]
  /\ \E order \in SetToSeqs(net.targets) :
       up' = [i \in DOMAIN order |-> [op |-> "watch", doc |-> order[i]]]
  /\ agg' = [agg EXCEPT !.outstanding = [d \in Docs |-> IF d \in net.targets THEN 1 ELSE @[d]]]
  /\ UNCHANGED <<app, ops, views, cached, down, backend, breaks, refusals>>

(* There is no network, no token, or the call is not accepted. *)
StreamDoesNotOpen ==
  /\ net.stream = "Starting"
  /\ Broadcast(CloseWithError(net))
  /\ StreamEnds
  /\ UNCHANGED <<reads, muted, answers, ops, cached, held, breaks, refusals>>

StreamBreaks ==
  /\ breaks < MaxBreaks
  /\ breaks' = breaks + 1
  /\ IsOpen(net)
  /\ Broadcast(CloseWithError(net))
  /\ StreamEnds
  /\ UNCHANGED <<reads, muted, answers, ops, cached, held, refusals>>

BackoffElapses ==
  /\ net.stream = "Backoff"
  /\ net' = [net EXCEPT !.stream = "Starting"]
  /\ UNCHANGED <<app, ops, views, cached, agg, up, down, backend, breaks, refusals>>

IdleTimeout ==
  /\ net.idle
  /\ net' = CloseWhenIdle(net)
  /\ StreamEnds
  /\ UNCHANGED <<app, ops, views, cached, held, breaks, refusals>>

(* The connectivity monitor, or a change of credential. *)
NetworkRestarts ==
  /\ breaks < MaxBreaks
  /\ breaks' = breaks + 1
  /\ net' = RestartNetwork(net)
  /\ StreamEnds
  /\ UNCHANGED <<app, ops, views, cached, held, refusals>>

(* Ten seconds without a message. *)
OnlineStateTimeout ==
  /\ net.timer
  /\ Broadcast([HardAssert(net, net.online = "Unknown") EXCEPT !.timer = FALSE,
                                                          !.online = "Offline"])
  /\ UNCHANGED <<reads, muted, answers, ops, cached, agg, up, down, backend, breaks,
                 refusals>>

--------------------------------------------------------------------------------
(* WatchChangeAggregator: responses are counted, and a target with         *)
(* outstanding responses takes no part in a snapshot.                      *)

EveryTargetIsActive(d) == d \in net.targets

IsActiveTarget(d) == d \in net.targets /\ agg.outstanding[d] = 0

RemoveTarget(a, d) ==
  [a EXCEPT !.outstanding[d] = 0, !.current = @ \ {d}, !.dirty = @ \ {d}]

(* A message that is not a snapshot only changes the aggregator. *)
HandleTargetChange(m) ==
  LET d == m.doc
      left == agg.outstanding[d] - 1
      counted == [agg EXCEPT !.outstanding[d] = left]
  IN
    \/ /\ m.change = "added"
       /\ agg' = IF left = 0 THEN [counted EXCEPT !.dirty = @ \ {d}] ELSE counted
    \/ /\ m.change = "removed"
       /\ agg' = IF left = 0 THEN RemoveTarget(counted, d) ELSE counted
    \/ /\ m.change \in {"current", "document"}
       /\ ~IsActiveTarget(d)
       /\ UNCHANGED agg
    \/ /\ m.change \in {"current", "document"}
       /\ IsActiveTarget(d)
       /\ agg' = [agg EXCEPT !.current = IF m.change = "current" THEN @ \cup {d} ELSE @,
                             !.dirty = @ \cup {d},
                             !.docs[d] = m.version]

SnapshotSkipsTheCache ==
  LET touched == {d \in {t \in Docs : IsActiveTarget(t)} :
                    \/ d \in agg.dirty
                    \/ (d \in agg.current /\ agg.docs[d] = 0 /\ views[d].version = 0)}
      newer(d)   == IF agg.docs[d] > cached[d] THEN agg.docs[d] ELSE cached[d]
      current(d) == IF d \in touched THEN d \in agg.current ELSE views[d].current
      told(d) == IF ~HasView(d) THEN {}
                 ELSE IF newer(d) = views[d].version /\ current(d) = views[d].current THEN {}
                 ELSE IF current(d) THEN views[d].listeners ELSE views[d].raised
      toRead == UNION {told(d) : d \in Docs}
      said == [r \in toRead |-> Snapshot(newer(reads[r].doc), ~current(reads[r].doc))]
  IN
    /\ UNCHANGED cached
    /\ views' = [d \in Docs |->
         IF ~HasView(d) THEN NoView
         ELSE [views[d] EXCEPT !.version = newer(d), !.current = current(d),
                               !.raised = @ \cup told(d)]]
    /\ Tell(toRead, said)
    /\ agg' = [agg EXCEPT !.dirty = {d \in @ : ~IsActiveTarget(d)},
                          !.docs = [d \in Docs |-> 0]]

(* CreateRemoteEvent and ApplyRemoteEvent.  The document of a current      *)
(* target that has none is taken not to exist; the cache takes newer       *)
(* versions only; a view that changes tells its listeners, of whom those   *)
(* that wait are told only what is current.                                *)
RaiseWatchSnapshot ==
  LET touched == {d \in {t \in Docs : IsActiveTarget(t)} :
                    \/ d \in agg.dirty
                    \/ (d \in agg.current /\ agg.docs[d] = 0 /\ views[d].version = 0)}
      newer(d)   == IF agg.docs[d] > cached[d] THEN agg.docs[d] ELSE cached[d]
      current(d) == IF d \in touched THEN d \in agg.current ELSE views[d].current
      told(d) == IF ~HasView(d) THEN {}
                 ELSE IF newer(d) = views[d].version /\ current(d) = views[d].current THEN {}
                 ELSE IF current(d) THEN views[d].listeners ELSE views[d].raised
      toRead == UNION {told(d) : d \in Docs}
      said == [r \in toRead |-> Snapshot(newer(reads[r].doc), ~current(reads[r].doc))]
  IN
    /\ cached' = [d \in Docs |-> newer(d)]
    /\ views' = [d \in Docs |->
         IF ~HasView(d) THEN NoView
         ELSE [views[d] EXCEPT !.version = newer(d), !.current = current(d),
                               !.raised = @ \cup told(d)]]
    /\ Tell(toRead, said)
    /\ agg' = [agg EXCEPT !.dirty = {d \in @ : ~IsActiveTarget(d)},
                          !.docs = [d \in Docs |-> 0]]

RefusalKeepsTheView(m) ==
  LET d == m.doc IN
    IF d \notin net.targets
    THEN /\ net' = UpdateState(net, "Online")
         /\ UNCHANGED <<views, events, agg>>
    ELSE /\ net' = UpdateState([net EXCEPT !.targets = @ \ {d}], "Online")
         /\ agg' = RemoveTarget(agg, d)
         /\ UNCHANGED views
         /\ Tell(views[d].listeners, [r \in views[d].listeners |-> Failure])

(* ProcessTargetError: whoever listens to the document now is told, and    *)
(* listener, view and target are gone.                                     *)
ProcessTargetError(m) ==
  LET d == m.doc IN
    IF d \notin net.targets
    THEN /\ net' = UpdateState(net, "Online")
         /\ UNCHANGED <<views, events, agg>>
    ELSE /\ net' = UpdateState([net EXCEPT !.targets = @ \ {d}], "Online")
         /\ agg' = RemoveTarget(agg, d)
         /\ views' = [views EXCEPT ![d] = NoView]
         /\ Tell(views[d].listeners, [r \in views[d].listeners |-> Failure])

OnWatchStreamChange ==
  /\ down # <<>>
  /\ down' = Tail(down)
  /\ LET m == Head(down) IN
       \/ /\ m.change = "snapshot"
          /\ net' = UpdateState(net, "Online")
          /\ RaiseWatchSnapshot
       \/ /\ m.change = "refused"
          /\ ProcessTargetError(m)
          /\ UNCHANGED cached
       \/ /\ m.change \notin {"snapshot", "refused"}
          /\ net' = UpdateState(net, "Online")
          /\ HandleTargetChange(m)
          /\ UNCHANGED <<views, events, cached>>
  /\ UNCHANGED <<reads, muted, answers, ops, up, backend, breaks, refusals>>

--------------------------------------------------------------------------------
(* The backend *)

(* A listen is answered with the document as it is then, and a snapshot. *)
BackendAdds ==
  /\ up # <<>>
  /\ Head(up).op = "watch"
  /\ LET d == Head(up).doc IN
       /\ watched' = watched \cup {d}
       /\ down' = down \o <<[change |-> "added", doc |-> d],
                            [change |-> "current", doc |-> d, version |-> held[d]],
                            [change |-> "snapshot"]>>
  /\ up' = Tail(up)
  /\ UNCHANGED <<app, ops, views, cached, net, agg, held, breaks, refusals>>

BackendRefuses ==
  /\ refusals < MaxRefusals
  /\ refusals' = refusals + 1
  /\ up # <<>>
  /\ Head(up).op = "watch"
  /\ down' = Append(down, [change |-> "refused", doc |-> Head(up).doc])
  /\ up' = Tail(up)
  /\ UNCHANGED <<app, ops, views, cached, net, agg, backend, breaks>>

BackendRemoves ==
  /\ up # <<>>
  /\ Head(up).op = "unwatch"
  /\ watched' = watched \ {Head(up).doc}
  /\ down' = Append(down, [change |-> "removed", doc |-> Head(up).doc])
  /\ up' = Tail(up)
  /\ UNCHANGED <<app, ops, views, cached, net, agg, held, breaks, refusals>>

(* Another client writes the document. *)
DocumentChanges(d) ==
  /\ held[d] < MaxVersion
  /\ held' = [held EXCEPT ![d] = @ + 1]
  /\ down' = IF d \notin watched THEN down
             ELSE down \o <<[change |-> "document", doc |-> d, version |-> held[d] + 1],
                            [change |-> "snapshot"]>>
  /\ UNCHANGED <<app, ops, views, cached, net, agg, up, watched, breaks, refusals>>

Next ==
  \/ \E d \in Docs : GetDocument(d) \/ DocumentChanges(d)
  \/ RunEvent
  \/ AddQueryListener \/ RemoveQueryListener
  \/ StreamOpens \/ StreamDoesNotOpen \/ StreamBreaks
  \/ BackoffElapses \/ IdleTimeout \/ NetworkRestarts \/ OnlineStateTimeout
  \/ OnWatchStreamChange
  \/ BackendAdds \/ BackendRefuses \/ BackendRemoves

Spec == Init /\ [][Next]_vars

(* The queues are served and timers fire; an attempt to open the stream    *)
(* ends, one way or the other; an open stream that is not broken is        *)
(* answered and read.  The network need never come.                        *)
Fairness ==
  /\ WF_vars(RunEvent)
  /\ WF_vars(AddQueryListener \/ RemoveQueryListener)
  /\ WF_vars(StreamOpens \/ StreamDoesNotOpen)
  /\ WF_vars(BackoffElapses)
  /\ WF_vars(OnlineStateTimeout)
  /\ WF_vars(OnWatchStreamChange)
  /\ WF_vars(BackendAdds \/ BackendRemoves)

LiveSpec == Spec /\ Fairness

--------------------------------------------------------------------------------

(* No state is reached that the code asserts away: the online timer is     *)
(* never running when it is started or when the state is no longer         *)
(* Unknown, a stream that was online has no failure counted, only what is  *)
(* watched is unwatched, and the idle timer never closes a stream that is  *)
(* needed.                                                                 *)
StatesAreLegal == TypeOK /\ ~net.trapped

(* A completion handler is called at most once, though a listener may have *)
(* any number of events on the main queue by the time it is removed.       *)
AnsweredAtMostOnce == \A r \in Reads : Len(answers[r]) <= 1

(* An answer that does not come from the cache is no older than the listen *)
(* it answers: what was on the stream for an earlier listen of the same    *)
(* target is not taken for an answer to this one.  A listen that was       *)
(* refused in the place of an earlier one leaves its own responses on the  *)
(* stream uncounted (remote_store.cc:366), and when that has happened      *)
(* twice, an old CURRENT may pass for that of a new listen.                *)
FreshAnswers ==
  refusals <= 1 =>
    \A r \in Reads : answers[r] # <<>> =>
      LET a == Last(answers[r]) IN
        a.kind = "snapshot" /\ ~a.fromCache => a.version >= reads[r].floor

(* EventManager and RemoteStore agree on what is listened to, through      *)
(* removals, refusals and joins, and once everything is answered and every *)
(* message read the backend watches what the client does.                  *)
ListensAgree ==
  /\ net.targets = {d \in Docs : HasView(d)}
  /\ \A d \in Docs : HasView(d) => views[d].listeners # {}
  /\ IsOpen(net) /\ up = <<>> /\ refusals = 0 => watched = net.targets
  /\ ops = <<>> /\ events = <<>> /\ (\A r \in DOMAIN reads : answers[r] # <<>>)
       => net.targets = {}

(* "we have a timeout for OnlineState to reach Online or Offline": while   *)
(* the state is Unknown and a read waits on it, the timer runs.            *)
WaitingReadsAreTimed ==
  net.online = "Unknown" /\ net.targets # {} => net.timer

Good(a) == a.kind # "error"
VersionOf(a) == IF a = Unavailable THEN 0 ELSE a.version

(* Reads of a document do not go back: no answer is older than an answer   *)
(* that was given before, from the cache or not, and what was read once is *)
(* not unavailable later.                                                  *)
ReadsGoForward ==
  [][\A r, q \in Reads :
       /\ answers'[r] # answers[r] /\ answers[q] # <<>>
       /\ r \in DOMAIN reads /\ q \in DOMAIN reads /\ reads[q].doc = reads[r].doc
       /\ Good(Last(answers'[r])) /\ Good(Last(answers[q]))
       => VersionOf(Last(answers'[r])) >= VersionOf(Last(answers[q]))]_vars

(* Every read is answered, whether or not there is ever a network, as long *)
(* as the backend has refused no listen: the refusal of one that was       *)
(* unwatched meanwhile may be dropped uncounted (remote_store.cc:366).     *)
(* Answers are not taken back and reads are finitely many, so that all are *)
(* answered again and again means that each one is in the end.             *)
EveryReadIsAnswered ==
  []<>(refusals > 0 \/ \A r \in DOMAIN reads : answers[r] # <<>>)

================================================================================
