--------------------------- MODULE DocumentReadProofs ---------------------------
(***************************************************************************)
(* Proofs about DocumentRead, for any documents, versions and bounds.      *)
(*                                                                         *)
(* IInv is what the handlers make of the state, and gives StatesAreLegal;  *)
(* AInv follows a read from its listen to its one answer; VInv is the      *)
(* order of the versions that are shown; WInv the order of the requests.   *)
(* LInv keeps the floor of a listen with its view; BInv, CInv and FInv are *)
(* what FreshAnswers rests on: what was sent after the last reply for a    *)
(* document is new, the replies that are waited for are those that are     *)
(* still to come, and so what is made current is as new as the listen.     *)
(* What the handlers have in common is Telling: they tell the error of a   *)
(* listen, or what the view is after them.                                 *)
(***************************************************************************)
EXTENDS DocumentRead, TLAPS, SequenceTheorems, FiniteSetTheorems

(* The types, a little sharper than TypeOK has them: views are those of    *)
(* the documents, and the reads are within their bound.                    *)
ReadRecord == [doc : Docs, floor : Versions]
Operation  == [op : {"listen", "remove"}, read : Reads]
EventType  == [read : Reads, outcome : Outcome]
NetType == [targets : SUBSET Docs, stream : StreamStates, idle : BOOLEAN,
            online : OnlineStates, failures : 0..1, timer : BOOLEAN, trapped : BOOLEAN]
AggType == [outstanding : [Docs -> Int], current : SUBSET Docs,
            dirty : SUBSET Docs, docs : [Docs -> Versions]]

(* What is on the stream is of the stream. *)
StreamOk(n, u, d, w) ==
  /\ u \in Seq(Request) /\ d \in Seq(Response) /\ w \subseteq Docs
  /\ ~IsOpen(n) => u = <<>> /\ d = <<>> /\ w = {}

(* A stream that is not started is not needed, and nothing is known of the *)
(* state then; the timer runs in the state Unknown only, and with no       *)
(* failure counted.                                                        *)
NetOk(n) ==
  /\ n \in NetType /\ IsFiniteSet(n.targets) /\ ~n.trapped
  /\ n.timer => n.online = "Unknown" /\ n.failures = 0
  /\ n.failures # 0 => n.online = "Offline"
  /\ n.online = "Online" => IsOpen(n)
  /\ ~IsStarted(n) => n.targets = {} /\ n.online = "Unknown" /\ ~n.timer
  /\ n.idle => IsOpen(n) /\ n.targets = {}

(* A view has listeners, which are reads of its document. *)
ViewsOk(vs, rs) ==
  /\ vs \in [Docs -> View \cup {NoView}]
  /\ \A d \in Docs : vs[d] # NoView => vs[d].by \in DOMAIN rs /\ vs[d].listeners # {}
  /\ \A d \in Docs : \A r \in vs[d].listeners : r \in DOMAIN rs /\ rs[r].doc = d

TargetsOk(targets, vs) == \A d \in Docs : d \in targets <=> vs[d] # NoView

ReadsOk(rs) == rs \in Seq(ReadRecord) /\ Len(rs) <= MaxReads

(* A view shows what the cache has. *)
ViewsShow(vs, versions) == \A d \in Docs : vs[d] # NoView => vs[d].version = versions[d]

RefersTo(queue, rs) == \A i \in DOMAIN queue : queue[i].read \in DOMAIN rs

IInv ==
  /\ ReadsOk(reads)
  /\ ops \in Seq(Operation) /\ RefersTo(ops, reads)
  /\ events \in Seq(EventType) /\ RefersTo(events, reads)
  /\ muted \subseteq Reads /\ answers \in [Reads -> Seq(Outcome \cup {Unavailable})]
  /\ NetOk(net) /\ StreamOk(net, up, down, watched)
  /\ ViewsOk(views, reads) /\ TargetsOk(net.targets, views) /\ ViewsShow(views, cached)
  /\ cached \in [Docs -> Versions] /\ held \in [Docs -> Versions]
  /\ agg \in AggType
  /\ breaks \in 0..MaxBreaks /\ refusals \in 0..MaxRefusals

LEMMA VersionsAreNat == Versions \subseteq Nat /\ 0 \in Versions /\ MaxReads \in Nat
BY ReadBounds DEF Versions

LEMMA TailAndAppend ==
  ASSUME NEW S, NEW queue \in Seq(S)
  PROVE  /\ Len(queue) \in Nat /\ DOMAIN queue = 1..Len(queue)
         /\ queue # <<>> =>
              /\ Tail(queue) \in Seq(S) /\ Head(queue) \in S
              /\ 1 \in DOMAIN queue /\ Head(queue) = queue[1]
              /\ DOMAIN Tail(queue) = 1..(Len(queue) - 1)
              /\ \A i \in DOMAIN Tail(queue) :
                   i + 1 \in DOMAIN queue /\ Tail(queue)[i] = queue[i + 1]
         /\ \A e \in S :
              /\ Append(queue, e) \in Seq(S)
              /\ DOMAIN Append(queue, e) = 1..(Len(queue) + 1)
              /\ Append(queue, e)[Len(queue) + 1] = e
              /\ \A i \in DOMAIN queue : Append(queue, e)[i] = queue[i]
OBVIOUS

--------------------------------------------------------------------------------
(* OnlineStateTracker and the stream. *)

LEMMA NetFields ==
  ASSUME NEW n \in NetType
  PROVE  /\ n.targets \subseteq Docs /\ n.stream \in StreamStates /\ n.idle \in BOOLEAN
         /\ n.online \in OnlineStates /\ n.failures \in {0, 1} /\ n.timer \in BOOLEAN
         /\ n.trapped \in BOOLEAN
         /\ n = [targets |-> n.targets, stream |-> n.stream, idle |-> n.idle,
                 online |-> n.online, failures |-> n.failures, timer |-> n.timer,
                 trapped |-> n.trapped]
<1>1. 0..1 = {0, 1}
  OBVIOUS
<1>2. QED
  BY <1>1 DEF NetType

(* What a step may make of net, field by field. *)
LEMMA StartingStream ==
  ASSUME NEW n \in NetType, ~n.trapped, ~n.timer, ~n.idle, n.targets # {},
         IsFiniteSet(n.targets), n.stream \in {"Initial", "Error"},
         \/ n.failures = 0 /\ n.online # "Online"
         \/ n.failures # 0 /\ n.online = "Offline"
  PROVE  /\ NetOk(StartWatchStream(n)) /\ StartWatchStream(n).targets = n.targets
         /\ ~IsOpen(StartWatchStream(n))
<1> DEFINE m == [n EXCEPT !.stream = IF @ = "Error" THEN "Backoff" ELSE "Starting"]
           t == StartWatchStream(n)
<1>1. /\ m \in NetType /\ m.stream \in {"Backoff", "Starting"} /\ m.targets = n.targets
      /\ ~m.idle /\ ~m.timer /\ ~m.trapped /\ m.failures = n.failures /\ m.online = n.online
  BY DEF NetType, StreamStates
<1>2. t = HandleWatchStreamStart(m)
  BY DEF StartWatchStream
<1> HIDE DEF m, t
<1>3. CASE m.failures # 0
  <2>1. t = m
    BY <1>2, <1>3 DEF HandleWatchStreamStart
  <2>2. QED
    BY <1>1, <1>3, <2>1 DEF NetOk, IsOpen, IsStarted, t
<1>4. CASE m.failures = 0
  <2>1. t = [[m EXCEPT !.trapped = @ \/ ~(~m.timer)] EXCEPT !.online = "Unknown", !.timer = TRUE]
    BY <1>2, <1>4 DEF HandleWatchStreamStart, HardAssert
  <2>2. /\ t \in NetType /\ t.online = "Unknown" /\ t.timer = TRUE /\ t.trapped = FALSE
        /\ t.targets = m.targets /\ t.stream = m.stream /\ t.idle = m.idle
        /\ t.failures = m.failures
    BY <1>1, <2>1, NetFields DEF NetType, OnlineStates
  <2>3. QED
    BY <1>1, <1>4, <2>2 DEF NetOk, IsOpen, IsStarted, t
<1>5. QED
  BY <1>3, <1>4

LEMMA StateUpdated ==
  ASSUME NEW n \in NetType, NEW state \in OnlineStates
  PROVE  LET t == UpdateState(n, state) IN
           /\ t \in NetType /\ t.online = state /\ t.failures = 0 /\ t.timer = FALSE
           /\ t.targets = n.targets /\ t.stream = n.stream /\ t.idle = n.idle
           /\ t.trapped = n.trapped
<1>1. 0 \in 0..1 /\ FALSE \in BOOLEAN
  OBVIOUS
<1>2. QED
  BY <1>1 DEF UpdateState, NetType

LEMMA ErrorCloses ==
  ASSUME NEW n, NetOk(n), IsStarted(n)
  PROVE  /\ NetOk(CloseWithError(n)) /\ CloseWithError(n).targets = n.targets
         /\ ~IsOpen(CloseWithError(n))
<1> DEFINE c == [n EXCEPT !.stream = "Error", !.idle = FALSE]
<1>1. n \in NetType /\ IsFiniteSet(n.targets) /\ ~n.trapped
  BY DEF NetOk
<1>2. /\ c \in NetType /\ c.stream = "Error" /\ c.idle = FALSE /\ c.targets = n.targets
      /\ c.online = n.online /\ c.failures = n.failures /\ c.timer = n.timer
      /\ c.trapped = n.trapped
  BY <1>1, NetFields DEF NetType, StreamStates
<1>3. CloseWithError(n) = IF n.targets = {} THEN UpdateState(c, "Unknown")
                          ELSE StartWatchStream(HandleWatchStreamFailure(c))
  BY DEF CloseWithError
<1> HIDE DEF c
<1>4. CASE n.targets = {}
  <2> DEFINE t == UpdateState(c, "Unknown")
  <2>1. /\ t \in NetType /\ t.online = "Unknown" /\ t.failures = 0 /\ t.timer = FALSE
        /\ t.targets = c.targets /\ t.stream = c.stream /\ t.idle = c.idle
        /\ t.trapped = c.trapped
    BY <1>2, StateUpdated DEF OnlineStates
  <2> HIDE DEF t
  <2>2. NetOk(t) /\ t.targets = n.targets /\ ~IsOpen(t)
    BY <1>1, <1>2, <1>4, <2>1 DEF NetOk, IsOpen, IsStarted
  <2>3. QED
    BY <1>3, <1>4, <2>2 DEF t
<1>5. CASE n.targets # {}
  <2> DEFINE f == HandleWatchStreamFailure(c)
  <2>1. /\ f \in NetType /\ f.targets = c.targets /\ f.stream = c.stream /\ f.idle = c.idle
        /\ ~f.trapped /\ ~f.timer
        /\ \/ f.failures = 0 /\ f.online # "Online"
           \/ f.failures # 0 /\ f.online = "Offline"
    <3>1. CASE c.online = "Online"
      <4>1. c.failures = 0 /\ ~c.timer
        BY <1>2, <3>1, NetFields DEF NetOk
      <4>2. f = [[c EXCEPT !.trapped = @ \/ ~(c.failures = 0 /\ ~c.timer)]
                   EXCEPT !.online = "Unknown"]
        BY <3>1 DEF HandleWatchStreamFailure, HardAssert
      <4>3. /\ f \in NetType /\ f.targets = c.targets /\ f.stream = c.stream
            /\ f.idle = c.idle /\ f.trapped = c.trapped /\ f.timer = c.timer
            /\ f.failures = c.failures /\ f.online = "Unknown"
        BY <1>1, <1>2, <4>1, <4>2, NetFields DEF NetType, OnlineStates
      <4> HIDE DEF f
      <4>4. QED
        BY <1>1, <1>2, <4>1, <4>3
    <3>2. CASE c.online # "Online"
      <4>1. f = [c EXCEPT !.online = "Offline", !.failures = 1, !.timer = FALSE]
        BY <3>2 DEF HandleWatchStreamFailure
      <4>2. 1 \in 0..1
        OBVIOUS
      <4>3. QED
        BY <1>1, <1>2, <4>1, <4>2 DEF NetType, OnlineStates
    <3>3. QED
      BY <3>1, <3>2
  <2> HIDE DEF f
  <2>2. NetOk(StartWatchStream(f)) /\ StartWatchStream(f).targets = f.targets
        /\ ~IsOpen(StartWatchStream(f))
    BY <1>1, <1>2, <1>5, <2>1, StartingStream
  <2>3. QED
    BY <1>2, <1>3, <1>5, <2>1, <2>2 DEF f
<1>6. QED
  BY <1>4, <1>5

LEMMA IdleCloses ==
  ASSUME NEW n, NetOk(n), n.idle
  PROVE  /\ NetOk(CloseWhenIdle(n)) /\ CloseWhenIdle(n).targets = n.targets
         /\ ~IsOpen(CloseWhenIdle(n))
<1> DEFINE c == [n EXCEPT !.stream = "Initial", !.idle = FALSE]
           h == HardAssert(c, ~ShouldStartWatchStream(c))
           t == UpdateState(h, "Unknown")
<1>1. n \in NetType /\ IsFiniteSet(n.targets) /\ ~n.trapped /\ n.targets = {}
  BY DEF NetOk
<1>2. /\ c \in NetType /\ c.stream = "Initial" /\ c.idle = FALSE /\ c.targets = n.targets
      /\ c.trapped = n.trapped
  BY <1>1, NetFields DEF NetType, StreamStates
<1>3. CloseWhenIdle(n) = t
  BY DEF CloseWhenIdle
<1> HIDE DEF c
<1>4. /\ h \in NetType /\ h.stream = "Initial" /\ h.idle = FALSE /\ h.targets = n.targets
      /\ ~h.trapped
  <2>1. ~ShouldStartWatchStream(c)
    BY <1>1, <1>2 DEF ShouldStartWatchStream
  <2>2. h = [c EXCEPT !.trapped = @ \/ ~TRUE]
    BY <2>1 DEF HardAssert
  <2>3. QED
    BY <1>1, <1>2, <2>2, NetFields DEF NetType
<1> HIDE DEF h
<1>5. /\ t \in NetType /\ t.online = "Unknown" /\ t.failures = 0 /\ t.timer = FALSE
      /\ t.targets = h.targets /\ t.stream = h.stream /\ t.idle = h.idle
      /\ t.trapped = h.trapped
  BY <1>4, StateUpdated DEF OnlineStates
<1> HIDE DEF t
<1>6. QED
  BY <1>1, <1>3, <1>4, <1>5 DEF NetOk, IsOpen, IsStarted

LEMMA RestartRestarts ==
  ASSUME NEW n, NetOk(n)
  PROVE  /\ NetOk(RestartNetwork(n)) /\ RestartNetwork(n).targets = n.targets
         /\ ~IsOpen(RestartNetwork(n))
<1> DEFINE c == [n EXCEPT !.stream = "Initial", !.idle = FALSE]
           t == UpdateState(c, "Unknown")
<1>1. n \in NetType /\ IsFiniteSet(n.targets) /\ ~n.trapped
  BY DEF NetOk
<1>2. /\ c \in NetType /\ c.stream = "Initial" /\ c.idle = FALSE /\ c.targets = n.targets
      /\ c.trapped = n.trapped
  BY <1>1, NetFields DEF NetType, StreamStates
<1>3. RestartNetwork(n) = IF n.targets = {} THEN t ELSE StartWatchStream(t)
  BY DEF RestartNetwork
<1> HIDE DEF c
<1>4. /\ t \in NetType /\ t.online = "Unknown" /\ t.failures = 0 /\ t.timer = FALSE
      /\ t.targets = n.targets /\ t.stream = "Initial" /\ t.idle = FALSE
      /\ ~t.trapped
  BY <1>1, <1>2, StateUpdated DEF OnlineStates
<1> HIDE DEF t
<1>5. CASE n.targets = {}
  BY <1>1, <1>3, <1>4, <1>5 DEF NetOk, IsOpen, IsStarted
<1>6. CASE n.targets # {}
  BY <1>1, <1>3, <1>4, <1>6, StartingStream
<1>7. QED
  BY <1>5, <1>6

--------------------------------------------------------------------------------
(* Telling listeners *)

(* "queue" becomes "more": each read of "toRead" is told "said" of it, once. *)
Tells(queue, more, toRead, said) ==
  /\ more \in Seq(EventType)
  /\ Len(queue) <= Len(more)
  /\ \A i \in DOMAIN queue : more[i] = queue[i]
  /\ \A i \in DOMAIN more : i > Len(queue) =>
       more[i].read \in toRead /\ more[i].outcome = said[more[i].read]
  /\ \A i, j \in DOMAIN more : i > Len(queue) /\ j > Len(queue) /\ i # j =>
       more[i].read # more[j].read

LEMMA ReadsAreFinite ==
  /\ \A S : S \subseteq Reads => IsFiniteSet(S)
  /\ \A rs : ReadsOk(rs) => DOMAIN rs \subseteq Reads
<1>1. IsFiniteSet(Reads)
  BY VersionsAreNat, FS_Interval DEF Reads
<1>2. \A S : S \subseteq Reads => IsFiniteSet(S)
  BY <1>1, FS_Subset
<1>3. ASSUME NEW rs, ReadsOk(rs)
      PROVE  DOMAIN rs \subseteq Reads
  BY <1>3, VersionsAreNat DEF ReadsOk, Reads
<1>4. QED
  BY <1>2, <1>3

LEMMA TellTells ==
  ASSUME events \in Seq(EventType), NEW toRead, toRead \subseteq Reads,
         NEW said, \A r \in toRead : said[r] \in Outcome,
         Tell(toRead, said)
  PROVE  Tells(events, events', toRead, said)
<1>1. PICK order \in SetToSeqs(toRead) :
        events' = events \o [i \in DOMAIN order |-> Event(order[i], said[order[i]])]
  BY DEF Tell
<1> DEFINE n == Cardinality(toRead)
           told == [i \in DOMAIN order |-> Event(order[i], said[order[i]])]
<1>2. n \in Nat
  BY ReadsAreFinite, FS_CardinalityType
<1>3. /\ DOMAIN order = 1..n /\ \A i \in 1..n : order[i] \in toRead
      /\ \A i, j \in 1..n : i # j => order[i] # order[j]
  BY <1>1 DEF SetToSeqs
<1> HIDE DEF n
<1>4. told \in Seq(EventType) /\ Len(told) = n
  <2>1. told \in [1..n -> EventType]
    BY <1>3 DEF Event, EventType
  <2>2. QED
    BY <1>2, <2>1
<1>5. \A i \in 1..n : told[i].read = order[i] /\ told[i].outcome = said[order[i]]
  BY <1>3 DEF Event
<1> HIDE DEF told
<1>6. events' = events \o told
  BY <1>1 DEF told
<1>7. /\ events' \in Seq(EventType) /\ Len(events') = Len(events) + n /\ Len(events) \in Nat
      /\ \A i \in DOMAIN events : events'[i] = events[i]
      /\ \A i \in DOMAIN events' : i > Len(events) =>
           i - Len(events) \in 1..n /\ events'[i] = told[i - Len(events)]
  <2>1. events' \in Seq(EventType)
    BY <1>4, <1>6
  <2>2. Len(events') = Len(events) + n /\ Len(events) \in Nat
    BY <1>4, <1>6, ConcatProperties
  <2>3. \A i \in 1..(Len(events) + n) :
          events'[i] = IF i <= Len(events) THEN events[i] ELSE told[i - Len(events)]
    BY <1>4, <1>6, ConcatProperties
  <2>4. DOMAIN events = 1..Len(events) /\ DOMAIN events' = 1..(Len(events) + n)
    BY <2>1, <2>2
  <2>5. \A i \in DOMAIN events : events'[i] = events[i]
    BY <1>2, <2>2, <2>3, <2>4
  <2>6. ASSUME NEW i \in DOMAIN events', i > Len(events)
        PROVE  i - Len(events) \in 1..n /\ events'[i] = told[i - Len(events)]
    BY <1>2, <2>2, <2>3, <2>4, <2>6
  <2>7. QED
    BY <2>1, <2>2, <2>5, <2>6
<1>8. ASSUME NEW i \in DOMAIN events', NEW j \in DOMAIN events',
             i > Len(events), j > Len(events), i # j
      PROVE  events'[i].read # events'[j].read
  <2>1. /\ i - Len(events) \in 1..n /\ j - Len(events) \in 1..n
        /\ events'[i] = told[i - Len(events)] /\ events'[j] = told[j - Len(events)]
    BY <1>7, <1>8
  <2>2. i - Len(events) # j - Len(events)
    BY <1>7, <1>8
  <2>3. QED
    BY <1>3, <1>5, <2>1, <2>2
<1>9. ASSUME NEW i \in DOMAIN events', i > Len(events)
      PROVE  events'[i].read \in toRead /\ events'[i].outcome = said[events'[i].read]
  BY <1>3, <1>5, <1>7, <1>9
<1>10. QED
  BY <1>2, <1>7, <1>8, <1>9 DEF Tells

LEMMA NobodyTold ==
  ASSUME events \in Seq(EventType), NEW said, events' = events
  PROVE  Tells(events, events', {}, said)
BY DEF Tells

LEMMA OneTold ==
  ASSUME events \in Seq(EventType), NEW r \in Reads, NEW outcome \in Outcome,
         events' = Append(events, Event(r, outcome))
  PROVE  Tells(events, events', {r}, [q \in {r} |-> outcome])
<1>1. Event(r, outcome) \in EventType
  BY DEF Event, EventType
<1>2. Event(r, outcome).read = r /\ Event(r, outcome).outcome = outcome
  BY DEF Event
<1>3. /\ events' \in Seq(EventType) /\ DOMAIN events' = 1..(Len(events) + 1)
      /\ events'[Len(events) + 1] = Event(r, outcome) /\ Len(events) \in Nat
      /\ \A i \in DOMAIN events : events'[i] = events[i]
      /\ Len(events') = Len(events) + 1
  BY <1>1
<1>4. \A i \in DOMAIN events' : i > Len(events) => i = Len(events) + 1
  BY <1>3
<1>5. QED
  BY <1>2, <1>3, <1>4 DEF Tells

(* Only what was there, and what is told, is on the queue then. *)
LEMMA TellsRefers ==
  ASSUME NEW queue \in Seq(EventType), NEW more, NEW toRead, NEW said, NEW rs,
         Tells(queue, more, toRead, said), RefersTo(queue, rs), toRead \subseteq DOMAIN rs
  PROVE  more \in Seq(EventType) /\ RefersTo(more, rs)
<1>1. \A i \in DOMAIN more : i \in DOMAIN queue \/ i > Len(queue)
  BY DEF Tells
<1>2. QED
  BY <1>1 DEF Tells, RefersTo

--------------------------------------------------------------------------------
(* Views *)

LEMMA ViewFields ==
  /\ \A v \in View :
       /\ v.by \in Reads /\ v.listeners \subseteq Reads /\ v.raised \subseteq v.listeners
       /\ v.version \in Versions /\ v.current \in BOOLEAN
       /\ v # NoView
  /\ NoView.listeners = {}
<1>1. ASSUME NEW v \in View
      PROVE  v # NoView
  <2>1. "by" \in DOMAIN v
    BY DEF View
  <2>2. "by" \notin DOMAIN NoView
    BY DEF NoView
  <2>3. QED
    BY <2>1, <2>2
<1>2. QED
  BY <1>1 DEF View, NoView

(* Only "current", "raised" and "version" of a view may change, and nobody *)
(* is taken out of "raised".                                               *)
Stays(d) ==
  /\ views'[d].by = views[d].by
  /\ views'[d].listeners = views[d].listeners
  /\ views[d].raised \subseteq views'[d].raised

ViewsKept ==
  /\ views' \in [Docs -> View \cup {NoView}]
  /\ \A d \in Docs :
       /\ views'[d] # NoView <=> views[d] # NoView
       /\ views[d] # NoView => Stays(d)

LEMMA KeptViewsOk ==
  ASSUME NEW rs, ViewsOk(views, rs), ViewsKept
  PROVE  ViewsOk(views', rs)
<1>1. \A d \in Docs : views[d] = NoView => views'[d] = NoView
  BY DEF ViewsKept
<1>2. \A d \in Docs : views'[d].listeners = views[d].listeners
  BY <1>1 DEF ViewsKept, Stays
<1>3. QED
  BY <1>2 DEF ViewsKept, Stays, ViewsOk

--------------------------------------------------------------------------------
(* What the handlers of the worker queue tell: the error of a listen, with *)
(* which its view is gone, or what the view is after the step.             *)
TellsViews(toRead, said) ==
  \A r \in toRead :
    LET d == reads[r].doc IN
      \/ /\ said[r] = Failure /\ r \in views[d].listeners /\ views'[d] = NoView
      \/ /\ said[r] = Snapshot(views'[d].version, ~views'[d].current)
         /\ r \in views'[d].listeners /\ r \in views'[d].raised

Telling ==
  \E toRead \in SUBSET DOMAIN reads : \E said :
    Tells(events, events', toRead, said) /\ TellsViews(toRead, said)

LEMMA NothingTold ==
  ASSUME IInv, events' = events
  PROVE  Telling
<1>1. Tells(events, events', {}, events)
  BY NobodyTold DEF IInv
<1>2. TellsViews({}, events)
  BY DEF TellsViews
<1>3. QED
  BY <1>1, <1>2 DEF Telling

LEMMA ListenersRead ==
  ASSUME IInv
  PROVE  \A d \in Docs : \A r \in views[d].listeners :
           /\ r \in DOMAIN reads /\ r \in Reads /\ reads[r].doc = d
           /\ views[d] # NoView /\ views[d] \in View
BY ViewFields, ReadsAreFinite DEF IInv, ViewsOk

LEMMA OutcomesAre ==
  /\ Failure \in Outcome
  /\ \A v \in Versions, c \in BOOLEAN :
       /\ Snapshot(v, c) \in Outcome /\ Snapshot(v, c).version = v
       /\ Snapshot(v, c).kind = "snapshot" /\ Snapshot(v, c).fromCache = c
BY DEF Failure, Snapshot, Outcome

(* GoOfflineIf and Broadcast. *)
LEMMA OfflineTells ==
  ASSUME IInv, NEW offline, GoOfflineIf(offline)
  PROVE  Telling /\ ViewsKept /\ ViewsShow(views', cached)
<1>1. CASE ~offline
  <2>1. views' = views /\ events' = events
    BY <1>1 DEF GoOfflineIf
  <2>2. QED
    BY <2>1, NothingTold DEF IInv, ViewsKept, Stays, ViewsOk
<1>2. CASE offline
  <2> DEFINE told(d) == IF ~HasView(d) THEN {}
                        ELSE IF views[d].current THEN views[d].listeners
                        ELSE views[d].listeners \ views[d].raised
             toRead == UNION {told(d) : d \in Docs}
             said == [r \in toRead |-> Snapshot(views[reads[r].doc].version, TRUE)]
  <2>1. /\ Tell(toRead, said)
        /\ views' = [d \in Docs |->
              IF ~HasView(d) THEN NoView
              ELSE [views[d] EXCEPT !.current = FALSE, !.raised = views[d].listeners]]
    BY <1>2 DEF GoOfflineIf
  <2>2. \A r \in toRead : \E d \in Docs : r \in views[d].listeners
    BY DEF HasView
  <2> HIDE DEF toRead
  <2>3. \A r \in toRead : /\ r \in DOMAIN reads /\ r \in Reads /\ reads[r].doc \in Docs
                          /\ r \in views[reads[r].doc].listeners
                          /\ HasView(reads[r].doc) /\ views[reads[r].doc] \in View
    BY <2>2, ListenersRead DEF HasView
  <2>4. \A r \in toRead : said[r] \in Outcome
    BY <2>3, OutcomesAre, ViewFields
  <2> HIDE DEF said
  <2>5. Tells(events, events', toRead, said)
    BY <2>1, <2>3, <2>4, TellTells DEF IInv
  <2>6. ASSUME NEW d \in Docs, HasView(d)
        PROVE  /\ views[d] \in View /\ views'[d] \in View /\ views'[d] # NoView
               /\ views'[d].by = views[d].by
               /\ views'[d].listeners = views[d].listeners
               /\ views'[d].version = views[d].version /\ views'[d].current = FALSE
               /\ views'[d].raised = views[d].listeners
    <3>1. views[d] \in View
      BY <2>6 DEF HasView, IInv, ViewsOk
    <3>2. views'[d] = [views[d] EXCEPT !.current = FALSE, !.raised = views[d].listeners]
      BY <2>1, <2>6
    <3>3. QED
      BY <3>1, <3>2, ViewFields DEF View
  <2>7. \A d \in Docs : ~HasView(d) => views'[d] = NoView
    BY <2>1
  <2>8. ViewsKept
    <3>1. views' \in [Docs -> View \cup {NoView}]
      BY <2>1, <2>6, <2>7
    <3>2. QED
      BY <2>6, <2>7, <3>1, ViewFields DEF ViewsKept, Stays, HasView
  <2>9. ViewsShow(views', cached)
    BY <2>6, <2>7 DEF ViewsShow, IInv, HasView
  <2>10. TellsViews(toRead, said)
    <3>1. ASSUME NEW r \in toRead
          PROVE  /\ said[r] = Snapshot(views'[reads[r].doc].version, ~views'[reads[r].doc].current)
                 /\ r \in views'[reads[r].doc].listeners
                 /\ r \in views'[reads[r].doc].raised
      <4>1. said[r] = Snapshot(views[reads[r].doc].version, TRUE)
        BY DEF said
      <4>2. QED
        BY <4>1, <2>3, <2>6
    <3>2. QED
      BY <3>1 DEF TellsViews
  <2>11. QED
    BY <2>3, <2>5, <2>8, <2>9, <2>10 DEF Telling
<1>3. QED
  BY <1>1, <1>2

LEMMA BroadcastTells ==
  ASSUME IInv, NEW n, Broadcast(n)
  PROVE  net' = n /\ Telling /\ ViewsKept /\ ViewsShow(views', cached)
BY OfflineTells DEF Broadcast

--------------------------------------------------------------------------------
(* Every action keeps the state legal *)

LEMMA ToldEvents ==
  ASSUME IInv, Telling
  PROVE  events' \in Seq(EventType) /\ RefersTo(events', reads)
BY TellsRefers DEF Telling, IInv

LEMMA Aggregators ==
  /\ NewAggregator \in AggType
  /\ \A a \in AggType :
       /\ a.outstanding \in [Docs -> Int] /\ a.current \subseteq Docs
       /\ a.dirty \subseteq Docs /\ a.docs \in [Docs -> Versions]
       /\ \A outstanding \in [Docs -> Int] :
            [a EXCEPT !.outstanding = outstanding] \in AggType
BY VersionsAreNat DEF NewAggregator, AggType

LEMMA SendKeeps ==
  ASSUME agg \in AggType, up \in Seq(Request), NEW request \in Request, Send(request)
  PROVE  up' \in Seq(Request) /\ agg' \in AggType
<1>1. request.doc \in Docs
  BY DEF Request
<1>2. up' \in Seq(Request)
  BY DEF Send
<1>3. agg' = [agg EXCEPT !.outstanding[request.doc] = @ + 1]
  BY DEF Send
<1> DEFINE outstanding == [agg.outstanding EXCEPT ![request.doc] = @ + 1]
<1>4. outstanding \in [Docs -> Int] /\ agg' = [agg EXCEPT !.outstanding = outstanding]
  BY <1>1, <1>3, Aggregators
<1>5. agg' \in AggType
  BY <1>4, Aggregators
<1>6. QED
  BY <1>2, <1>5

LEMMA FirstState == Init => IInv
<1> SUFFICES ASSUME Init
             PROVE  IInv
  OBVIOUS
<1>1. ReadsOk(reads) /\ ops \in Seq(Operation) /\ RefersTo(ops, reads)
      /\ events \in Seq(EventType) /\ RefersTo(events, reads)
  BY VersionsAreNat DEF Init, ReadsOk, RefersTo
<1>2. muted \subseteq Reads /\ answers \in [Reads -> Seq(Outcome \cup {Unavailable})]
  BY DEF Init
<1>3. NetOk(net)
  <2>1. IsFiniteSet({})
    BY FS_EmptySet
  <2>2. net = [targets |-> {}, stream |-> "Initial", idle |-> FALSE, online |-> "Unknown",
               failures |-> 0, timer |-> FALSE, trapped |-> FALSE]
    BY DEF Init
  <2>3. net \in NetType
    BY <2>2 DEF NetType, StreamStates, OnlineStates
  <2>4. QED
    BY <2>1, <2>2, <2>3 DEF NetOk, IsOpen, IsStarted
<1>4. StreamOk(net, up, down, watched)
  BY DEF Init, StreamOk
<1>5. ViewsOk(views, reads) /\ TargetsOk(net.targets, views) /\ ViewsShow(views, cached)
  BY ViewFields DEF Init, ViewsOk, TargetsOk, ViewsShow
<1>6. cached \in [Docs -> Versions] /\ held \in [Docs -> Versions]
  BY DEF Init
<1>7. agg \in AggType
  BY Aggregators DEF Init
<1>8. breaks \in 0..MaxBreaks /\ refusals \in 0..MaxRefusals
  BY ReadBounds DEF Init
<1>9. QED
  BY <1>1, <1>2, <1>3, <1>4, <1>5, <1>6, <1>7, <1>8 DEF IInv

LEMMA InvIsLegal == IInv => StatesAreLegal
<1> SUFFICES ASSUME IInv
             PROVE  StatesAreLegal
  OBVIOUS
<1>1. \A d \in Docs : views[d] = NoView \/ views[d] \in View
  BY DEF IInv, ViewsOk
<1>2. QED
  BY <1>1 DEF IInv, StatesAreLegal, TypeOK, ReadsOk, NetOk, StreamOk, NetType, AggType,
              ReadRecord, Operation, EventType

LEMMA GetDocumentKeeps ==
  ASSUME IInv, NEW d \in Docs, GetDocument(d)
  PROVE  /\ IInv' /\ DOMAIN reads' = DOMAIN reads \cup {Len(reads) + 1}
         /\ \A r \in DOMAIN reads : reads'[r] = reads[r]
<1> DEFINE read == [doc |-> d, floor |-> 0]
           op == [op |-> "listen", read |-> Len(reads) + 1]
<1>1. read \in ReadRecord
  BY VersionsAreNat DEF ReadRecord
<1>2. /\ reads \in Seq(ReadRecord) /\ Len(reads) < MaxReads
      /\ reads' = Append(reads, read)
  BY DEF GetDocument, IInv, ReadsOk
<1>3. /\ reads' \in Seq(ReadRecord) /\ DOMAIN reads' = 1..(Len(reads) + 1)
      /\ Len(reads') = Len(reads) + 1 /\ Len(reads) \in Nat /\ DOMAIN reads = 1..Len(reads)
      /\ \A r \in DOMAIN reads : reads'[r] = reads[r]
  BY <1>1, <1>2
<1>4. ReadsOk(reads') /\ DOMAIN reads \subseteq DOMAIN reads' /\ Len(reads) + 1 \in Reads
  BY <1>2, <1>3, VersionsAreNat DEF ReadsOk, Reads
<1>5. op \in Operation /\ op.read = Len(reads) + 1
  BY <1>4 DEF Operation
<1> HIDE DEF op, read
<1>6. ops' = Append(ops, op) /\ ops \in Seq(Operation)
  BY DEF GetDocument, op, IInv
<1>7. /\ ops' \in Seq(Operation) /\ \A i \in DOMAIN ops' : i \in DOMAIN ops \/ ops'[i] = op
      /\ \A i \in DOMAIN ops : ops'[i] = ops[i]
  BY <1>5, <1>6
<1>8. RefersTo(ops', reads') /\ RefersTo(events', reads')
  BY <1>3, <1>4, <1>5, <1>7 DEF RefersTo, IInv, GetDocument
<1>9. ViewsOk(views', reads')
  BY <1>3, <1>4 DEF ViewsOk, IInv, GetDocument
<1>10. QED
  BY <1>3, <1>4, <1>7, <1>8, <1>9
  DEF IInv, GetDocument, backend, StreamOk, TargetsOk, ViewsShow

(* The answer that an event is. *)
AnswerOf(o) == IF o.kind = "snapshot" /\ o.version = 0 /\ o.fromCache THEN Unavailable ELSE o

LEMMA RunEventKeeps ==
  ASSUME IInv, RunEvent
  PROVE  IInv'
<1> DEFINE r == Head(events).read
           o == Head(events).outcome
<1>1. /\ events \in Seq(EventType) /\ events # <<>> /\ events' = Tail(events)
  BY DEF RunEvent, IInv
<1>2. /\ Head(events) \in EventType /\ r \in Reads /\ o \in Outcome
      /\ Head(events) = events[1] /\ 1 \in DOMAIN events
  <2>1. Head(events) \in EventType /\ Head(events) = events[1] /\ 1 \in DOMAIN events
    BY <1>1, TailAndAppend
  <2>2. QED
    BY <2>1 DEF EventType
<1>3. r \in DOMAIN reads
  BY <1>2 DEF IInv, RefersTo
<1>4. events' \in Seq(EventType) /\ RefersTo(events', reads)
  <2>1. /\ Tail(events) \in Seq(EventType)
        /\ \A i \in DOMAIN Tail(events) : i + 1 \in DOMAIN events
                                          /\ Tail(events)[i] = events[i + 1]
    BY <1>1, TailAndAppend
  <2>2. QED
    BY <1>1, <2>1 DEF IInv, RefersTo
<1>5. /\ muted' \subseteq Reads /\ answers' \in [Reads -> Seq(Outcome \cup {Unavailable})]
      /\ ops' \in Seq(Operation) /\ RefersTo(ops', reads)
  <2>1. CASE r \in muted
    <3>1. muted' = muted /\ answers' = answers /\ ops' = ops
      BY <2>1 DEF RunEvent
    <3>2. QED
      BY <3>1 DEF IInv
  <2>2. CASE r \notin muted
    <3>1. /\ answers' = [answers EXCEPT ![r] = Append(@, AnswerOf(o))]
          /\ \/ muted' = muted /\ ops' = ops
             \/ /\ muted' = muted \cup {r}
                /\ ops' = Append(ops, [op |-> "remove", read |-> r])
      BY <2>2 DEF RunEvent, AnswerOf
    <3>2. AnswerOf(o) \in Outcome \cup {Unavailable}
      BY <1>2 DEF AnswerOf
    <3>3. answers' \in [Reads -> Seq(Outcome \cup {Unavailable})]
      BY <1>2, <3>1, <3>2 DEF IInv
    <3>4. muted' \subseteq Reads
      BY <1>2, <3>1 DEF IInv
    <3>5. ops' \in Seq(Operation) /\ RefersTo(ops', reads)
      <4>1. CASE ops' = ops
        BY <4>1 DEF IInv
      <4>2. CASE ops' = Append(ops, [op |-> "remove", read |-> r])
        <5>1. [op |-> "remove", read |-> r] \in Operation
          BY <1>2 DEF Operation
        <5>2. ops \in Seq(Operation)
          BY DEF IInv
        <5>3. ops' \in Seq(Operation) /\ \A i \in DOMAIN ops' :
                 (i \in DOMAIN ops /\ ops'[i] = ops[i]) \/ ops'[i].read = r
          BY <4>2, <5>1, <5>2
        <5>4. QED
          BY <1>3, <5>3 DEF RefersTo, IInv
      <4>3. QED
        BY <3>1, <4>1, <4>2
    <3>6. QED
      BY <3>3, <3>4, <3>5
  <2>3. QED
    BY <2>1, <2>2
<1>6. QED
  BY <1>4, <1>5
  DEF IInv, RunEvent, backend, StreamOk, TargetsOk, ViewsShow, ViewsOk, ReadsOk

LEMMA PoppedOperation ==
  ASSUME IInv, ops # <<>>
  PROVE  /\ Head(ops) \in Operation /\ Head(ops).read \in DOMAIN reads /\ Head(ops).read \in Reads
         /\ reads[Head(ops).read] \in ReadRecord /\ reads[Head(ops).read].doc \in Docs
         /\ Tail(ops) \in Seq(Operation) /\ RefersTo(Tail(ops), reads)
<1>1. ops \in Seq(Operation) /\ RefersTo(ops, reads) /\ reads \in Seq(ReadRecord)
  BY DEF IInv, ReadsOk
<1>2. /\ Head(ops) \in Operation /\ Head(ops) = ops[1] /\ 1 \in DOMAIN ops
      /\ Tail(ops) \in Seq(Operation)
      /\ \A i \in DOMAIN Tail(ops) : i + 1 \in DOMAIN ops /\ Tail(ops)[i] = ops[i + 1]
  BY <1>1, TailAndAppend
<1>3. Head(ops).read \in DOMAIN reads /\ RefersTo(Tail(ops), reads)
  BY <1>1, <1>2 DEF RefersTo
<1>4. reads[Head(ops).read] \in ReadRecord
  BY <1>1, <1>3
<1>5. Head(ops).read \in Reads
  BY <1>2 DEF Operation
<1>6. QED
  BY <1>2, <1>3, <1>4, <1>5 DEF ReadRecord

(* Only the floors of reads change. *)
SameReads == DOMAIN reads' = DOMAIN reads /\ \A r \in DOMAIN reads : reads'[r].doc = reads[r].doc

LEMMA FloorSet ==
  ASSUME IInv, NEW r \in DOMAIN reads, NEW floor \in Versions,
         reads' = [reads EXCEPT ![r].floor = floor]
  PROVE  ReadsOk(reads') /\ SameReads
<1>1. reads \in Seq(ReadRecord) /\ Len(reads) <= MaxReads
  BY DEF IInv, ReadsOk
<1>2. reads[r] \in ReadRecord
  BY <1>1
<1>3. [reads[r] EXCEPT !.floor = floor] \in ReadRecord
      /\ [reads[r] EXCEPT !.floor = floor].doc = reads[r].doc
  BY <1>2 DEF ReadRecord
<1>4. reads' = [reads EXCEPT ![r] = [reads[r] EXCEPT !.floor = floor]]
  OBVIOUS
<1> DEFINE new == [reads[r] EXCEPT !.floor = floor]
<1>5. new \in ReadRecord /\ new.doc = reads[r].doc /\ reads' = [reads EXCEPT ![r] = new]
  BY <1>3, <1>4
<1> HIDE DEF new
<1>6. reads' \in Seq(ReadRecord) /\ Len(reads') = Len(reads) /\ DOMAIN reads' = DOMAIN reads
  BY <1>1, <1>5
<1>7. \A q \in DOMAIN reads : reads'[q].doc = reads[q].doc
  BY <1>5, <1>6
<1>8. QED
  BY <1>1, <1>6, <1>7 DEF ReadsOk, SameReads

(* A view of one document changes. *)
LEMMA OneViewOk ==
  ASSUME NEW rs, ViewsOk(views, rs), NEW d \in Docs, views'[d] \in View,
         views' \in [Docs -> View \cup {NoView}],
         \A e \in Docs : e # d => views'[e] = views[e],
         views'[d].by \in DOMAIN rs, views'[d].listeners # {},
         \A r \in views'[d].listeners : r \in DOMAIN rs /\ rs[r].doc = d
  PROVE  ViewsOk(views', rs)
BY DEF ViewsOk

LEMMA OneViewGone ==
  ASSUME NEW rs, ViewsOk(views, rs), NEW d \in Docs, views' = [views EXCEPT ![d] = NoView]
  PROVE  /\ ViewsOk(views', rs) /\ views'[d] = NoView
         /\ \A e \in Docs : e # d => views'[e] = views[e]
<1>1. /\ views' \in [Docs -> View \cup {NoView}] /\ views'[d] = NoView
      /\ \A e \in Docs : e # d => views'[e] = views[e]
  BY DEF ViewsOk
<1>2. QED
  BY <1>1, ViewFields DEF ViewsOk

(* Floors do not matter to the views, nor to what refers to reads. *)
LEMMA SameReadsOk ==
  ASSUME NEW vs, ViewsOk(vs, reads), SameReads
  PROVE  ViewsOk(vs, reads')
BY DEF ViewsOk, SameReads

(* What a read is told that comes to a view. *)
LEMMA TellingOne ==
  ASSUME IInv, NEW r \in DOMAIN reads, reads[r].doc \in Docs, NEW tell \in BOOLEAN,
         views'[reads[r].doc] \in View, r \in views'[reads[r].doc].listeners,
         tell => r \in views'[reads[r].doc].raised,
         events' = IF tell THEN Append(events, Event(r, Snapshot(views'[reads[r].doc].version,
                                                     ~views'[reads[r].doc].current)))
                   ELSE events
  PROVE  Telling
<1> DEFINE w == views'[reads[r].doc]
           outcome == Snapshot(w.version, ~w.current)
<1>1. CASE tell
  <2>1. outcome \in Outcome
    BY OutcomesAre, ViewFields
  <2>2. r \in Reads /\ events \in Seq(EventType)
    BY ReadsAreFinite DEF IInv
  <2>3. events' = Append(events, Event(r, outcome))
    BY <1>1
  <2> HIDE DEF outcome
  <2>4. Tells(events, events', {r}, [q \in {r} |-> outcome])
    BY <2>1, <2>2, <2>3, OneTold
  <2>5. [q \in {r} |-> outcome][r] = outcome
    OBVIOUS
  <2>6. TellsViews({r}, [q \in {r} |-> outcome])
    BY <1>1, <2>5 DEF TellsViews, outcome
  <2>7. QED
    BY <2>4, <2>6 DEF Telling
<1>2. CASE ~tell
  BY <1>2, NothingTold
<1>3. QED
  BY <1>1, <1>2

LEMMA JoinKeeps ==
  ASSUME IInv, NEW r \in DOMAIN reads, NEW d \in Docs, reads[r].doc = d, HasView(d),
         JoinView(r, d)
  PROVE  /\ ReadsOk(reads') /\ SameReads /\ Telling
         /\ ViewsOk(views', reads') /\ TargetsOk(net'.targets, views')
         /\ ViewsShow(views', cached)
         /\ views'[d].listeners = views[d].listeners \cup {r}
         /\ views'[d].by = views[d].by /\ views'[d].current = views[d].current
         /\ views'[d].raised = IF views[d].current \/ net.online = "Offline"
                              THEN views[d].raised \cup {r} ELSE views[d].raised
         /\ \A e \in Docs : e # d => views'[e] = views[e]
<1> DEFINE v == views[d]
           tell == v.current \/ net.online = "Offline"
           listeners == v.listeners \cup {r}
           raised == IF tell THEN v.raised \cup {r} ELSE v.raised
           w == [v EXCEPT !.listeners = listeners, !.raised = raised]
<1>1. v \in View /\ v.by \in DOMAIN reads /\ r \in Reads
  BY ReadsAreFinite DEF IInv, ViewsOk, HasView
<1>2. listeners \in SUBSET Reads /\ raised \in SUBSET listeners
  BY <1>1, ViewFields
<1> HIDE DEF listeners, raised
<1>3. /\ w \in View /\ w.by = v.by /\ w.listeners = listeners
      /\ w.version = v.version /\ w.current = v.current /\ w.raised = raised
  BY <1>1, <1>2, ViewFields DEF View
<1>4. views' = [views EXCEPT ![d] = w]
  <2> USE DEF listeners, raised
  <2>1. views' = [views EXCEPT ![d].listeners = @ \cup {r},
                               ![d].raised = IF tell THEN @ \cup {r} ELSE @]
    BY DEF JoinView
  <2>2. views \in [Docs -> View \cup {NoView}]
    BY DEF IInv, ViewsOk
  <2>3. QED
    BY <1>1, <2>1, <2>2 DEF View
<1>5. /\ r \in listeners /\ listeners = views[d].listeners \cup {r}
      /\ raised = IF views[d].current \/ net.online = "Offline"
                  THEN views[d].raised \cup {r} ELSE views[d].raised
      /\ tell => r \in raised
  BY DEF listeners, raised
<1>6. \A q \in listeners : q \in DOMAIN reads /\ reads[q].doc = d
  BY ListenersRead DEF listeners
<1>7. /\ events' = IF tell THEN Append(events, Event(r, Snapshot(v.version, ~v.current)))
                   ELSE events
      /\ reads' = [reads EXCEPT ![r].floor = reads[v.by].floor]
      /\ net' = net
  BY DEF JoinView
<1>8. tell \in BOOLEAN
  BY <1>1, ViewFields
<1> HIDE DEF w, tell
<1>9. /\ ViewsOk(views', reads) /\ views'[d] = w
      /\ \A e \in Docs : e # d => views'[e] = views[e]
  <2>1. ViewsOk(views, reads)
    BY DEF IInv
  <2>2. w.by \in DOMAIN reads /\ w.listeners # {}
    BY <1>1, <1>3, <1>5
  <2>3. \A q \in w.listeners : q \in DOMAIN reads /\ reads[q].doc = d
    BY <1>3, <1>6
  <2>4. /\ views' \in [Docs -> View \cup {NoView}] /\ views'[d] = w
        /\ \A e \in Docs : e # d => views'[e] = views[e]
    BY <1>3, <1>4, <2>1 DEF ViewsOk
  <2> HIDE DEF v
  <2>5. QED
    BY <1>3, <2>1, <2>2, <2>3, <2>4, OneViewOk
<1>10. Telling
  BY <1>3, <1>5, <1>7, <1>8, <1>9, TellingOne
<1>11. ReadsOk(reads') /\ SameReads
  <2>1. reads[v.by].floor \in Versions
    <3>1. reads[v.by] \in ReadRecord
      BY <1>1 DEF IInv, ReadsOk
    <3>2. QED
      BY <3>1 DEF ReadRecord
  <2>2. QED
    BY <1>7, <2>1, FloorSet
<1>12. TargetsOk(net'.targets, views')
  BY <1>3, <1>7, <1>9, ViewFields DEF IInv, TargetsOk, HasView
<1>13. ViewsShow(views', cached)
  BY <1>3, <1>9 DEF ViewsShow, IInv, HasView
<1>14. QED
  BY <1>3, <1>5, <1>9, <1>10, <1>11, <1>12, <1>13, SameReadsOk

(* What a listen makes of the network. *)
LEMMA ListenStarts ==
  ASSUME IInv, NEW d \in Docs, d \notin net.targets,
         NEW n, n = [net EXCEPT !.targets = @ \cup {d}, !.idle = FALSE],
         IF ShouldStartWatchStream(n)
         THEN net' = StartWatchStream(n) /\ agg' = NewAggregator /\ UNCHANGED up
         ELSE IF IsOpen(n)
         THEN net' = n /\ Send([op |-> "watch", doc |-> d])
         ELSE net' = n /\ UNCHANGED <<agg, up>>
  PROVE  /\ NetOk(net') /\ net'.targets = net.targets \cup {d}
         /\ agg' \in AggType /\ up' \in Seq(Request)
         /\ ~IsOpen(net') => up' = up /\ ~IsOpen(net)
<1>1. NetOk(net) /\ net \in NetType /\ agg \in AggType /\ up \in Seq(Request)
  BY DEF IInv, NetOk, StreamOk
<1>2. /\ n \in NetType /\ n.targets = net.targets \cup {d} /\ n.idle = FALSE
      /\ n.stream = net.stream /\ n.online = net.online /\ n.failures = net.failures
      /\ n.timer = net.timer /\ n.trapped = net.trapped
  BY <1>1, NetFields DEF NetType
<1>3. IsFiniteSet(n.targets) /\ n.targets # {}
  BY <1>1, <1>2, FS_AddElement DEF NetOk
<1>4. CASE ShouldStartWatchStream(n)
  <2>1. net' = StartWatchStream(n) /\ agg' = NewAggregator /\ up' = up
    BY <1>4
  <2>2. ~IsStarted(n) /\ n.stream \in {"Initial", "Error"} /\ ~IsOpen(net)
    BY <1>2, <1>4, NetFields DEF ShouldStartWatchStream, IsStarted, IsOpen, StreamStates
  <2>3. ~n.timer /\ ~n.trapped /\ n.failures = 0 /\ n.online # "Online"
    BY <1>1, <1>2, <2>2 DEF NetOk, IsStarted
  <2>4. NetOk(net') /\ net'.targets = n.targets /\ ~IsOpen(net')
    BY <1>2, <1>3, <2>1, <2>2, <2>3, StartingStream
  <2>5. QED
    BY <1>1, <1>2, <2>1, <2>2, <2>4, Aggregators
<1>5. CASE ~ShouldStartWatchStream(n)
  <2>1. IsStarted(n)
    BY <1>3, <1>5 DEF ShouldStartWatchStream
  <2>2. NetOk(n)
    BY <1>1, <1>2, <1>3, <2>1 DEF NetOk, IsStarted, IsOpen
  <2>3. IsOpen(n) <=> IsOpen(net)
    BY <1>2 DEF IsOpen
  <2>4. CASE IsOpen(n)
    <3>1. net' = n /\ Send([op |-> "watch", doc |-> d])
      BY <1>5, <2>4
    <3>2. [op |-> "watch", doc |-> d] \in Request
      BY DEF Request
    <3>3. up' \in Seq(Request) /\ agg' \in AggType
      BY <1>1, <3>1, <3>2, SendKeeps
    <3>4. QED
      BY <1>2, <2>2, <2>4, <3>1, <3>3
  <2>5. CASE ~IsOpen(n)
    <3>1. net' = n /\ agg' = agg /\ up' = up
      BY <1>5, <2>5
    <3>2. QED
      BY <1>1, <1>2, <2>2, <2>3, <2>5, <3>1
  <2>6. QED
    BY <2>4, <2>5
<1>6. QED
  BY <1>4, <1>5

LEMMA ListenKeeps ==
  ASSUME IInv, NEW r \in DOMAIN reads, NEW d \in Docs, reads[r].doc = d, ~HasView(d),
         Listen(r, d), UNCHANGED <<down, watched>>
  PROVE  /\ ReadsOk(reads') /\ SameReads /\ Telling
         /\ ViewsOk(views', reads') /\ TargetsOk(net'.targets, views')
         /\ ViewsShow(views', cached)
         /\ NetOk(net') /\ agg' \in AggType /\ StreamOk(net', up', down', watched')
         /\ views'[d].listeners = views[d].listeners \cup {r}
         /\ views'[d].by = r /\ ~views'[d].current
         /\ net.online # "Offline" => views'[d].raised = {}
         /\ \A e \in Docs : e # d => views'[e] = views[e]
<1> DEFINE tell == net.online = "Offline"
           w == [by |-> r, listeners |-> {r}, raised |-> IF tell THEN {r} ELSE {},
                 version |-> cached[d], current |-> FALSE]
           n == [net EXCEPT !.targets = @ \cup {d}, !.idle = FALSE]
<1>1. r \in Reads /\ cached[d] \in Versions /\ held[d] \in Versions
  BY ReadsAreFinite DEF IInv
<1>2. /\ w \in View /\ w.by = r /\ w.listeners = {r}
      /\ w.version = cached[d] /\ w.current = FALSE
      /\ w.raised = IF net.online = "Offline" THEN {r} ELSE {}
  BY <1>1 DEF View
<1>3. /\ views' = [views EXCEPT ![d] = w]
      /\ events' = IF tell THEN Append(events, Event(r, Snapshot(cached[d], TRUE))) ELSE events
      /\ reads' = [reads EXCEPT ![r].floor = held[d]]
      /\ IF ShouldStartWatchStream(n)
         THEN net' = StartWatchStream(n) /\ agg' = NewAggregator /\ UNCHANGED up
         ELSE IF IsOpen(n)
         THEN net' = n /\ Send([op |-> "watch", doc |-> d])
         ELSE net' = n /\ UNCHANGED <<agg, up>>
  BY DEF Listen
<1>4. d \notin net.targets /\ views[d] = NoView
  BY DEF HasView, IInv, TargetsOk
<1>5. /\ NetOk(net') /\ net'.targets = net.targets \cup {d}
      /\ agg' \in AggType /\ up' \in Seq(Request)
      /\ ~IsOpen(net') => up' = up /\ ~IsOpen(net)
  <2> HIDE DEF w
  <2>1. \A m : m = n => /\ NetOk(net') /\ net'.targets = net.targets \cup {d}
                        /\ agg' \in AggType /\ up' \in Seq(Request)
                        /\ ~IsOpen(net') => up' = up /\ ~IsOpen(net)
    BY <1>3, <1>4, ListenStarts
  <2>2. QED
    BY <2>1
<1> HIDE DEF w, n
<1>6. /\ ViewsOk(views', reads) /\ views'[d] = w
      /\ \A e \in Docs : e # d => views'[e] = views[e]
  <2>1. ViewsOk(views, reads) /\ views' = [views EXCEPT ![d] = w]
    BY <1>3 DEF IInv
  <2>2. w.by \in DOMAIN reads /\ w.listeners # {}
    BY <1>2
  <2>3. \A q \in w.listeners : q \in DOMAIN reads /\ reads[q].doc = d
    BY <1>2
  <2>4. /\ views' \in [Docs -> View \cup {NoView}] /\ views'[d] = w
        /\ \A e \in Docs : e # d => views'[e] = views[e]
    BY <1>2, <2>1 DEF ViewsOk
  <2>5. /\ views'[d] \in View /\ views'[d].by \in DOMAIN reads /\ views'[d].listeners # {}
        /\ \A q \in views'[d].listeners : q \in DOMAIN reads /\ reads[q].doc = d
    BY <1>2, <2>2, <2>3, <2>4
  <2>6. ViewsOk(views', reads)
    BY <2>1, <2>4, <2>5 DEF ViewsOk
  <2>7. QED
    BY <2>4, <2>6
<1>7. Telling
  <2>1. ~w.current = TRUE
    BY <1>2
  <2>2. tell \in BOOLEAN /\ r \in w.listeners /\ (tell => r \in w.raised)
    BY <1>2
  <2>3. events' = IF tell THEN Append(events, Event(r, Snapshot(w.version, ~w.current)))
                  ELSE events
    BY <1>2, <1>3, <2>1
  <2> HIDE DEF tell
  <2>4. QED
    BY <1>2, <1>6, <2>2, <2>3, TellingOne
<1>8. ReadsOk(reads') /\ SameReads
  BY <1>1, <1>3, FloorSet
<1>9. TargetsOk(net'.targets, views')
  <2>1. TargetsOk(net.targets, views) /\ net'.targets = net.targets \cup {d}
    BY <1>5 DEF IInv
  <2>2. views'[d] # NoView
    BY <1>2, <1>6, ViewFields
  <2>3. QED
    BY <1>6, <2>1, <2>2 DEF TargetsOk
<1>10. ViewsShow(views', cached)
  BY <1>2, <1>6 DEF ViewsShow, IInv
<1>11. StreamOk(net', up', down', watched')
  BY <1>5 DEF StreamOk, IInv
<1>12. /\ views'[d].listeners = views[d].listeners \cup {r}
       /\ views'[d].by = r /\ ~views'[d].current
       /\ net.online # "Offline" => views'[d].raised = {}
  BY <1>2, <1>4, <1>6, ViewFields
<1>13. QED
  BY <1>5, <1>6, <1>7, <1>8, <1>9, <1>10, <1>11, <1>12, SameReadsOk

LEMMA AddQueryListenerKeeps ==
  ASSUME IInv, AddQueryListener
  PROVE  /\ IInv' /\ Telling /\ SameReads
         /\ LET r == Head(ops).read
                d == reads[r].doc
            IN /\ views'[d].listeners = views[d].listeners \cup {r}
               /\ \A e \in Docs : e # d => views'[e] = views[e]
<1> DEFINE r == Head(ops).read
           d == reads[r].doc
<1>1. /\ ops # <<>> /\ ops' = Tail(ops)
      /\ IF HasView(d) THEN JoinView(r, d) ELSE Listen(r, d)
      /\ UNCHANGED <<muted, answers, cached, down, held, watched, breaks, refusals>>
  BY DEF AddQueryListener, backend
<1>2. /\ r \in DOMAIN reads /\ d \in Docs /\ ops' \in Seq(Operation) /\ RefersTo(ops', reads)
  BY <1>1, PoppedOperation
<1> HIDE DEF r
<1>3. /\ ReadsOk(reads') /\ SameReads /\ Telling
      /\ ViewsOk(views', reads') /\ TargetsOk(net'.targets, views')
      /\ ViewsShow(views', cached)
      /\ NetOk(net') /\ agg' \in AggType /\ StreamOk(net', up', down', watched')
      /\ views'[d].listeners = views[d].listeners \cup {r}
      /\ \A e \in Docs : e # d => views'[e] = views[e]
  <2>1. CASE HasView(d)
    <3>1. JoinView(r, d)
      BY <1>1, <2>1
    <3>2. net' = net /\ agg' = agg /\ up' = up
      BY <3>1 DEF JoinView
    <3>3. NetOk(net') /\ agg' \in AggType /\ StreamOk(net', up', down', watched')
      BY <1>1, <3>2 DEF IInv
    <3>4. QED
      BY <1>2, <2>1, <3>1, <3>3, JoinKeeps
  <2>2. CASE ~HasView(d)
    <3>1. Listen(r, d) /\ UNCHANGED <<down, watched>>
      BY <1>1, <2>2
    <3> HIDE DEF d
    <3>2. d = reads[r].doc
      BY DEF d
    <3>3. QED
      BY <1>2, <2>2, <3>1, <3>2, ListenKeeps
  <2>3. QED
    BY <2>1, <2>2
<1>4. /\ RefersTo(ops', reads')
      /\ events' \in Seq(EventType) /\ RefersTo(events', reads')
  BY <1>2, <1>3, ToldEvents DEF RefersTo, SameReads
<1>5. IInv'
  BY <1>1, <1>2, <1>3, <1>4 DEF IInv
<1>6. QED
  BY <1>3, <1>5 DEF r

(* RemoteStore::StopListening. *)
LEMMA StopKeeps ==
  ASSUME IInv, NEW d \in Docs, d \in net.targets, StopListening(d)
  PROVE  /\ NetOk(net') /\ net'.targets = net.targets \ {d}
         /\ agg' \in AggType /\ up' \in Seq(Request)
         /\ IsOpen(net') <=> IsOpen(net)
         /\ ~IsOpen(net') => up' = up
<1> DEFINE h == HardAssert(net, d \in net.targets)
           n == [h EXCEPT !.targets = @ \ {d}, !.idle = FALSE]
<1>1. NetOk(net) /\ net \in NetType /\ agg \in AggType /\ up \in Seq(Request)
  BY DEF IInv, NetOk, StreamOk
<1>2. h = [net EXCEPT !.trapped = @ \/ ~TRUE]
  BY DEF HardAssert
<1>3. /\ h \in NetType /\ h.targets = net.targets /\ ~h.trapped /\ h.stream = net.stream
      /\ h.online = net.online /\ h.failures = net.failures /\ h.timer = net.timer
  BY <1>1, <1>2, NetFields DEF NetType, NetOk
<1> HIDE DEF h
<1>4. /\ n \in NetType /\ n.targets = net.targets \ {d} /\ n.idle = FALSE /\ ~n.trapped
      /\ n.stream = net.stream /\ n.online = net.online /\ n.failures = net.failures
      /\ n.timer = net.timer
  BY <1>1, <1>3, NetFields DEF NetType
<1>5. IF IsOpen(net)
      THEN /\ net' = [n EXCEPT !.idle = n.targets = {}]
           /\ Send([op |-> "unwatch", doc |-> d])
      ELSE /\ net' = IF n.targets = {} THEN UpdateState(n, "Unknown") ELSE n
           /\ UNCHANGED <<agg, up>>
  BY DEF StopListening, h
<1> HIDE DEF n
<1>6. IsFiniteSet(n.targets)
  BY <1>1, <1>4, FS_Subset DEF NetOk
<1>7. CASE IsOpen(net)
  <2>1. net' = [n EXCEPT !.idle = n.targets = {}] /\ Send([op |-> "unwatch", doc |-> d])
    BY <1>5, <1>7
  <2>2. (n.targets = {}) \in BOOLEAN
    OBVIOUS
  <2>3. /\ net' \in NetType /\ net'.targets = n.targets /\ net'.idle = (n.targets = {})
        /\ ~net'.trapped /\ net'.stream = net.stream /\ net'.online = net.online
        /\ net'.failures = net.failures /\ net'.timer = net.timer
    BY <1>4, <2>1, <2>2, NetFields DEF NetType
  <2>4. NetOk(net') /\ IsOpen(net')
    BY <1>1, <1>6, <1>7, <2>3 DEF NetOk, IsOpen, IsStarted
  <2>5. [op |-> "unwatch", doc |-> d] \in Request
    BY DEF Request
  <2>6. up' \in Seq(Request) /\ agg' \in AggType
    BY <1>1, <2>1, <2>5, SendKeeps
  <2>7. QED
    BY <1>4, <1>7, <2>3, <2>4, <2>6
<1>8. CASE ~IsOpen(net)
  <2>1. /\ net' = IF n.targets = {} THEN UpdateState(n, "Unknown") ELSE n
        /\ agg' = agg /\ up' = up
    BY <1>5, <1>8
  <2>2. CASE n.targets = {}
    <3>1. /\ net' \in NetType /\ net'.online = "Unknown" /\ net'.failures = 0
          /\ net'.timer = FALSE /\ net'.targets = n.targets /\ net'.stream = n.stream
          /\ net'.idle = n.idle /\ net'.trapped = n.trapped
      BY <1>4, <2>1, <2>2, StateUpdated DEF OnlineStates
    <3>2. NetOk(net') /\ ~IsOpen(net')
      BY <1>4, <1>6, <1>8, <2>2, <3>1 DEF NetOk, IsOpen
    <3>3. QED
      BY <1>1, <1>4, <1>8, <2>1, <3>1, <3>2
  <2>3. CASE n.targets # {}
    <3>1. net' = n
      BY <2>1, <2>3
    <3>2. IsStarted(net)
      BY <1>1, <1>4, <2>3 DEF NetOk
    <3>3. NetOk(net') /\ ~IsOpen(net')
      BY <1>1, <1>4, <1>6, <1>8, <3>1, <3>2 DEF NetOk, IsOpen, IsStarted
    <3>4. QED
      BY <1>1, <1>4, <1>8, <2>1, <3>1, <3>3
  <2>4. QED
    BY <2>2, <2>3
<1>9. QED
  BY <1>7, <1>8

LEMMA RemoveQueryListenerKeeps ==
  ASSUME IInv, RemoveQueryListener
  PROVE  /\ IInv' /\ events' = events /\ reads' = reads
         /\ LET r == Head(ops).read
                d == reads[r].doc
            IN /\ views'[d].listeners = views[d].listeners \ {r}
               /\ \A e \in Docs : e # d => views'[e] = views[e]
<1> DEFINE r == Head(ops).read
           d == reads[r].doc
<1>1. /\ ops # <<>> /\ ops' = Tail(ops)
      /\ IF HasView(d) /\ views[d].listeners = {r}
         THEN /\ views' = [views EXCEPT ![d] = NoView]
              /\ StopListening(d)
         ELSE /\ views' = IF HasView(d)
                        THEN [views EXCEPT ![d].listeners = @ \ {r}, ![d].raised = @ \ {r}]
                        ELSE views
              /\ UNCHANGED <<net, agg, up>>
      /\ UNCHANGED <<reads, events, muted, answers, cached, down, held, watched, breaks,
                     refusals>>
  BY DEF RemoveQueryListener, backend, app
<1>2. /\ r \in DOMAIN reads /\ d \in Docs /\ ops' \in Seq(Operation) /\ RefersTo(ops', reads)
  BY <1>1, PoppedOperation
<1>3. ViewsOk(views, reads) /\ TargetsOk(net.targets, views)
      /\ views \in [Docs -> View \cup {NoView}]
  BY DEF IInv, ViewsOk
<1> HIDE DEF r, d
<1>4. /\ NetOk(net') /\ agg' \in AggType /\ StreamOk(net', up', down', watched')
      /\ ViewsOk(views', reads) /\ TargetsOk(net'.targets, views')
      /\ ViewsShow(views', cached)
      /\ views'[d].listeners = views[d].listeners \ {r}
      /\ \A e \in Docs : e # d => views'[e] = views[e]
  <2>1. CASE HasView(d) /\ views[d].listeners = {r}
    <3>1. views' = [views EXCEPT ![d] = NoView] /\ StopListening(d)
      BY <1>1, <2>1
    <3>2. d \in net.targets
      BY <1>2, <1>3, <2>1 DEF TargetsOk, HasView
    <3>3. /\ NetOk(net') /\ net'.targets = net.targets \ {d}
          /\ agg' \in AggType /\ up' \in Seq(Request)
          /\ IsOpen(net') <=> IsOpen(net)
          /\ ~IsOpen(net') => up' = up
      BY <1>2, <3>1, <3>2, StopKeeps
    <3>4. /\ ViewsOk(views', reads) /\ views'[d] = NoView
          /\ \A e \in Docs : e # d => views'[e] = views[e]
      BY <1>2, <1>3, <3>1, OneViewGone
    <3>5. StreamOk(net', up', down', watched')
      BY <1>1, <3>3 DEF StreamOk, IInv
    <3>6. TargetsOk(net'.targets, views')
      BY <1>3, <3>3, <3>4 DEF TargetsOk
    <3>7. ViewsShow(views', cached)
      BY <3>4 DEF ViewsShow, IInv
    <3>8. views'[d].listeners = views[d].listeners \ {r}
      BY <2>1, <3>4, ViewFields
    <3>9. QED
      BY <3>3, <3>4, <3>5, <3>6, <3>7, <3>8
  <2>2. CASE HasView(d) /\ views[d].listeners # {r}
    <3> DEFINE v == views[d]
               listeners == v.listeners \ {r}
               raised == v.raised \ {r}
               w == [v EXCEPT !.listeners = listeners, !.raised = raised]
    <3>1. v \in View /\ v.by \in DOMAIN reads /\ v.listeners # {}
      BY <1>2, <1>3, <2>2 DEF ViewsOk, HasView
    <3>2. listeners \in SUBSET Reads /\ raised \in SUBSET listeners /\ listeners # {}
      BY <2>2, <3>1, ViewFields
    <3>3. views' = [views EXCEPT ![d] = w]
      <4>1. views' = [views EXCEPT ![d].listeners = @ \ {r}, ![d].raised = @ \ {r}]
        BY <1>1, <2>2
      <4>2. QED
        BY <1>2, <1>3, <3>1, <4>1 DEF View
    <3> HIDE DEF listeners, raised
    <3>4. /\ w \in View /\ w.by = v.by /\ w.listeners = listeners
          /\ w.version = v.version /\ w.current = v.current
      BY <3>1, <3>2, ViewFields DEF View
    <3>5. \A q \in listeners : q \in DOMAIN reads /\ reads[q].doc = d
      BY <1>2, ListenersRead DEF listeners
    <3> HIDE DEF w
    <3>6. /\ views' \in [Docs -> View \cup {NoView}] /\ views'[d] = w
          /\ \A e \in Docs : e # d => views'[e] = views[e]
      BY <1>2, <1>3, <3>3, <3>4
    <3>7. /\ views'[d] \in View /\ views'[d].by \in DOMAIN reads /\ views'[d].listeners # {}
          /\ \A q \in views'[d].listeners : q \in DOMAIN reads /\ reads[q].doc = d
      BY <3>1, <3>2, <3>4, <3>5, <3>6
    <3>8. ViewsOk(views', reads)
      BY <1>2, <1>3, <3>6, <3>7, OneViewOk
    <3>9. net' = net /\ agg' = agg /\ up' = up
      BY <1>1, <2>2
    <3>10. TargetsOk(net'.targets, views')
      BY <1>3, <2>2, <3>6, <3>7, <3>9, ViewFields DEF TargetsOk, HasView
    <3>11. ViewsShow(views', cached)
      BY <2>2, <3>4, <3>6 DEF ViewsShow, IInv, HasView
    <3>12. views'[d].listeners = views[d].listeners \ {r}
      BY <3>4, <3>6 DEF listeners
    <3>13. QED
      BY <1>1, <3>6, <3>8, <3>9, <3>10, <3>11, <3>12 DEF IInv
  <2>3. CASE ~HasView(d)
    <3>1. views' = views /\ net' = net /\ agg' = agg /\ up' = up
      BY <1>1, <2>3
    <3>2. views[d].listeners = {}
      BY <2>3, ViewFields DEF HasView
    <3>3. QED
      BY <1>1, <3>1, <3>2 DEF IInv
  <2>4. QED
    BY <2>1, <2>2, <2>3
<1>5. IInv'
  BY <1>1, <1>2, <1>4 DEF IInv
<1>6. QED
  BY <1>1, <1>4, <1>5 DEF d, r

LEMMA OrderOf ==
  ASSUME NEW S, IsFiniteSet(S), NEW order \in SetToSeqs(S)
  PROVE  /\ Cardinality(S) \in Nat /\ DOMAIN order = 1..Cardinality(S)
         /\ order \in [1..Cardinality(S) -> S]
         /\ \A i, j \in DOMAIN order : i # j => order[i] # order[j]
BY FS_CardinalityType DEF SetToSeqs

LEMMA StreamOpensKeeps ==
  ASSUME IInv, StreamOpens
  PROVE  IInv' /\ events' = events /\ reads' = reads
<1>1. NetOk(net) /\ net \in NetType /\ net.stream = "Starting" /\ agg \in AggType
  BY DEF IInv, NetOk, StreamOpens
<1>2. net' = [net EXCEPT !.stream = "Open"]
  BY DEF StreamOpens
<1>3. /\ net' \in NetType /\ net'.stream = "Open" /\ net'.targets = net.targets
      /\ net'.idle = net.idle /\ net'.online = net.online /\ net'.failures = net.failures
      /\ net'.timer = net.timer /\ net'.trapped = net.trapped
  BY <1>1, <1>2, NetFields DEF NetType, StreamStates
<1>4. NetOk(net')
  BY <1>1, <1>3 DEF NetOk, IsOpen, IsStarted
<1>5. up' \in Seq(Request)
  <2>1. PICK order \in SetToSeqs(net.targets) :
          up' = [i \in DOMAIN order |-> [op |-> "watch", doc |-> order[i]]]
    BY DEF StreamOpens
  <2> DEFINE n == Cardinality(net.targets)
  <2>2. n \in Nat /\ DOMAIN order = 1..n /\ order \in [1..n -> net.targets]
    BY <1>1, OrderOf DEF NetOk
  <2>3. net.targets \subseteq Docs
    BY <1>1, NetFields
  <2> HIDE DEF n
  <2>4. up' \in [1..n -> Request]
    BY <2>1, <2>2, <2>3 DEF Request
  <2>5. QED
    BY <2>2, <2>4
<1>6. agg' \in AggType
  <2> DEFINE outstanding == [d \in Docs |-> IF d \in net.targets THEN 1 ELSE agg.outstanding[d]]
  <2>1. outstanding \in [Docs -> Int]
    BY <1>1, Aggregators
  <2>2. agg' = [agg EXCEPT !.outstanding = outstanding]
    BY DEF StreamOpens
  <2> HIDE DEF outstanding
  <2>3. QED
    BY <1>1, <2>1, <2>2, Aggregators
<1>7. StreamOk(net', up', down', watched')
  BY <1>3, <1>5 DEF StreamOk, IInv, StreamOpens, backend, IsOpen
<1>8. QED
  BY <1>3, <1>4, <1>5, <1>6, <1>7 DEF IInv, StreamOpens, backend, app

LEMMA EndedStream ==
  ASSUME StreamEnds, NetOk(net')
  PROVE  agg' \in AggType /\ StreamOk(net', up', down', watched')
BY Aggregators DEF StreamEnds, StreamOk

(* A stream that ends, with what that makes known of the network. *)
LEMMA EndingKeeps ==
  ASSUME IInv, StreamEnds, NEW n, Broadcast(n), NetOk(n), n.targets = net.targets,
         UNCHANGED <<reads, muted, answers, ops, cached, held, refusals>>,
         breaks' \in 0..MaxBreaks
  PROVE  IInv' /\ Telling /\ ViewsKept
<1>1. net' = n /\ Telling /\ ViewsKept /\ ViewsShow(views', cached)
  BY BroadcastTells
<1>2. agg' \in AggType /\ StreamOk(net', up', down', watched')
  BY <1>1, EndedStream
<1>3. events' \in Seq(EventType) /\ RefersTo(events', reads)
  BY <1>1, ToldEvents
<1>4. ViewsOk(views', reads) /\ TargetsOk(net'.targets, views')
  BY <1>1, KeptViewsOk DEF IInv, TargetsOk, ViewsKept
<1>5. QED
  BY <1>1, <1>2, <1>3, <1>4 DEF IInv

LEMMA StreamDoesNotOpenKeeps ==
  ASSUME IInv, StreamDoesNotOpen
  PROVE  IInv' /\ Telling /\ ViewsKept
<1>1. NetOk(net) /\ IsStarted(net)
  BY DEF IInv, StreamDoesNotOpen, IsStarted
<1>2. NetOk(CloseWithError(net)) /\ CloseWithError(net).targets = net.targets
  BY <1>1, ErrorCloses
<1>3. QED
  BY <1>2, EndingKeeps DEF StreamDoesNotOpen, IInv

LEMMA BreaksCount ==
  ASSUME breaks \in 0..MaxBreaks, breaks < MaxBreaks, breaks' = breaks + 1
  PROVE  breaks' \in 0..MaxBreaks
BY ReadBounds

LEMMA StreamBreaksKeeps ==
  ASSUME IInv, StreamBreaks
  PROVE  IInv' /\ Telling /\ ViewsKept
<1>1. NetOk(net) /\ IsStarted(net)
  BY DEF IInv, StreamBreaks, IsStarted, IsOpen
<1>2. NetOk(CloseWithError(net)) /\ CloseWithError(net).targets = net.targets
  BY <1>1, ErrorCloses
<1>3. breaks' \in 0..MaxBreaks
  BY BreaksCount DEF StreamBreaks, IInv
<1>4. QED
  BY <1>2, <1>3, EndingKeeps DEF StreamBreaks

LEMMA BackoffElapsesKeeps ==
  ASSUME IInv, BackoffElapses
  PROVE  IInv' /\ events' = events /\ reads' = reads
<1>1. NetOk(net) /\ net \in NetType /\ net.stream = "Backoff"
  BY DEF IInv, NetOk, BackoffElapses
<1>2. net' = [net EXCEPT !.stream = "Starting"]
  BY DEF BackoffElapses
<1>3. /\ net' \in NetType /\ net'.stream = "Starting" /\ net'.targets = net.targets
      /\ net'.idle = net.idle /\ net'.online = net.online /\ net'.failures = net.failures
      /\ net'.timer = net.timer /\ net'.trapped = net.trapped
  BY <1>1, <1>2, NetFields DEF NetType, StreamStates
<1>4. NetOk(net')
  BY <1>1, <1>3 DEF NetOk, IsOpen, IsStarted
<1>5. StreamOk(net', up', down', watched')
  BY <1>1, <1>3 DEF StreamOk, IInv, BackoffElapses, backend, IsOpen
<1>6. QED
  BY <1>3, <1>4, <1>5 DEF IInv, BackoffElapses, backend, app

LEMMA IdleTimeoutKeeps ==
  ASSUME IInv, IdleTimeout
  PROVE  IInv' /\ events' = events /\ reads' = reads
<1>1. NetOk(net') /\ net'.targets = net.targets
  BY IdleCloses DEF IInv, IdleTimeout
<1>2. agg' \in AggType /\ StreamOk(net', up', down', watched')
  BY <1>1, EndedStream DEF IdleTimeout
<1>3. QED
  BY <1>1, <1>2 DEF IInv, IdleTimeout, app

LEMMA NetworkRestartsKeeps ==
  ASSUME IInv, NetworkRestarts
  PROVE  IInv' /\ events' = events /\ reads' = reads
<1>1. NetOk(net') /\ net'.targets = net.targets
  BY RestartRestarts DEF IInv, NetworkRestarts
<1>2. agg' \in AggType /\ StreamOk(net', up', down', watched')
  BY <1>1, EndedStream DEF NetworkRestarts
<1>3. breaks' \in 0..MaxBreaks
  BY BreaksCount DEF NetworkRestarts, IInv
<1>4. QED
  BY <1>1, <1>2, <1>3 DEF IInv, NetworkRestarts, app

LEMMA OnlineStateTimeoutKeeps ==
  ASSUME IInv, OnlineStateTimeout
  PROVE  IInv' /\ Telling /\ ViewsKept
<1> DEFINE h == HardAssert(net, net.online = "Unknown")
           n == [h EXCEPT !.timer = FALSE, !.online = "Offline"]
<1>1. NetOk(net) /\ net \in NetType /\ net.timer /\ net.online = "Unknown"
  BY DEF IInv, NetOk, OnlineStateTimeout
<1>2. h = [net EXCEPT !.trapped = @ \/ ~TRUE]
  BY <1>1 DEF HardAssert
<1>3. /\ h \in NetType /\ h.targets = net.targets /\ ~h.trapped /\ h.stream = net.stream
      /\ h.online = net.online /\ h.failures = net.failures /\ h.idle = net.idle
  BY <1>1, <1>2, NetFields DEF NetType, NetOk
<1>4. Broadcast(n)
  BY DEF OnlineStateTimeout
<1> HIDE DEF h
<1>5. /\ n \in NetType /\ n.targets = net.targets /\ ~n.trapped /\ n.stream = net.stream
      /\ n.online = "Offline" /\ n.failures = net.failures /\ n.timer = FALSE
      /\ n.idle = net.idle
  BY <1>3, NetFields DEF NetType, OnlineStates
<1> HIDE DEF n
<1>6. NetOk(n)
  BY <1>1, <1>5 DEF NetOk, IsOpen, IsStarted
<1>7. net' = n /\ Telling /\ ViewsKept /\ ViewsShow(views', cached)
  BY <1>4, BroadcastTells
<1>8. StreamOk(net', up', down', watched')
  BY <1>5, <1>7 DEF StreamOk, IInv, OnlineStateTimeout, backend, IsOpen
<1>9. events' \in Seq(EventType) /\ RefersTo(events', reads)
  BY <1>7, ToldEvents
<1>10. ViewsOk(views', reads) /\ TargetsOk(net'.targets, views')
  BY <1>5, <1>7, KeptViewsOk DEF IInv, TargetsOk, ViewsKept
<1>11. QED
  BY <1>6, <1>7, <1>8, <1>9, <1>10 DEF IInv, OnlineStateTimeout, backend

LEMMA ResponseFields ==
  ASSUME NEW m \in Response
  PROVE  /\ m.change \in {"added", "removed", "refused", "current", "document", "snapshot"}
         /\ m.change # "snapshot" => m.doc \in Docs
         /\ m.change \in {"current", "document"} => m.version \in Versions
BY DEF Response

LEMMA TargetRemoved ==
  ASSUME NEW a \in AggType, NEW d \in Docs
  PROVE  LET b == RemoveTarget(a, d) IN
           /\ b \in AggType /\ b.outstanding = [a.outstanding EXCEPT ![d] = 0]
           /\ b.current = a.current \ {d} /\ b.dirty = a.dirty \ {d} /\ b.docs = a.docs
<1> DEFINE outstanding == [a.outstanding EXCEPT ![d] = 0]
           b == [a EXCEPT !.outstanding = outstanding, !.current = @ \ {d}, !.dirty = @ \ {d}]
<1>1. outstanding \in [Docs -> Int]
  BY Aggregators
<1>2. RemoveTarget(a, d) = b
  BY DEF RemoveTarget
<1> HIDE DEF outstanding
<1>3. /\ b \in AggType /\ b.outstanding = outstanding
      /\ b.current = a.current \ {d} /\ b.dirty = a.dirty \ {d} /\ b.docs = a.docs
  BY <1>1 DEF AggType
<1> HIDE DEF b
<1>4. QED
  BY <1>2, <1>3 DEF outstanding

(* What a message makes of the aggregator, field by field. *)
LEMMA TargetChanges ==
  ASSUME agg \in AggType, NEW m \in Response, m.change \notin {"snapshot", "refused"},
         HandleTargetChange(m)
  PROVE  LET d == m.doc
             left == [agg.outstanding EXCEPT ![d] = @ - 1]
         IN /\ d \in Docs /\ agg' \in AggType
            /\ \/ /\ m.change = "added"
                  /\ agg'.outstanding = left /\ agg'.current = agg.current
                  /\ agg'.docs = agg.docs
                  /\ agg'.dirty = IF left[d] = 0 THEN agg.dirty \ {d} ELSE agg.dirty
               \/ /\ m.change = "removed"
                  /\ agg'.outstanding = left /\ agg'.docs = agg.docs
                  /\ agg'.current = IF left[d] = 0 THEN agg.current \ {d} ELSE agg.current
                  /\ agg'.dirty = IF left[d] = 0 THEN agg.dirty \ {d} ELSE agg.dirty
               \/ /\ m.change \in {"current", "document"} /\ ~IsActiveTarget(d)
                  /\ agg' = agg
               \/ /\ m.change \in {"current", "document"} /\ IsActiveTarget(d)
                  /\ agg'.outstanding = agg.outstanding
                  /\ agg'.current = IF m.change = "current" THEN agg.current \cup {d}
                                    ELSE agg.current
                  /\ agg'.dirty = agg.dirty \cup {d}
                  /\ agg'.docs = [agg.docs EXCEPT ![d] = m.version]
<1> DEFINE d == m.doc
           left == agg.outstanding[d] - 1
           outstanding == [agg.outstanding EXCEPT ![d] = @ - 1]
           counted == [agg EXCEPT !.outstanding = outstanding]
<1>1. d \in Docs /\ outstanding \in [Docs -> Int] /\ outstanding[d] = left
  BY ResponseFields, Aggregators
<1>2. /\ counted \in AggType /\ counted.outstanding = outstanding
      /\ counted.current = agg.current /\ counted.dirty = agg.dirty /\ counted.docs = agg.docs
  <2> HIDE DEF outstanding
  <2>1. QED
    BY <1>1 DEF AggType
<1>3. [agg EXCEPT !.outstanding[d] = left] = counted
  OBVIOUS
<1>4. \/ /\ m.change = "added"
         /\ agg' = IF left = 0 THEN [counted EXCEPT !.dirty = @ \ {d}] ELSE counted
      \/ /\ m.change = "removed"
         /\ agg' = IF left = 0 THEN RemoveTarget(counted, d) ELSE counted
      \/ /\ m.change \in {"current", "document"}
         /\ ~IsActiveTarget(d)
         /\ UNCHANGED agg
      \/ /\ m.change \in {"current", "document"}
         /\ IsActiveTarget(d)
         /\ agg' = [agg EXCEPT !.current = IF m.change = "current" THEN @ \cup {d} ELSE @,
                               !.dirty = @ \cup {d},
                               !.docs[d] = m.version]
  BY <1>3 DEF HandleTargetChange
<1> HIDE DEF counted, left, outstanding
<1>5. CASE m.change = "added" /\ agg' = IF left = 0 THEN [counted EXCEPT !.dirty = @ \ {d}] ELSE counted
  <2> DEFINE c == [counted EXCEPT !.dirty = @ \ {d}]
  <2>1. /\ c \in AggType /\ c.outstanding = outstanding /\ c.current = agg.current
        /\ c.dirty = agg.dirty \ {d} /\ c.docs = agg.docs
    BY <1>2 DEF AggType
  <2>2. agg' = IF left = 0 THEN c ELSE counted
    BY <1>5
  <2> HIDE DEF c
  <2>3. QED
    BY <1>1, <1>2, <1>5, <2>1, <2>2 DEF outstanding
<1>6. CASE m.change = "removed" /\ agg' = IF left = 0 THEN RemoveTarget(counted, d) ELSE counted
  <2> DEFINE b == RemoveTarget(counted, d)
  <2>1. /\ b \in AggType /\ b.outstanding = [counted.outstanding EXCEPT ![d] = 0]
        /\ b.current = counted.current \ {d} /\ b.dirty = counted.dirty \ {d}
        /\ b.docs = counted.docs
    BY <1>1, <1>2, TargetRemoved
  <2>2. left = 0 => [counted.outstanding EXCEPT ![d] = 0] = outstanding
    BY <1>1, <1>2
  <2> HIDE DEF b
  <2>3. agg' = IF left = 0 THEN b ELSE counted
    BY <1>6 DEF b
  <2>4. QED
    BY <1>1, <1>2, <1>6, <2>1, <2>2, <2>3 DEF outstanding
<1>7. CASE m.change \in {"current", "document"} /\ ~IsActiveTarget(d) /\ UNCHANGED agg
  BY <1>1, <1>7
<1>8. CASE /\ m.change \in {"current", "document"}
           /\ IsActiveTarget(d)
           /\ agg' = [agg EXCEPT !.current = IF m.change = "current" THEN @ \cup {d} ELSE @,
                                 !.dirty = @ \cup {d},
                                 !.docs[d] = m.version]
  <2> DEFINE docs == [agg.docs EXCEPT ![d] = m.version]
             current == IF m.change = "current" THEN agg.current \cup {d} ELSE agg.current
             dirty == agg.dirty \cup {d}
             c == [agg EXCEPT !.current = current, !.dirty = dirty, !.docs = docs]
  <2>1. m.version \in Versions
    BY <1>8, ResponseFields
  <2>2. docs \in [Docs -> Versions] /\ current \subseteq Docs /\ dirty \subseteq Docs
    BY <1>1, <2>1, Aggregators
  <2>3. agg' = c
    BY <1>8
  <2> HIDE DEF docs, current, dirty
  <2>4. /\ c \in AggType /\ c.outstanding = agg.outstanding /\ c.current = current
        /\ c.dirty = dirty /\ c.docs = docs
    BY <2>2 DEF AggType
  <2> HIDE DEF c
  <2>5. /\ agg' \in AggType /\ agg'.outstanding = agg.outstanding /\ agg'.current = current
        /\ agg'.dirty = dirty /\ agg'.docs = docs
    BY <2>3, <2>4
  <2>6. QED
    BY <1>1, <1>8, <2>5 DEF docs, current, dirty
<1>9. QED
  BY <1>4, <1>5, <1>6, <1>7, <1>8

LEMMA SnapshotTells ==
  ASSUME IInv, RaiseWatchSnapshot
  PROVE  /\ Telling /\ ViewsKept /\ ViewsShow(views', cached') /\ agg' \in AggType
         /\ cached' \in [Docs -> Versions] /\ \A d \in Docs : cached'[d] >= cached[d]
<1> DEFINE touched == {d \in {t \in Docs : IsActiveTarget(t)} :
                         \/ d \in agg.dirty
                         \/ (d \in agg.current /\ agg.docs[d] = 0 /\ views[d].version = 0)}
           newer(d)   == IF agg.docs[d] > cached[d] THEN agg.docs[d] ELSE cached[d]
           current(d) == IF d \in touched THEN d \in agg.current ELSE views[d].current
           told(d) == IF ~HasView(d) THEN {}
                      ELSE IF newer(d) = views[d].version /\ current(d) = views[d].current THEN {}
                      ELSE IF current(d) THEN views[d].listeners ELSE views[d].raised
           toRead == UNION {told(d) : d \in Docs}
           said == [r \in toRead |-> Snapshot(newer(reads[r].doc), ~current(reads[r].doc))]
<1>1. /\ cached' = [d \in Docs |-> newer(d)]
      /\ views' = [d \in Docs |->
           IF ~HasView(d) THEN NoView
           ELSE [views[d] EXCEPT !.version = newer(d), !.current = current(d),
                                 !.raised = @ \cup told(d)]]
      /\ Tell(toRead, said)
      /\ agg' = [agg EXCEPT !.dirty = {d \in @ : ~IsActiveTarget(d)},
                            !.docs = [d \in Docs |-> 0]]
  BY DEF RaiseWatchSnapshot
<1>2. \A d \in Docs : HasView(d) => views[d] \in View
  BY DEF HasView, IInv, ViewsOk
<1>3. \A d \in Docs : told(d) \subseteq views[d].listeners
  BY <1>2, ViewFields
<1>4. \A d \in Docs : HasView(d) => current(d) \in BOOLEAN
  <2>1. \A d \in Docs : HasView(d) => views[d].current \in BOOLEAN
    BY <1>2, ViewFields
  <2>2. \A d \in Docs : (d \in agg.current) \in BOOLEAN
    OBVIOUS
  <2> HIDE DEF touched
  <2>3. QED
    BY <2>1, <2>2
<1>5. agg \in AggType /\ cached \in [Docs -> Versions]
  BY DEF IInv
<1>6. \A d \in Docs : newer(d) \in Versions /\ newer(d) >= cached[d]
  BY <1>5, VersionsAreNat, Aggregators
<1> HIDE DEF touched, newer, current, told
<1>7. \A r \in toRead : \E d \in Docs : r \in views[d].listeners /\ r \in told(d)
  BY <1>3
<1> HIDE DEF toRead
<1>8. \A r \in toRead : /\ r \in DOMAIN reads /\ r \in Reads /\ reads[r].doc \in Docs
                        /\ r \in views[reads[r].doc].listeners
                        /\ HasView(reads[r].doc) /\ r \in told(reads[r].doc)
  BY <1>7, ListenersRead DEF HasView
<1>9. \A r \in toRead : said[r] \in Outcome
  BY <1>4, <1>6, <1>8, OutcomesAre
<1>10. \A r \in toRead : said[r] = Snapshot(newer(reads[r].doc), ~current(reads[r].doc))
  OBVIOUS
<1> HIDE DEF said
<1>11. Tells(events, events', toRead, said)
  BY <1>1, <1>8, <1>9, TellTells DEF IInv
<1>12. ASSUME NEW d \in Docs, HasView(d)
       PROVE  /\ views'[d] \in View /\ views'[d] # NoView /\ views'[d].by = views[d].by
              /\ views'[d].listeners = views[d].listeners
              /\ views'[d].version = newer(d) /\ views'[d].current = current(d)
              /\ views'[d].raised = views[d].raised \cup told(d)
  <2> DEFINE raised == views[d].raised \cup told(d)
  <2>1. views[d] \in View /\ raised \subseteq views[d].listeners
    BY <1>2, <1>3, <1>12, ViewFields
  <2>2. views'[d] = [views[d] EXCEPT !.version = newer(d), !.current = current(d),
                                     !.raised = raised]
    BY <1>1, <1>12
  <2> HIDE DEF raised
  <2>3. newer(d) \in Versions /\ current(d) \in BOOLEAN
    BY <1>4, <1>6, <1>12
  <2>4. QED
    BY <2>1, <2>2, <2>3, ViewFields DEF View, raised
<1>13. \A d \in Docs : ~HasView(d) => views'[d] = NoView
  BY <1>1
<1>14. ViewsKept
  <2>1. views' \in [Docs -> View \cup {NoView}]
    BY <1>1, <1>12, <1>13
  <2>2. QED
    BY <1>12, <1>13, <2>1 DEF ViewsKept, Stays, HasView
<1>15. cached' \in [Docs -> Versions] /\ \A d \in Docs : cached'[d] >= cached[d]
  BY <1>1, <1>6
<1>16. ViewsShow(views', cached')
  BY <1>1, <1>12, <1>13 DEF ViewsShow, HasView
<1>17. TellsViews(toRead, said)
  <2>1. ASSUME NEW r \in toRead
        PROVE  /\ said[r] = Snapshot(views'[reads[r].doc].version, ~views'[reads[r].doc].current)
               /\ r \in views'[reads[r].doc].listeners
               /\ r \in views'[reads[r].doc].raised
    BY <1>8, <1>10, <1>12
  <2>2. QED
    BY <2>1 DEF TellsViews
<1>18. agg' \in AggType
  BY <1>1, <1>5, VersionsAreNat DEF AggType
<1>19. QED
  BY <1>8, <1>11, <1>14, <1>15, <1>16, <1>17, <1>18 DEF Telling

LEMMA OnlineKeeps ==
  ASSUME NEW n, NetOk(n), IsOpen(n), NEW targets, targets \subseteq n.targets,
         targets = n.targets \/ ~n.idle,
         NEW m, m = UpdateState([n EXCEPT !.targets = targets], "Online")
  PROVE  NetOk(m) /\ m.targets = targets /\ IsOpen(m)
<1> DEFINE c == [n EXCEPT !.targets = targets]
<1>1. n \in NetType /\ IsFiniteSet(targets)
  BY FS_Subset DEF NetOk
<1>2. /\ c \in NetType /\ c.targets = targets /\ c.stream = n.stream /\ c.idle = n.idle
      /\ c.trapped = n.trapped
  BY <1>1, NetFields DEF NetType
<1> HIDE DEF c
<1>3. /\ m \in NetType /\ m.online = "Online" /\ m.failures = 0 /\ m.timer = FALSE
      /\ m.targets = c.targets /\ m.stream = c.stream /\ m.idle = c.idle
      /\ m.trapped = c.trapped
  BY <1>2, StateUpdated DEF c, OnlineStates
<1>4. n.idle => n.targets = {}
  BY DEF NetOk
<1>5. QED
  BY <1>1, <1>2, <1>3, <1>4 DEF NetOk, IsOpen, IsStarted

LEMMA RefusalTells ==
  ASSUME IInv, IsOpen(net), NEW m \in Response, m.change = "refused", ProcessTargetError(m)
  PROVE  /\ NetOk(net') /\ IsOpen(net') /\ TargetsOk(net'.targets, views')
         /\ ViewsOk(views', reads) /\ ViewsShow(views', cached)
         /\ agg' \in AggType /\ Telling
         /\ \A e \in Docs : views'[e] = NoView \/ (HasView(e) /\ Stays(e))
<1> DEFINE d == m.doc
<1>1. d \in Docs
  BY ResponseFields
<1>2. /\ NetOk(net) /\ net \in NetType /\ ViewsOk(views, reads) /\ TargetsOk(net.targets, views)
      /\ ViewsShow(views, cached) /\ agg \in AggType
  BY DEF IInv, NetOk
<1>3. CASE d \notin net.targets
  <2>1. /\ net' = UpdateState(net, "Online")
        /\ UNCHANGED <<views, events, agg>>
    BY <1>3 DEF ProcessTargetError
  <2>2. [net EXCEPT !.targets = net.targets] = net
    BY <1>2 DEF NetType
  <2>3. NetOk(net') /\ net'.targets = net.targets /\ IsOpen(net')
    BY <1>2, <2>1, <2>2, OnlineKeeps
  <2>4. QED
    BY <1>2, <2>1, <2>3, NothingTold DEF Stays, HasView
<1>4. CASE d \in net.targets
  <2> DEFINE toRead == views[d].listeners
             said == [r \in toRead |-> Failure]
             targets == net.targets \ {d}
  <2>1. /\ net' = UpdateState([net EXCEPT !.targets = targets], "Online")
        /\ agg' = RemoveTarget(agg, d)
        /\ views' = [views EXCEPT ![d] = NoView]
        /\ Tell(toRead, said)
    BY <1>4 DEF ProcessTargetError
  <2>2. targets \subseteq net.targets /\ ~net.idle
    BY <1>2, <1>4 DEF NetOk
  <2> HIDE DEF targets
  <2>3. NetOk(net') /\ net'.targets = targets /\ IsOpen(net')
    BY <1>2, <2>1, <2>2, OnlineKeeps
  <2>4. /\ ViewsOk(views', reads) /\ views'[d] = NoView
        /\ \A e \in Docs : e # d => views'[e] = views[e]
    BY <1>1, <1>2, <2>1, OneViewGone
  <2>5. TargetsOk(net'.targets, views')
    BY <1>2, <2>3, <2>4 DEF TargetsOk, targets
  <2>6. ViewsShow(views', cached)
    BY <1>2, <2>4 DEF ViewsShow
  <2>7. agg' \in AggType
    BY <1>1, <1>2, <2>1, TargetRemoved
  <2>8. \A r \in toRead : /\ r \in DOMAIN reads /\ r \in Reads /\ reads[r].doc = d
                          /\ said[r] = Failure /\ said[r] \in Outcome
    BY <1>1, ListenersRead, OutcomesAre
  <2> HIDE DEF said
  <2>9. Tells(events, events', toRead, said)
    BY <2>1, <2>8, TellTells DEF IInv
  <2>10. TellsViews(toRead, said)
    BY <2>4, <2>8 DEF TellsViews
  <2>11. toRead \in SUBSET DOMAIN reads
    BY <2>8
  <2>12. Telling
    BY <2>9, <2>10, <2>11 DEF Telling
  <2>13. \A e \in Docs : views'[e] = NoView \/ (HasView(e) /\ Stays(e))
    BY <2>4 DEF Stays, HasView
  <2>14. QED
    BY <2>3, <2>4, <2>5, <2>6, <2>7, <2>12, <2>13
<1>5. QED
  BY <1>3, <1>4

LEMMA OnWatchStreamChangeKeeps ==
  ASSUME IInv, OnWatchStreamChange
  PROVE  /\ IInv' /\ Telling /\ reads' = reads
         /\ \A d \in Docs : cached'[d] >= cached[d]
         /\ \A d \in Docs : views'[d] = NoView \/ (HasView(d) /\ Stays(d))
<1> DEFINE m == Head(down)
<1>1. /\ NetOk(net) /\ net \in NetType /\ IsOpen(net) /\ down \in Seq(Response)
      /\ m \in Response /\ Tail(down) \in Seq(Response)
      /\ agg \in AggType /\ cached \in [Docs -> Versions]
  BY DEF OnWatchStreamChange, IInv, StreamOk, NetOk
<1>2. /\ down' = Tail(down)
      /\ UNCHANGED <<reads, muted, answers, ops, up, watched, held, breaks, refusals>>
      /\ \/ /\ m.change = "snapshot"
            /\ net' = UpdateState(net, "Online")
            /\ RaiseWatchSnapshot
         \/ /\ m.change = "refused"
            /\ ProcessTargetError(m)
            /\ UNCHANGED cached
         \/ /\ m.change \notin {"snapshot", "refused"}
            /\ net' = UpdateState(net, "Online")
            /\ HandleTargetChange(m)
            /\ UNCHANGED <<views, events, cached>>
  BY DEF OnWatchStreamChange, backend
<1> HIDE DEF m
<1>3. net' = UpdateState(net, "Online") =>
        NetOk(net') /\ net'.targets = net.targets /\ IsOpen(net')
  <2>1. [net EXCEPT !.targets = net.targets] = net
    BY <1>1 DEF NetType
  <2>2. QED
    BY <1>1, <2>1, OnlineKeeps
<1>4. \A d \in Docs : cached[d] >= cached[d]
  <2>1. \A d \in Docs : cached[d] \in Nat
    BY <1>1, VersionsAreNat
  <2>2. QED
    BY <2>1
<1>5. /\ NetOk(net') /\ IsOpen(net') /\ TargetsOk(net'.targets, views')
      /\ ViewsOk(views', reads) /\ ViewsShow(views', cached') /\ agg' \in AggType
      /\ cached' \in [Docs -> Versions] /\ Telling
      /\ \A d \in Docs : cached'[d] >= cached[d]
      /\ \A d \in Docs : views'[d] = NoView \/ (HasView(d) /\ Stays(d))
  <2>1. CASE m.change = "snapshot"
    <3>1. net' = UpdateState(net, "Online") /\ RaiseWatchSnapshot
      BY <1>2, <2>1
    <3>2. /\ Telling /\ ViewsKept /\ ViewsShow(views', cached') /\ agg' \in AggType
          /\ cached' \in [Docs -> Versions] /\ \A d \in Docs : cached'[d] >= cached[d]
      BY <3>1, SnapshotTells
    <3>3. ViewsOk(views', reads)
      BY <3>2, KeptViewsOk DEF IInv
    <3>4. TargetsOk(net'.targets, views')
      BY <1>3, <3>1, <3>2 DEF TargetsOk, IInv, ViewsKept
    <3>5. \A d \in Docs : views'[d] = NoView \/ (HasView(d) /\ Stays(d))
      BY <3>2 DEF ViewsKept, HasView
    <3>6. QED
      BY <1>3, <3>1, <3>2, <3>3, <3>4, <3>5
  <2>2. CASE m.change = "refused"
    <3>1. ProcessTargetError(m) /\ cached' = cached
      BY <1>2, <2>2
    <3>2. \A d \in Docs : cached'[d] >= cached[d]
      BY <1>4, <3>1
    <3>3. QED
      BY <1>1, <2>2, <3>1, <3>2, RefusalTells
  <2>3. CASE m.change \notin {"snapshot", "refused"}
    <3>1. /\ net' = UpdateState(net, "Online") /\ HandleTargetChange(m)
          /\ views' = views /\ events' = events /\ cached' = cached
      BY <1>2, <2>3
    <3>2. \A d \in Docs : cached'[d] >= cached[d]
      BY <1>4, <3>1
    <3>3. agg' \in AggType
      BY <1>1, <2>3, <3>1, TargetChanges
    <3>4. QED
      BY <1>3, <3>1, <3>2, <3>3, NothingTold DEF IInv, Stays, HasView
  <2>4. QED
    BY <2>1, <2>2, <2>3
<1>6. events' \in Seq(EventType) /\ RefersTo(events', reads)
  BY <1>5, ToldEvents
<1>7. StreamOk(net', up', down', watched')
  BY <1>1, <1>2, <1>5 DEF StreamOk, IInv
<1>8. IInv'
  BY <1>2, <1>5, <1>6, <1>7 DEF IInv
<1>9. QED
  BY <1>2, <1>5, <1>8

LEMMA SeveralResponses ==
  ASSUME down \in Seq(Response), NEW m \in Response, NEW p \in Response, NEW q \in Response
  PROVE  /\ down \o <<m, p, q>> \in Seq(Response) /\ down \o <<m, q>> \in Seq(Response)
         /\ Append(down, m) \in Seq(Response)
OBVIOUS

LEMMA PoppedRequest ==
  ASSUME IInv, up # <<>>
  PROVE  /\ IsOpen(net) /\ Head(up) \in Request /\ Head(up).doc \in Docs
         /\ Tail(up) \in Seq(Request) /\ down \in Seq(Response) /\ watched \subseteq Docs
         /\ held \in [Docs -> Versions]
<1>1. /\ up \in Seq(Request) /\ down \in Seq(Response) /\ watched \subseteq Docs /\ IsOpen(net)
      /\ held \in [Docs -> Versions]
  BY DEF IInv, StreamOk
<1>2. Head(up) \in Request /\ Tail(up) \in Seq(Request)
  BY <1>1
<1>3. Head(up).doc \in Docs
  BY <1>2 DEF Request
<1>4. QED
  BY <1>1, <1>2, <1>3

LEMMA BackendAddsKeeps ==
  ASSUME IInv, BackendAdds
  PROVE  IInv' /\ events' = events /\ reads' = reads
<1> DEFINE d == Head(up).doc
           batch == <<[change |-> "added", doc |-> d],
                      [change |-> "current", doc |-> d, version |-> held[d]],
                      [change |-> "snapshot"]>>
<1>1. /\ watched' = watched \cup {d} /\ down' = down \o batch /\ up' = Tail(up) /\ up # <<>>
      /\ UNCHANGED <<app, ops, views, cached, net, agg, held, breaks, refusals>>
  BY DEF BackendAdds
<1>2. /\ IsOpen(net) /\ d \in Docs /\ Tail(up) \in Seq(Request) /\ down \in Seq(Response)
      /\ watched \subseteq Docs /\ held[d] \in Versions
  BY <1>1, PoppedRequest
<1>3. down' \in Seq(Response)
  <2>1. /\ [change |-> "added", doc |-> d] \in Response
        /\ [change |-> "current", doc |-> d, version |-> held[d]] \in Response
        /\ [change |-> "snapshot"] \in Response
    BY <1>2 DEF Response
  <2>2. QED
    BY <1>1, <1>2, <2>1, SeveralResponses
<1>4. StreamOk(net', up', down', watched')
  <2>1. net' = net /\ watched' \subseteq Docs /\ up' \in Seq(Request) /\ down' \in Seq(Response)
    BY <1>1, <1>2, <1>3
  <2>2. QED
    BY <1>2, <2>1 DEF StreamOk
<1>5. QED
  BY <1>1, <1>4 DEF IInv, app

LEMMA BackendRefusesKeeps ==
  ASSUME IInv, BackendRefuses
  PROVE  IInv' /\ events' = events /\ reads' = reads
<1> DEFINE d == Head(up).doc
<1>1. /\ down' = Append(down, [change |-> "refused", doc |-> d]) /\ up' = Tail(up) /\ up # <<>>
      /\ refusals < MaxRefusals /\ refusals' = refusals + 1
      /\ UNCHANGED <<app, ops, views, cached, net, agg, watched, held, breaks>>
  BY DEF BackendRefuses, backend
<1>2. /\ IsOpen(net) /\ d \in Docs /\ Tail(up) \in Seq(Request) /\ down \in Seq(Response)
      /\ watched \subseteq Docs /\ held[d] \in Versions
  BY <1>1, PoppedRequest
<1>3. down' \in Seq(Response)
  <2>1. [change |-> "refused", doc |-> d] \in Response
    BY <1>2 DEF Response
  <2>2. QED
    BY <1>1, <1>2, <2>1
<1>4. StreamOk(net', up', down', watched')
  <2>1. net' = net /\ watched' \subseteq Docs /\ up' \in Seq(Request) /\ down' \in Seq(Response)
    BY <1>1, <1>2, <1>3
  <2>2. QED
    BY <1>2, <2>1 DEF StreamOk
<1>5. refusals' \in 0..MaxRefusals
  BY <1>1, ReadBounds DEF IInv
<1>6. QED
  BY <1>1, <1>4, <1>5 DEF IInv, app

LEMMA BackendRemovesKeeps ==
  ASSUME IInv, BackendRemoves
  PROVE  IInv' /\ events' = events /\ reads' = reads
<1> DEFINE d == Head(up).doc
<1>1. /\ down' = Append(down, [change |-> "removed", doc |-> d]) /\ up' = Tail(up) /\ up # <<>>
      /\ watched' = watched \ {d}
      /\ UNCHANGED <<app, ops, views, cached, net, agg, held, breaks, refusals>>
  BY DEF BackendRemoves
<1>2. /\ IsOpen(net) /\ d \in Docs /\ Tail(up) \in Seq(Request) /\ down \in Seq(Response)
      /\ watched \subseteq Docs /\ held[d] \in Versions
  BY <1>1, PoppedRequest
<1>3. down' \in Seq(Response)
  <2>1. [change |-> "removed", doc |-> d] \in Response
    BY <1>2 DEF Response
  <2>2. QED
    BY <1>1, <1>2, <2>1
<1>4. StreamOk(net', up', down', watched')
  <2>1. net' = net /\ watched' \subseteq Docs /\ up' \in Seq(Request) /\ down' \in Seq(Response)
    BY <1>1, <1>2, <1>3
  <2>2. QED
    BY <1>2, <2>1 DEF StreamOk
<1>5. QED
  BY <1>1, <1>4 DEF IInv, app

LEMMA DocumentChangesKeeps ==
  ASSUME IInv, NEW d \in Docs, DocumentChanges(d)
  PROVE  IInv' /\ events' = events /\ reads' = reads
<1> DEFINE batch == <<[change |-> "document", doc |-> d, version |-> held[d] + 1],
                      [change |-> "snapshot"]>>
<1>1. /\ held[d] < MaxVersion /\ held' = [held EXCEPT ![d] = @ + 1]
      /\ down' = IF d \notin watched THEN down ELSE down \o batch
      /\ UNCHANGED <<app, ops, views, cached, net, agg, up, watched, breaks, refusals>>
  BY DEF DocumentChanges
<1>2. /\ down \in Seq(Response) /\ held \in [Docs -> Versions] /\ held[d] \in Versions
      /\ StreamOk(net, up, down, watched)
  BY DEF IInv, StreamOk
<1>3. held[d] + 1 \in Versions
  BY <1>1, <1>2, ReadBounds DEF Versions
<1>4. down \o batch \in Seq(Response)
  <2>1. /\ [change |-> "document", doc |-> d, version |-> held[d] + 1] \in Response
        /\ [change |-> "snapshot"] \in Response
    BY <1>3 DEF Response
  <2>2. QED
    BY <1>2, <2>1, SeveralResponses
<1> HIDE DEF batch
<1>5. down' \in Seq(Response) /\ held' \in [Docs -> Versions]
  BY <1>1, <1>2, <1>3, <1>4
<1>6. StreamOk(net', up', down', watched')
  <2>1. net' = net /\ watched' = watched /\ up' = up
    BY <1>1
  <2>2. ~IsOpen(net) => down' = <<>>
    BY <1>1, <1>2 DEF StreamOk
  <2>3. QED
    BY <1>2, <1>5, <2>1, <2>2 DEF StreamOk
<1>7. QED
  BY <1>1, <1>5, <1>6 DEF IInv, app

LEMMA NextKeepsIInv ==
  ASSUME IInv, [Next]_vars
  PROVE  IInv'
<1>1. CASE Next
  BY <1>1, GetDocumentKeeps, DocumentChangesKeeps, RunEventKeeps, AddQueryListenerKeeps,
     RemoveQueryListenerKeeps, StreamOpensKeeps, StreamDoesNotOpenKeeps, StreamBreaksKeeps,
     BackoffElapsesKeeps, IdleTimeoutKeeps, NetworkRestartsKeeps, OnlineStateTimeoutKeeps,
     OnWatchStreamChangeKeeps, BackendAddsKeeps, BackendRefusesKeeps, BackendRemovesKeeps
  DEF Next
<1>2. CASE UNCHANGED vars
  BY <1>2 DEF vars, app, backend, IInv, ReadsOk, StreamOk, ViewsOk, TargetsOk, ViewsShow,
              RefersTo, NetOk, IsOpen, IsStarted
<1>3. QED
  BY <1>1, <1>2

LEMMA IInvAlways == Spec => []IInv
<1>1. IInv /\ [Next]_vars => IInv'
  BY NextKeepsIInv
<1>2. QED
  BY FirstState, <1>1, PTL DEF Spec

(* No HARD_ASSERT of the watch stream's online state (online_state_tracker *)
(* .cc), of StopListening or of the idle timer ever fails, in any order of *)
(* reads, answers, broken streams, restarts and refusals.                  *)
THEOREM StatesLegal == Spec => []StatesAreLegal
<1>1. IInv => StatesAreLegal
  BY InvIsLegal
<1>2. QED
  BY IInvAlways, <1>1, PTL

--------------------------------------------------------------------------------
(* AnsweredAtMostOnce *)

Hears(vs, r) == \E d \in Docs : r \in vs[d].listeners
Silent(queue, r) == \A i \in DOMAIN queue : queue[i].read # r

(* A read whose listener is still to come. *)
New(given, dumb, vs, queue, r) ==
  given[r] = <<>> /\ r \notin dumb /\ ~Hears(vs, r) /\ Silent(queue, r)

ListensAreNew ==
  \A i \in DOMAIN ops : ops[i].op = "listen" =>
    /\ New(answers, muted, views, events, ops[i].read)
    /\ \A j \in DOMAIN ops : ops[j].op = "listen" /\ ops[j].read = ops[i].read => j = i

(* After an error the listener is gone, and hears nothing more. *)
ErrorsAreLast ==
  \A i \in DOMAIN events : events[i].outcome.kind = "error" =>
    /\ ~Hears(views, events[i].read)
    /\ \A j \in DOMAIN events : events[j].read = events[i].read => j <= i

(* A read that was answered and is not muted was answered with an error. *)
AnsweredIsDone ==
  \A r \in Reads : answers[r] # <<>> /\ r \notin muted => ~Hears(views, r) /\ Silent(events, r)

(* The removal of the listener of an answered read is on its way. *)
MutedAreRemoved ==
  \A r \in muted : Hears(views, r) => \E i \in DOMAIN ops : ops[i] = [op |-> "remove", read |-> r]

AInv ==
  /\ ListensAreNew
  /\ \A r \in Reads : r \notin DOMAIN reads => New(answers, muted, views, events, r)
  /\ ErrorsAreLast
  /\ AnsweredIsDone
  /\ AnsweredAtMostOnce
  /\ MutedAreRemoved

LEMMA TailIndices ==
  ASSUME NEW S, NEW queue \in Seq(S), queue # <<>>
  PROVE  /\ 1 \in DOMAIN queue /\ Head(queue) = queue[1]
         /\ \A i \in DOMAIN Tail(queue) : i + 1 \in DOMAIN queue /\ i + 1 # 1
                                           /\ Tail(queue)[i] = queue[i + 1] /\ i \in Nat
         /\ \A i \in DOMAIN queue : i # 1 =>
              i - 1 \in DOMAIN Tail(queue) /\ Tail(queue)[i - 1] = queue[i]
<1>1. /\ Len(queue) \in Nat /\ DOMAIN queue = 1..Len(queue)
      /\ 1 \in DOMAIN queue /\ Head(queue) = queue[1]
      /\ DOMAIN Tail(queue) = 1..(Len(queue) - 1)
      /\ \A i \in DOMAIN Tail(queue) :
           i + 1 \in DOMAIN queue /\ Tail(queue)[i] = queue[i + 1]
  BY TailAndAppend
<1>2. \A i \in DOMAIN queue : i # 1 => i - 1 \in DOMAIN Tail(queue) /\ i = (i - 1) + 1
  BY <1>1
<1>3. QED
  BY <1>1, <1>2

LEMMA FirstAInv == Init => AInv
<1> SUFFICES ASSUME Init
             PROVE  AInv
  OBVIOUS
<1>1. /\ ops = <<>> /\ events = <<>> /\ muted = {} /\ \A r \in Reads : answers[r] = <<>>
      /\ \A d \in Docs : views[d] = NoView
  BY DEF Init
<1>2. \A r : ~Hears(views, r)
  BY <1>1, ViewFields DEF Hears
<1>3. \A r \in Reads : New(answers, muted, views, events, r)
  BY <1>1, <1>2 DEF New, Silent
<1>4. QED
  BY <1>1, <1>2, <1>3
  DEF AInv, ListensAreNew, ErrorsAreLast, AnsweredIsDone, AnsweredAtMostOnce, MutedAreRemoved

LEMMA EventFields ==
  ASSUME IInv
  PROVE  \A i \in DOMAIN events :
           /\ events[i].read \in DOMAIN reads /\ events[i].read \in Reads
           /\ events[i].outcome \in Outcome /\ events[i] \in EventType
<1>1. \A i \in DOMAIN events : events[i] \in EventType /\ events[i].read \in DOMAIN reads
  BY DEF IInv, RefersTo
<1>2. QED
  BY <1>1 DEF EventType

(* Who is told is a listener, before the step or after it; with an error,  *)
(* before it only.                                                         *)
LEMMA ToldAreListeners ==
  ASSUME IInv, IInv', SameReads, Telling
  PROVE  \E toRead \in SUBSET DOMAIN reads : \E said :
           /\ Tells(events, events', toRead, said)
           /\ \A r \in toRead : Hears(views, r) \/ Hears(views', r)
           /\ \A r \in toRead : said[r].kind = "error" => ~Hears(views', r)
<1>1. PICK toRead \in SUBSET DOMAIN reads : \E said :
        Tells(events, events', toRead, said) /\ TellsViews(toRead, said)
  BY DEF Telling
<1>2. PICK said : Tells(events, events', toRead, said) /\ TellsViews(toRead, said)
  BY <1>1
<1>3. ASSUME NEW r \in toRead
      PROVE  /\ Hears(views, r) \/ Hears(views', r)
             /\ said[r].kind = "error" => ~Hears(views', r)
  <2> DEFINE d == reads[r].doc
  <2>1. d \in Docs
    <3>1. reads \in Seq(ReadRecord) /\ r \in DOMAIN reads
      BY DEF IInv, ReadsOk
    <3>2. reads[r] \in ReadRecord
      BY <3>1
    <3>3. QED
      BY <3>2 DEF ReadRecord
  <2>2. CASE said[r] = Failure /\ r \in views[d].listeners /\ views'[d] = NoView
    <3>1. Hears(views, r)
      BY <2>1, <2>2 DEF Hears
    <3>2. ASSUME NEW e \in Docs, r \in views'[e].listeners
          PROVE  FALSE
      <4>1. reads'[r].doc = e
        BY <3>2 DEF IInv, ViewsOk
      <4>2. e = d
        BY <4>1 DEF SameReads
      <4>3. QED
        BY <2>2, <3>2, <4>2, ViewFields
    <3>3. ~Hears(views', r)
      BY <3>2 DEF Hears
    <3>4. QED
      BY <3>1, <3>3
  <2>3. CASE said[r] = Snapshot(views'[d].version, ~views'[d].current) /\ r \in views'[d].listeners
    <3>1. Hears(views', r)
      BY <2>1, <2>3 DEF Hears
    <3>2. said[r].kind # "error"
      BY <2>3 DEF Snapshot
    <3>3. QED
      BY <3>1, <3>2
  <2>4. QED
    BY <1>2, <2>2, <2>3 DEF TellsViews
<1>4. QED
  BY <1>2, <1>3

(* A handler of the worker queue, or a step of the stream, that makes "new" *)
(* a listener, or nobody (0).                                              *)
LEMMA WorkerKeepsAInv ==
  ASSUME IInv, IInv', AInv, SameReads, Telling, UNCHANGED <<muted, answers>>,
         NEW new \in DOMAIN reads \cup {0},
         \A r : Hears(views', r) => Hears(views, r) \/ (r = new /\ new # 0 /\ New(answers, muted, views, events, new)),
         \/ ops' = ops /\ new = 0
         \/ /\ ops # <<>> /\ ops' = Tail(ops)
            /\ \/ Head(ops).op = "listen" /\ new = Head(ops).read
               \/ Head(ops).op = "remove" /\ new = 0 /\ ~Hears(views', Head(ops).read)
  PROVE  AInv'
<1>1. PICK toRead \in SUBSET DOMAIN reads : \E said :
        /\ Tells(events, events', toRead, said)
        /\ \A r \in toRead : Hears(views, r) \/ Hears(views', r)
        /\ \A r \in toRead : said[r].kind = "error" => ~Hears(views', r)
  BY ToldAreListeners
<1>2. PICK said :
        /\ Tells(events, events', toRead, said)
        /\ \A r \in toRead : Hears(views, r) \/ Hears(views', r)
        /\ \A r \in toRead : said[r].kind = "error" => ~Hears(views', r)
  BY <1>1
<1>3. /\ \A i \in DOMAIN events' :
           \/ i \in DOMAIN events /\ i <= Len(events) /\ events'[i] = events[i]
           \/ /\ i > Len(events) /\ events'[i].read \in toRead
              /\ events'[i].outcome = said[events'[i].read]
      /\ \A i, j \in DOMAIN events' : i > Len(events) /\ j > Len(events) /\ i # j =>
           events'[i].read # events'[j].read
      /\ Len(events) \in Nat /\ DOMAIN events \subseteq Nat /\ DOMAIN events' \subseteq Nat
      /\ \A i \in DOMAIN events : i <= Len(events)
  <2>1. events \in Seq(EventType) /\ events' \in Seq(EventType)
    BY DEF IInv
  <2>2. \A i \in DOMAIN events' : i \in DOMAIN events \/ i > Len(events)
    BY <2>1
  <2>3. \A i \in DOMAIN events : i <= Len(events)
    BY <2>1
  <2>4. QED
    BY <1>2, <2>1, <2>2, <2>3 DEF Tells
<1>4. 0 \notin Reads /\ DOMAIN reads \subseteq Reads
  BY ReadsAreFinite DEF Reads, IInv
<1>5. ASSUME NEW r, ~Hears(views, r), r # new \/ ~New(answers, muted, views, events, new)
      PROVE  r \notin toRead /\ ~Hears(views', r)
  BY <1>2, <1>5
<1>6. ASSUME NEW r, New(answers, muted, views, events, r), r # new
      PROVE  New(answers', muted', views', events', r)
  <2>1. ~Hears(views', r) /\ r \notin toRead
    BY <1>5, <1>6 DEF New
  <2>2. Silent(events', r)
    BY <1>3, <1>6, <2>1 DEF New, Silent
  <2>3. QED
    BY <1>6, <2>1, <2>2 DEF New
<1>7. ErrorsAreLast'
  <2> SUFFICES ASSUME NEW i \in DOMAIN events', events'[i].outcome.kind = "error"
               PROVE  /\ ~Hears(views', events'[i].read)
                      /\ \A j \in DOMAIN events' : events'[j].read = events'[i].read => j <= i
    BY DEF ErrorsAreLast, Hears
  <2> DEFINE r == events'[i].read
  <2>1. CASE i \in DOMAIN events /\ events'[i] = events[i]
    <3>1. /\ ~Hears(views, r)
          /\ \A j \in DOMAIN events : events[j].read = r => j <= i
      BY <2>1 DEF AInv, ErrorsAreLast
    <3>2. r # new \/ ~New(answers, muted, views, events, new)
      BY <2>1 DEF New, Silent
    <3>3. r \notin toRead /\ ~Hears(views', r)
      BY <1>5, <3>1, <3>2
    <3>4. \A j \in DOMAIN events' : events'[j].read = r => j <= i
      BY <1>3, <3>1, <3>3
    <3>5. QED
      BY <3>3, <3>4
  <2>2. CASE i > Len(events) /\ r \in toRead /\ events'[i].outcome = said[r]
    <3>1. ~Hears(views', r)
      BY <1>2, <2>2
    <3>2. ASSUME NEW j \in DOMAIN events', events'[j].read = r, j > i
          PROVE  FALSE
      <4>1. j > Len(events) /\ i # j
        BY <1>3, <2>2, <3>2
      <4>2. QED
        BY <1>3, <2>2, <3>2, <4>1
    <3>3. \A j \in DOMAIN events' : events'[j].read = r => j <= i
      BY <1>3, <3>2
    <3>4. QED
      BY <3>1, <3>3
  <2>3. QED
    BY <1>3, <2>1, <2>2
<1>8. AnsweredIsDone'
  <2> SUFFICES ASSUME NEW r \in Reads, answers[r] # <<>>, r \notin muted
               PROVE  ~Hears(views', r) /\ Silent(events', r)
    BY DEF AnsweredIsDone
  <2>1. ~Hears(views, r) /\ Silent(events, r)
    BY DEF AInv, AnsweredIsDone
  <2>2. r # new \/ ~New(answers, muted, views, events, new)
    BY DEF New
  <2>3. r \notin toRead /\ ~Hears(views', r)
    BY <1>5, <2>1, <2>2
  <2>4. Silent(events', r)
    BY <1>3, <2>1, <2>3 DEF Silent
  <2>5. QED
    BY <2>3, <2>4
<1>9. AnsweredAtMostOnce'
  BY DEF AInv, AnsweredAtMostOnce
<1>10. \A r \in Reads : r \notin DOMAIN reads' => New(answers', muted', views', events', r)
  BY <1>4, <1>6 DEF AInv, SameReads
<1>11. ops \in Seq(Operation)
  BY DEF IInv
<1>12. ops # <<>> => /\ 1 \in DOMAIN ops /\ Head(ops) = ops[1]
                     /\ \A i \in DOMAIN Tail(ops) : i + 1 \in DOMAIN ops /\ i + 1 # 1
                                                    /\ Tail(ops)[i] = ops[i + 1] /\ i \in Nat
                     /\ \A i \in DOMAIN ops : i # 1 =>
                          i - 1 \in DOMAIN Tail(ops) /\ Tail(ops)[i - 1] = ops[i]
  BY <1>11, TailIndices
<1>13. \A i \in DOMAIN ops : ops[i].read \in Reads
  <2>1. \A i \in DOMAIN ops : ops[i] \in Operation
    BY <1>11
  <2>2. QED
    BY <2>1 DEF Operation
<1>14. ListensAreNew'
  <2>1. CASE ops' = ops /\ new = 0
    <3>1. \A i \in DOMAIN ops : ops[i].op = "listen" => New(answers', muted', views', events', ops[i].read)
      BY <1>4, <1>6, <1>13, <2>1 DEF AInv, ListensAreNew
    <3>2. QED
      BY <2>1, <3>1 DEF AInv, ListensAreNew, New, Hears, Silent
  <2>2. CASE ops # <<>> /\ ops' = Tail(ops)
    <3>1. ASSUME NEW i \in DOMAIN ops', ops'[i].op = "listen"
          PROVE  New(answers', muted', views', events', ops'[i].read)
      <4>1. i + 1 \in DOMAIN ops /\ i + 1 # 1 /\ ops'[i] = ops[i + 1]
        BY <1>12, <2>2
      <4>2. New(answers, muted, views, events, ops[i + 1].read) /\ ops[i + 1].read \in Reads
        BY <1>13, <3>1, <4>1 DEF AInv, ListensAreNew
      <4>3. ops[i + 1].read # new
        <5>1. CASE new = 0
          BY <1>4, <4>2, <5>1
        <5>2. CASE Head(ops).op = "listen" /\ new = Head(ops).read
          BY <1>12, <2>2, <3>1, <4>1, <5>2 DEF AInv, ListensAreNew
        <5>3. QED
          BY <5>1, <5>2
      <4>4. QED
        BY <1>6, <4>1, <4>2, <4>3
    <3>2. ASSUME NEW i \in DOMAIN ops', ops'[i].op = "listen",
                 NEW j \in DOMAIN ops', ops'[j].op = "listen", ops'[j].read = ops'[i].read
          PROVE  j = i
      <4>1. /\ i + 1 \in DOMAIN ops /\ ops'[i] = ops[i + 1] /\ i \in Nat
            /\ j + 1 \in DOMAIN ops /\ ops'[j] = ops[j + 1] /\ j \in Nat
        BY <1>12, <2>2
      <4>2. j + 1 = i + 1
        BY <3>2, <4>1 DEF AInv, ListensAreNew
      <4>3. QED
        BY <4>1, <4>2
    <3>3. QED
      BY <3>1, <3>2 DEF ListensAreNew, New, Hears, Silent
  <2>3. QED
    BY <2>1, <2>2
<1>15. MutedAreRemoved'
  <2> SUFFICES ASSUME NEW r \in muted, Hears(views', r)
               PROVE  \E i \in DOMAIN ops' : ops'[i] = [op |-> "remove", read |-> r]
    BY DEF MutedAreRemoved, Hears
  <2>1. Hears(views, r)
    BY DEF New
  <2>2. PICK i \in DOMAIN ops : ops[i] = [op |-> "remove", read |-> r]
    BY <2>1 DEF AInv, MutedAreRemoved
  <2>3. CASE ops' = ops
    BY <2>2, <2>3
  <2>4. CASE ops # <<>> /\ ops' = Tail(ops)
    <3>1. i # 1
      BY <1>12, <2>2, <2>4
    <3>2. QED
      BY <1>12, <2>2, <2>4, <3>1
  <2>5. QED
    BY <2>3, <2>4
<1>16. QED
  BY <1>7, <1>8, <1>9, <1>10, <1>14, <1>15 DEF AInv

LEMMA GetDocumentKeepsAInv ==
  ASSUME IInv, AInv, NEW d \in Docs, GetDocument(d)
  PROVE  AInv'
<1> DEFINE r == Len(reads) + 1
           op == [op |-> "listen", read |-> r]
<1>1. /\ ops \in Seq(Operation) /\ RefersTo(ops, reads)
      /\ reads \in Seq(ReadRecord) /\ Len(reads) < MaxReads
      /\ UNCHANGED <<events, muted, answers, views>> /\ ops' = Append(ops, op)
  BY DEF IInv, ReadsOk, GetDocument
<1>2. r \in Reads /\ r \notin DOMAIN reads
  BY <1>1, VersionsAreNat DEF Reads
<1>3. DOMAIN reads' = DOMAIN reads \cup {r}
  BY GetDocumentKeeps
<1>4. New(answers, muted, views, events, r)
  BY <1>2 DEF AInv
<1>5. op.op = "listen" /\ op.read = r /\ op \in Operation
  BY <1>2 DEF Operation
<1> HIDE DEF op, r
<1>6. /\ \A i \in DOMAIN ops' : \/ i \in DOMAIN ops /\ ops'[i] = ops[i]
                                \/ i = Len(ops) + 1 /\ ops'[i] = op
      /\ \A i \in DOMAIN ops : i \in DOMAIN ops' /\ ops'[i] = ops[i]
  BY <1>1, <1>5
<1>7. ListensAreNew'
  <2>1. \A i \in DOMAIN ops' : ops'[i].op = "listen" =>
          New(answers, muted, views, events, ops'[i].read)
    BY <1>4, <1>5, <1>6 DEF AInv, ListensAreNew
  <2>2. \A i \in DOMAIN ops : ops[i].read # r
    BY <1>1, <1>2 DEF RefersTo
  <2>3. \A i, j \in DOMAIN ops' : /\ ops'[i].op = "listen" /\ ops'[j].op = "listen"
                                  /\ ops'[j].read = ops'[i].read
                                  => j = i
    BY <1>5, <1>6, <2>2 DEF AInv, ListensAreNew
  <2>4. QED
    BY <1>1, <2>1, <2>3 DEF ListensAreNew
<1>8. MutedAreRemoved'
  BY <1>1, <1>6 DEF AInv, MutedAreRemoved
<1>9. QED
  BY <1>1, <1>3, <1>7, <1>8 DEF AInv, ErrorsAreLast, AnsweredIsDone, AnsweredAtMostOnce

LEMMA RunEventKeepsAInv ==
  ASSUME IInv, AInv, RunEvent
  PROVE  AInv'
<1> DEFINE r == events[1].read
           o == events[1].outcome
<1>1. /\ events \in Seq(EventType) /\ events # <<>> /\ events' = Tail(events)
      /\ UNCHANGED <<reads, views>> /\ ops \in Seq(Operation)
      /\ answers \in [Reads -> Seq(Outcome \cup {Unavailable})]
  BY DEF RunEvent, IInv
<1>2. /\ 1 \in DOMAIN events /\ Head(events) = events[1]
      /\ \A i \in DOMAIN events' : i + 1 \in DOMAIN events /\ i + 1 # 1
                                   /\ events'[i] = events[i + 1] /\ i \in Nat
  BY <1>1, TailIndices
<1>3. r \in DOMAIN reads /\ r \in Reads /\ o \in Outcome
  BY <1>2, EventFields
<1>4. IF r \in muted THEN UNCHANGED <<answers, muted, ops>>
      ELSE /\ answers' = [answers EXCEPT ![r] = Append(@, AnswerOf(o))]
           /\ IF o.kind = "error" THEN UNCHANGED <<muted, ops>>
              ELSE /\ muted' = muted \cup {r}
                   /\ ops' = Append(ops, [op |-> "remove", read |-> r])
  BY <1>2 DEF RunEvent, AnswerOf
<1> HIDE DEF r, o
<1>5. /\ \A q : Silent(events, q) => Silent(events', q)
      /\ ~Silent(events, r)
  BY <1>2 DEF Silent, r
<1>6. ErrorsAreLast'
  <2> SUFFICES ASSUME NEW i \in DOMAIN events', events'[i].outcome.kind = "error"
               PROVE  /\ ~Hears(views, events'[i].read)
                      /\ \A j \in DOMAIN events' : events'[j].read = events'[i].read => j <= i
    BY <1>1 DEF ErrorsAreLast
  <2>1. i + 1 \in DOMAIN events /\ events'[i] = events[i + 1] /\ i \in Nat
    BY <1>2
  <2>2. /\ ~Hears(views, events'[i].read)
        /\ \A j \in DOMAIN events : events[j].read = events'[i].read => j <= i + 1
    BY <2>1 DEF AInv, ErrorsAreLast
  <2>3. QED
    BY <1>2, <2>1, <2>2
<1>7. CASE r \in muted
  <2>1. UNCHANGED <<answers, muted, ops, reads, views>>
    BY <1>1, <1>4, <1>7
  <2>2. \A q : New(answers, muted, views, events, q) => New(answers', muted', views', events', q)
    BY <1>5, <2>1 DEF New
  <2>3. ListensAreNew'
    BY <2>1, <2>2 DEF AInv, ListensAreNew
  <2>4. AnsweredIsDone'
    BY <1>5, <2>1 DEF AInv, AnsweredIsDone
  <2>5. QED
    BY <1>6, <2>1, <2>2, <2>3, <2>4 DEF AInv, AnsweredAtMostOnce, MutedAreRemoved
<1>8. CASE r \notin muted
  <2>1. answers' = [answers EXCEPT ![r] = Append(@, AnswerOf(o))]
    BY <1>4, <1>8
  <2>2. answers[r] = <<>>
    BY <1>3, <1>5, <1>8 DEF AInv, AnsweredIsDone
  <2>3. /\ answers'[r] = <<AnswerOf(o)>>
        /\ \A q \in Reads : q # r => answers'[q] = answers[q]
    BY <1>1, <1>3, <2>1, <2>2
  <2>4. AnsweredAtMostOnce'
    <3>1. Len(answers'[r]) <= 1
      BY <2>3
    <3>2. ASSUME NEW q \in Reads
          PROVE  Len(answers'[q]) <= 1
      <4>1. CASE q = r
        BY <3>1, <4>1
      <4>2. CASE q # r
        <5>1. Len(answers[q]) <= 1
          BY DEF AInv, AnsweredAtMostOnce
        <5>2. QED
          BY <2>3, <4>2, <5>1
      <4>3. QED
        BY <4>1, <4>2
    <3>3. QED
      BY <3>2 DEF AnsweredAtMostOnce
  <2>5. \A q \in Reads : New(answers, muted, views, events, q) =>
          q # r /\ (q \notin muted' => New(answers', muted', views', events', q))
    BY <1>1, <1>5, <2>3 DEF New
  <2>6. muted' \subseteq muted \cup {r}
    BY <1>4, <1>8
  <2>7. \A q \in Reads : New(answers, muted, views, events, q) =>
          New(answers', muted', views', events', q)
    BY <2>5, <2>6 DEF New
  <2>8. \A q \in Reads : q \notin DOMAIN reads' => New(answers', muted', views', events', q)
    BY <1>1, <2>7 DEF AInv
  <2>9. \A i \in DOMAIN ops : ops[i].read \in Reads /\ ops[i] \in Operation
    <3>1. \A i \in DOMAIN ops : ops[i] \in Operation
      BY <1>1
    <3>2. QED
      BY <3>1 DEF Operation
  <2>10. CASE o.kind = "error"
    <3>1. muted' = muted /\ ops' = ops
      BY <1>4, <1>8, <2>10
    <3>2. ~Hears(views, r) /\ Silent(events', r)
      <4>1. /\ ~Hears(views, r)
            /\ \A j \in DOMAIN events : events[j].read = r => j <= 1
        BY <1>2, <2>10 DEF AInv, ErrorsAreLast, r, o
      <4>2. QED
        BY <1>2, <4>1 DEF Silent
    <3>3. AnsweredIsDone'
      BY <1>1, <1>5, <2>3, <3>1, <3>2 DEF AInv, AnsweredIsDone
    <3>4. ListensAreNew'
      BY <2>7, <2>9, <3>1 DEF AInv, ListensAreNew
    <3>5. MutedAreRemoved'
      BY <1>1, <3>1 DEF AInv, MutedAreRemoved
    <3>6. QED
      BY <1>6, <2>4, <2>8, <3>3, <3>4, <3>5 DEF AInv
  <2>11. CASE o.kind # "error"
    <3> DEFINE op == [op |-> "remove", read |-> r]
    <3>1. muted' = muted \cup {r} /\ ops' = Append(ops, op)
      BY <1>4, <1>8, <2>11
    <3>2. op.op = "remove" /\ op \in Operation
      BY <1>3 DEF Operation
    <3> HIDE DEF op
    <3>3. /\ \A i \in DOMAIN ops' : \/ i \in DOMAIN ops /\ ops'[i] = ops[i]
                                    \/ ops'[i] = op
          /\ \A i \in DOMAIN ops : i \in DOMAIN ops' /\ ops'[i] = ops[i]
          /\ Len(ops) + 1 \in DOMAIN ops' /\ ops'[Len(ops) + 1] = op
      BY <1>1, <3>1, <3>2
    <3>4. AnsweredIsDone'
      BY <1>1, <1>5, <2>3, <3>1 DEF AInv, AnsweredIsDone
    <3>5. ListensAreNew'
      <4>1. \A i \in DOMAIN ops' : ops'[i].op = "listen" => i \in DOMAIN ops /\ ops'[i] = ops[i]
        BY <3>2, <3>3
      <4>2. QED
        BY <2>7, <2>9, <4>1 DEF AInv, ListensAreNew
    <3>6. MutedAreRemoved'
      BY <1>1, <3>1, <3>3 DEF AInv, MutedAreRemoved, op
    <3>7. QED
      BY <1>6, <2>4, <2>8, <3>4, <3>5, <3>6 DEF AInv
  <2>12. QED
    BY <2>10, <2>11
<1>9. QED
  BY <1>7, <1>8

(* Steps that neither come nor go from the queue of operations. *)
LEMMA StreamKeepsAInv ==
  ASSUME IInv, IInv', AInv, reads' = reads, Telling, UNCHANGED <<muted, answers, ops>>,
         \A d \in Docs : views'[d].listeners \subseteq views[d].listeners
  PROVE  AInv'
<1>1. SameReads
  BY DEF SameReads
<1>2. \A r : Hears(views', r) => Hears(views, r)
  BY DEF Hears
<1>3. 0 \in DOMAIN reads \cup {0}
  OBVIOUS
<1>4. QED
  BY <1>1, <1>2, <1>3, WorkerKeepsAInv

LEMMA QuietKeepsAInv ==
  ASSUME IInv, IInv', AInv, UNCHANGED <<reads, events, views, muted, answers, ops>>
  PROVE  AInv'
BY StreamKeepsAInv, NothingTold

LEMMA AddQueryListenerKeepsAInv ==
  ASSUME IInv, IInv', AInv, AddQueryListener
  PROVE  AInv'
<1> DEFINE r == Head(ops).read
           d == reads[r].doc
<1>1. /\ ops # <<>> /\ ops' = Tail(ops) /\ Head(ops).op = "listen"
      /\ UNCHANGED <<muted, answers>>
  BY DEF AddQueryListener
<1>2. Telling /\ SameReads /\ views'[d].listeners = views[d].listeners \cup {r}
      /\ \A e \in Docs : e # d => views'[e] = views[e]
  BY AddQueryListenerKeeps
<1>3. r \in DOMAIN reads /\ r \in Reads /\ d \in Docs
  BY <1>1, PoppedOperation
<1>4. New(answers, muted, views, events, r)
  <2>1. 1 \in DOMAIN ops /\ Head(ops) = ops[1]
    BY <1>1, TailIndices DEF IInv
  <2>2. QED
    BY <1>1, <2>1 DEF AInv, ListensAreNew
<1>5. r # 0
  BY <1>3 DEF Reads
<1> HIDE DEF d
<1>6. \A q : Hears(views', q) => Hears(views, q) \/ q = r
  BY <1>2 DEF Hears
<1>7. QED
  BY <1>1, <1>2, <1>3, <1>4, <1>5, <1>6, WorkerKeepsAInv

LEMMA RemoveQueryListenerKeepsAInv ==
  ASSUME IInv, IInv', AInv, RemoveQueryListener
  PROVE  AInv'
<1> DEFINE r == Head(ops).read
           d == reads[r].doc
<1>1. /\ ops # <<>> /\ ops' = Tail(ops) /\ Head(ops).op = "remove"
      /\ UNCHANGED <<muted, answers>>
  BY DEF RemoveQueryListener, app
<1>2. /\ events' = events /\ reads' = reads
      /\ views'[d].listeners = views[d].listeners \ {r}
      /\ \A e \in Docs : e # d => views'[e] = views[e]
  BY RemoveQueryListenerKeeps
<1>3. r \in DOMAIN reads /\ d \in Docs
  BY <1>1, PoppedOperation
<1>4. \A e \in Docs : r \in views[e].listeners => e = d
  BY ListenersRead
<1>5. SameReads /\ Telling
  BY <1>2, NothingTold DEF SameReads
<1> HIDE DEF d
<1>6. \A q : Hears(views', q) => Hears(views, q) /\ q # r
  BY <1>2, <1>4 DEF Hears
<1>7. QED
  <2>1. 0 \in DOMAIN reads \cup {0}
    OBVIOUS
  <2> HIDE DEF r
  <2>2. ~Hears(views', Head(ops).read)
    BY <1>6 DEF r
  <2>3. QED
    BY <1>1, <1>5, <1>6, <2>1, <2>2, WorkerKeepsAInv

LEMMA KeptListeners ==
  ASSUME ViewsKept
  PROVE  \A d \in Docs : views'[d].listeners \subseteq views[d].listeners
BY ViewFields DEF ViewsKept, Stays

LEMMA NextKeepsAInv ==
  ASSUME IInv, IInv', AInv, [Next]_vars
  PROVE  AInv'
<1>1. ASSUME NEW d \in Docs, GetDocument(d)
      PROVE  AInv'
  BY <1>1, GetDocumentKeepsAInv
<1>2. CASE RunEvent
  BY <1>2, RunEventKeepsAInv
<1>3. CASE AddQueryListener
  BY <1>3, AddQueryListenerKeepsAInv
<1>4. CASE RemoveQueryListener
  BY <1>4, RemoveQueryListenerKeepsAInv
<1>5. CASE StreamDoesNotOpen \/ StreamBreaks \/ OnlineStateTimeout
  <2>1. Telling /\ ViewsKept
    BY <1>5, StreamDoesNotOpenKeeps, StreamBreaksKeeps, OnlineStateTimeoutKeeps
  <2>2. reads' = reads /\ UNCHANGED <<muted, answers, ops>>
    BY <1>5 DEF StreamDoesNotOpen, StreamBreaks, OnlineStateTimeout
  <2>3. QED
    BY <2>1, <2>2, KeptListeners, StreamKeepsAInv
<1>6. CASE OnWatchStreamChange
  <2>1. UNCHANGED <<muted, answers, ops>>
    BY <1>6 DEF OnWatchStreamChange
  <2>2. /\ Telling /\ reads' = reads
        /\ \A d \in Docs : views'[d] = NoView \/ (HasView(d) /\ Stays(d))
    BY <1>6, OnWatchStreamChangeKeeps
  <2>3. \A d \in Docs : views'[d].listeners \subseteq views[d].listeners
    BY <2>2, ViewFields DEF Stays
  <2>4. QED
    BY <2>1, <2>2, <2>3, StreamKeepsAInv
<1>7. ASSUME \/ StreamOpens \/ BackoffElapses \/ IdleTimeout \/ NetworkRestarts
             \/ BackendAdds \/ BackendRefuses \/ BackendRemoves
             \/ \E d \in Docs : DocumentChanges(d)
             \/ UNCHANGED vars
      PROVE  AInv'
  <2>1. UNCHANGED <<reads, events, views, muted, answers, ops>>
    BY <1>7 DEF StreamOpens, BackoffElapses, IdleTimeout, NetworkRestarts, BackendAdds,
                BackendRefuses, BackendRemoves, DocumentChanges, app, vars
  <2>2. QED
    BY <2>1, QuietKeepsAInv
<1>8. QED
  BY <1>1, <1>2, <1>3, <1>4, <1>5, <1>6, <1>7 DEF Next

LEMMA AInvAlways == Spec => []AInv
<1>1. IInv /\ IInv' /\ AInv /\ [Next]_vars => AInv'
  BY NextKeepsAInv
<1>2. QED
  BY FirstAInv, IInvAlways, <1>1, PTL DEF Spec

(* getDocument answers at most once, however many events its listener has  *)
(* on the main queue when it is removed, and whether it is removed by its  *)
(* own first snapshot or by the error of its listen.                       *)
THEOREM AnsweredOnce == Spec => []AnsweredAtMostOnce
<1>1. AInv => AnsweredAtMostOnce
  BY DEF AInv
<1>2. QED
  BY AInvAlways, <1>1, PTL

--------------------------------------------------------------------------------
(* ReadsGoForward *)

(* The event "e" shows version "v" of document "d". *)
Shows(e, rs, d, v) ==
  e.outcome.kind = "snapshot" /\ rs[e.read].doc = d /\ e.outcome.version = v

(* The read "r" was answered with version "v" of document "d". *)
Answered(given, rs, r, d, v) ==
  given[r] # <<>> /\ Good(Last(given[r])) /\ rs[r].doc = d /\ VersionOf(Last(given[r])) = v

(* Nothing shown is newer than the cache, and the snapshots that wait on   *)
(* the main queue do not go back, nor before an answer already given.      *)
VInv ==
  \A d \in Docs :
    /\ \A i \in DOMAIN events : \A v \in Versions :
         Shows(events[i], reads, d, v) => v <= cached[d]
    /\ \A i, j \in DOMAIN events : \A v, w \in Versions :
         Shows(events[i], reads, d, v) /\ Shows(events[j], reads, d, w) /\ i < j => v <= w
    /\ \A r \in DOMAIN reads : \A v \in Versions : Answered(answers, reads, r, d, v) =>
         /\ v <= cached[d]
         /\ \A i \in DOMAIN events : \A w \in Versions :
              Shows(events[i], reads, d, w) => v <= w

LEMMA FirstVInv == Init => VInv
BY DEF Init, VInv

LEMMA OutcomeFields ==
  ASSUME NEW o \in Outcome
  PROVE  /\ o.kind \in {"snapshot", "error"}
         /\ o.kind = "snapshot" => o.version \in Versions /\ o.fromCache \in BOOLEAN
         /\ o # Unavailable
BY DEF Outcome, Unavailable

(* What is told is the version the cache has after the step. *)
LEMMA ToldShow ==
  ASSUME IInv, IInv', SameReads, Telling
  PROVE  \E toRead \in SUBSET DOMAIN reads : \E said :
           /\ Tells(events, events', toRead, said)
           /\ \A r \in toRead : said[r].kind = "snapshot" =>
                                  said[r].version = cached'[reads[r].doc]
<1>1. PICK toRead \in SUBSET DOMAIN reads : \E said :
        Tells(events, events', toRead, said) /\ TellsViews(toRead, said)
  BY DEF Telling
<1>2. PICK said : Tells(events, events', toRead, said) /\ TellsViews(toRead, said)
  BY <1>1
<1>3. ASSUME NEW r \in toRead, said[r].kind = "snapshot"
      PROVE  said[r].version = cached'[reads[r].doc]
  <2> DEFINE d == reads[r].doc
  <2>1. d \in Docs
    <3>1. reads \in Seq(ReadRecord) /\ r \in DOMAIN reads
      BY DEF IInv, ReadsOk
    <3>2. reads[r] \in ReadRecord
      BY <3>1
    <3>3. QED
      BY <3>2 DEF ReadRecord
  <2>2. said[r] # Failure
    BY <1>3 DEF Failure
  <2>3. said[r] = Snapshot(views'[d].version, ~views'[d].current) /\ r \in views'[d].listeners
    BY <1>2, <2>2 DEF TellsViews
  <2>4. views'[d] # NoView
    BY <2>3, ViewFields
  <2>5. views'[d].version = cached'[d]
    BY <2>1, <2>4 DEF IInv, ViewsShow
  <2>6. QED
    BY <2>3, <2>5 DEF Snapshot
<1>4. QED
  BY <1>2, <1>3

LEMMA WorkerKeepsVInv ==
  ASSUME IInv, IInv', VInv, SameReads, Telling, answers' = answers,
         \A d \in Docs : cached'[d] >= cached[d]
  PROVE  VInv'
<1>1. PICK toRead \in SUBSET DOMAIN reads : \E said :
        /\ Tells(events, events', toRead, said)
        /\ \A r \in toRead : said[r].kind = "snapshot" => said[r].version = cached'[reads[r].doc]
  BY ToldShow
<1>2. PICK said :
        /\ Tells(events, events', toRead, said)
        /\ \A r \in toRead : said[r].kind = "snapshot" => said[r].version = cached'[reads[r].doc]
  BY <1>1
<1>3. /\ Versions \subseteq Nat /\ \A d \in Docs : cached[d] \in Nat /\ cached'[d] \in Nat
      /\ events \in Seq(EventType) /\ events' \in Seq(EventType)
  BY VersionsAreNat DEF IInv
<1>4. /\ \A i \in DOMAIN events' : i \in DOMAIN events \/ i > Len(events)
      /\ \A i \in DOMAIN events : i <= Len(events)
      /\ DOMAIN events \subseteq Nat /\ DOMAIN events' \subseteq Nat /\ Len(events) \in Nat
  BY <1>3
<1>5. \A i \in DOMAIN events' : events'[i].read \in DOMAIN reads
  BY DEF IInv, RefersTo, SameReads
<1>6. ASSUME NEW d \in Docs, NEW i \in DOMAIN events', NEW v \in Versions,
             Shows(events'[i], reads', d, v)
      PROVE  \/ i \in DOMAIN events /\ Shows(events[i], reads, d, v)
             \/ i > Len(events) /\ v = cached'[d]
  <2>1. CASE i \in DOMAIN events
    <3>1. events'[i] = events[i]
      BY <1>2, <2>1 DEF Tells
    <3>2. QED
      BY <1>5, <1>6, <2>1, <3>1 DEF Shows, SameReads
  <2>2. CASE i > Len(events)
    <3>1. events'[i].read \in toRead /\ events'[i].outcome = said[events'[i].read]
      BY <1>2, <2>2 DEF Tells
    <3>2. reads[events'[i].read].doc = d
      BY <1>5, <1>6 DEF Shows, SameReads
    <3>3. QED
      BY <1>2, <1>6, <2>2, <3>1, <3>2 DEF Shows
  <2>3. QED
    BY <1>4, <2>1, <2>2
<1>7. ASSUME NEW d \in Docs, NEW r \in DOMAIN reads', NEW v \in Versions,
             Answered(answers', reads', r, d, v)
      PROVE  r \in DOMAIN reads /\ Answered(answers, reads, r, d, v)
  BY <1>7 DEF Answered, SameReads
<1>8. ASSUME NEW d \in Docs
      PROVE  /\ \A i \in DOMAIN events' : \A v \in Versions :
                  Shows(events'[i], reads', d, v) => v <= cached'[d]
             /\ \A i, j \in DOMAIN events' : \A v, w \in Versions :
                  Shows(events'[i], reads', d, v) /\ Shows(events'[j], reads', d, w) /\ i < j
                    => v <= w
             /\ \A r \in DOMAIN reads' : \A v \in Versions :
                  Answered(answers', reads', r, d, v) =>
                    /\ v <= cached'[d]
                    /\ \A i \in DOMAIN events' : \A w \in Versions :
                         Shows(events'[i], reads', d, w) => v <= w
  <2>1. /\ \A i \in DOMAIN events : \A v \in Versions :
             Shows(events[i], reads, d, v) => v <= cached[d]
        /\ \A i, j \in DOMAIN events : \A v, w \in Versions :
             Shows(events[i], reads, d, v) /\ Shows(events[j], reads, d, w) /\ i < j => v <= w
        /\ \A r \in DOMAIN reads : \A v \in Versions : Answered(answers, reads, r, d, v) =>
             /\ v <= cached[d]
             /\ \A i \in DOMAIN events : \A w \in Versions :
                  Shows(events[i], reads, d, w) => v <= w
    BY DEF VInv
  <2>2. \A v \in Versions : v \in Nat /\ (v <= cached[d] => v <= cached'[d])
    BY <1>3
  <2>3. \A i \in DOMAIN events' : \A v \in Versions :
          Shows(events'[i], reads', d, v) => v <= cached'[d]
    BY <1>3, <1>6, <2>1, <2>2
  <2>4. ASSUME NEW i \in DOMAIN events', NEW j \in DOMAIN events', NEW v \in Versions,
               NEW w \in Versions, Shows(events'[i], reads', d, v),
               Shows(events'[j], reads', d, w), i < j
        PROVE  v <= w
    <3>1. CASE j \in DOMAIN events /\ Shows(events[j], reads, d, w)
      <4>1. i \in DOMAIN events /\ Shows(events[i], reads, d, v)
        BY <1>4, <1>6, <2>4, <3>1
      <4>2. QED
        BY <2>1, <2>4, <3>1, <4>1
    <3>2. CASE w = cached'[d]
      BY <2>3, <2>4, <3>2
    <3>3. QED
      BY <1>6, <2>4, <3>1, <3>2
  <2>5. ASSUME NEW r \in DOMAIN reads', NEW v \in Versions, Answered(answers', reads', r, d, v)
        PROVE  /\ v <= cached'[d]
               /\ \A i \in DOMAIN events' : \A w \in Versions :
                    Shows(events'[i], reads', d, w) => v <= w
    <3>1. r \in DOMAIN reads /\ Answered(answers, reads, r, d, v)
      BY <1>7, <2>5
    <3>2. v <= cached'[d]
      BY <2>1, <2>2, <3>1
    <3>3. QED
      BY <1>6, <2>1, <3>1, <3>2
  <2>6. QED
    BY <2>3, <2>4, <2>5
<1>9. QED
  BY <1>8 DEF VInv

LEMMA GetDocumentKeepsVInv ==
  ASSUME IInv, AInv, VInv, NEW d \in Docs, GetDocument(d)
  PROVE  VInv'
<1>1. /\ UNCHANGED <<events, answers, cached>> /\ Len(reads) < MaxReads
      /\ reads \in Seq(ReadRecord)
  BY DEF GetDocument, IInv, ReadsOk
<1>2. /\ DOMAIN reads' = DOMAIN reads \cup {Len(reads) + 1}
      /\ \A r \in DOMAIN reads : reads'[r] = reads[r]
  BY GetDocumentKeeps
<1>3. answers[Len(reads) + 1] = <<>>
  <2>1. Len(reads) + 1 \in Reads /\ Len(reads) + 1 \notin DOMAIN reads
    BY <1>1, VersionsAreNat DEF Reads
  <2>2. QED
    BY <2>1 DEF AInv, New
<1>4. \A i \in DOMAIN events : \A e \in Docs, v \in Versions :
        Shows(events[i], reads', e, v) => Shows(events[i], reads, e, v)
  BY <1>2 DEF Shows, IInv, RefersTo
<1>5. \A r \in DOMAIN reads' : \A e \in Docs, v \in Versions :
        Answered(answers, reads', r, e, v) =>
          r \in DOMAIN reads /\ Answered(answers, reads, r, e, v)
  BY <1>2, <1>3 DEF Answered
<1>6. QED
  BY <1>1, <1>4, <1>5 DEF VInv

(* What a run of an event answers. *)
LEMMA RunEventAnswers ==
  ASSUME IInv, AInv, RunEvent
  PROVE  LET r == events[1].read
             o == events[1].outcome
         IN /\ 1 \in DOMAIN events /\ r \in DOMAIN reads /\ r \in Reads /\ o \in Outcome
            /\ \A q \in Reads : q # r => answers'[q] = answers[q]
            /\ \/ answers' = answers
               \/ answers'[r] = <<AnswerOf(o)>>
<1> DEFINE r == events[1].read
           o == events[1].outcome
<1>1. /\ events \in Seq(EventType) /\ events # <<>>
      /\ answers \in [Reads -> Seq(Outcome \cup {Unavailable})]
  BY DEF RunEvent, IInv
<1>2. 1 \in DOMAIN events /\ Head(events) = events[1]
  BY <1>1, TailIndices
<1>3. r \in DOMAIN reads /\ r \in Reads /\ o \in Outcome
  BY <1>2, EventFields
<1>4. IF r \in muted THEN UNCHANGED answers
      ELSE answers' = [answers EXCEPT ![r] = Append(@, AnswerOf(o))]
  BY <1>2 DEF RunEvent, AnswerOf
<1>5. ~Silent(events, r)
  BY <1>2 DEF Silent
<1> HIDE DEF r, o
<1>6. r \notin muted => answers[r] = <<>>
  BY <1>3, <1>5 DEF AInv, AnsweredIsDone
<1>7. CASE r \in muted
  <2>1. answers' = answers
    BY <1>4, <1>7
  <2>2. QED
    BY <1>2, <1>3, <2>1 DEF r, o
<1>8. CASE r \notin muted
  <2>1. answers' = [answers EXCEPT ![r] = Append(@, AnswerOf(o))] /\ answers[r] = <<>>
    BY <1>4, <1>6, <1>8
  <2>2. /\ answers'[r] = <<AnswerOf(o)>>
        /\ \A q \in Reads : q # r => answers'[q] = answers[q]
    BY <1>1, <1>3, <2>1
  <2>3. QED
    BY <1>2, <1>3, <2>2 DEF r, o
<1>9. QED
  BY <1>7, <1>8

LEMMA AnswerShows ==
  ASSUME NEW o \in Outcome, NEW given, given = <<AnswerOf(o)>>, Good(Last(given))
  PROVE  o.kind = "snapshot" /\ VersionOf(Last(given)) = o.version
<1>1. Last(given) = AnswerOf(o)
  BY DEF Last
<1>2. o.kind = "snapshot"
  BY <1>1, OutcomeFields DEF Good, AnswerOf
<1>3. VersionOf(AnswerOf(o)) = o.version
  BY <1>2, OutcomeFields DEF VersionOf, AnswerOf
<1>4. QED
  BY <1>1, <1>2, <1>3

LEMMA RunEventKeepsVInv ==
  ASSUME IInv, AInv, VInv, RunEvent
  PROVE  VInv'
<1> DEFINE r == events[1].read
           o == events[1].outcome
<1>1. /\ events \in Seq(EventType) /\ events # <<>> /\ events' = Tail(events)
      /\ UNCHANGED <<reads, cached>>
  BY DEF RunEvent, IInv
<1>2. /\ \A i \in DOMAIN events' : i + 1 \in DOMAIN events /\ i + 1 # 1
                                   /\ events'[i] = events[i + 1] /\ i \in Nat
  BY <1>1, TailIndices
<1>3. /\ 1 \in DOMAIN events /\ r \in DOMAIN reads /\ r \in Reads /\ o \in Outcome
      /\ \A q \in Reads : q # r => answers'[q] = answers[q]
      /\ \/ answers' = answers
         \/ answers'[r] = <<AnswerOf(o)>>
  BY RunEventAnswers
<1>4. DOMAIN reads \subseteq Reads
  BY ReadsAreFinite DEF IInv
<1> HIDE DEF r, o
<1>5. ASSUME NEW d \in Docs, NEW q \in DOMAIN reads, NEW v \in Versions,
             Answered(answers', reads, q, d, v)
      PROVE  \/ Answered(answers, reads, q, d, v)
             \/ Shows(events[1], reads, d, v)
  <2>1. CASE answers'[q] = answers[q]
    BY <1>5, <2>1 DEF Answered
  <2>2. CASE q = r /\ answers'[r] = <<AnswerOf(o)>>
    <3>1. o.kind = "snapshot" /\ VersionOf(Last(answers'[q])) = o.version
      BY <1>3, <1>5, <2>2, AnswerShows DEF Answered
    <3>2. QED
      BY <1>5, <2>2, <3>1 DEF Answered, Shows, r, o
  <2>3. QED
    BY <1>3, <1>4, <2>1, <2>2
<1>6. ASSUME NEW d \in Docs
      PROVE  /\ \A i \in DOMAIN events' : \A v \in Versions :
                  Shows(events'[i], reads, d, v) => v <= cached[d]
             /\ \A i, j \in DOMAIN events' : \A v, w \in Versions :
                  Shows(events'[i], reads, d, v) /\ Shows(events'[j], reads, d, w) /\ i < j
                    => v <= w
             /\ \A q \in DOMAIN reads : \A v \in Versions :
                  Answered(answers', reads, q, d, v) =>
                    /\ v <= cached[d]
                    /\ \A i \in DOMAIN events' : \A w \in Versions :
                         Shows(events'[i], reads, d, w) => v <= w
  <2>1. /\ \A i \in DOMAIN events : \A v \in Versions :
             Shows(events[i], reads, d, v) => v <= cached[d]
        /\ \A i, j \in DOMAIN events : \A v, w \in Versions :
             Shows(events[i], reads, d, v) /\ Shows(events[j], reads, d, w) /\ i < j => v <= w
        /\ \A q \in DOMAIN reads : \A v \in Versions : Answered(answers, reads, q, d, v) =>
             /\ v <= cached[d]
             /\ \A i \in DOMAIN events : \A w \in Versions :
                  Shows(events[i], reads, d, w) => v <= w
    BY DEF VInv
  <2>2. \A i \in DOMAIN events' : \A v \in Versions :
          Shows(events'[i], reads, d, v) => v <= cached[d]
    BY <1>2, <2>1
  <2>3. ASSUME NEW i \in DOMAIN events', NEW j \in DOMAIN events', NEW v \in Versions,
               NEW w \in Versions, Shows(events'[i], reads, d, v),
               Shows(events'[j], reads, d, w), i < j
        PROVE  v <= w
    <3>1. i + 1 < j + 1
      BY <1>2, <2>3
    <3>2. QED
      BY <1>2, <2>1, <2>3, <3>1
  <2>4. ASSUME NEW q \in DOMAIN reads, NEW v \in Versions, Answered(answers', reads, q, d, v)
        PROVE  /\ v <= cached[d]
               /\ \A i \in DOMAIN events' : \A w \in Versions :
                    Shows(events'[i], reads, d, w) => v <= w
    <3>1. CASE Answered(answers, reads, q, d, v)
      BY <1>2, <2>1, <3>1
    <3>2. CASE Shows(events[1], reads, d, v)
      <4>1. \A i \in DOMAIN events' : 1 < i + 1
        <5>1. DOMAIN events' \subseteq 1..Len(events')
          BY <1>1
        <5>2. QED
          BY <5>1
      <4>2. QED
        BY <1>2, <1>3, <2>1, <3>2, <4>1
    <3>3. QED
      BY <1>5, <2>4, <3>1, <3>2
  <2>5. QED
    BY <2>2, <2>3, <2>4
<1>7. QED
  BY <1>1, <1>6 DEF VInv

LEMMA QuietKeepsVInv ==
  ASSUME VInv, UNCHANGED <<reads, events, answers, cached>>
  PROVE  VInv'
BY DEF VInv, Shows, Answered

LEMMA NextKeepsVInv ==
  ASSUME IInv, IInv', AInv, VInv, [Next]_vars
  PROVE  VInv'
<1>1. ASSUME NEW d \in Docs, GetDocument(d)
      PROVE  VInv'
  BY <1>1, GetDocumentKeepsVInv
<1>2. CASE RunEvent
  BY <1>2, RunEventKeepsVInv
<1>3. CASE AddQueryListener \/ StreamDoesNotOpen \/ StreamBreaks \/ OnlineStateTimeout
  <2>1. Telling
    BY <1>3, AddQueryListenerKeeps, StreamDoesNotOpenKeeps, StreamBreaksKeeps,
       OnlineStateTimeoutKeeps
  <2>2. cached' = cached /\ answers' = answers
    BY <1>3 DEF AddQueryListener, StreamDoesNotOpen, StreamBreaks, OnlineStateTimeout
  <2>3. SameReads
    <3>1. CASE AddQueryListener
      BY <3>1, AddQueryListenerKeeps
    <3>2. CASE StreamDoesNotOpen \/ StreamBreaks \/ OnlineStateTimeout
      BY <3>2 DEF StreamDoesNotOpen, StreamBreaks, OnlineStateTimeout, SameReads
    <3>3. QED
      BY <1>3, <3>1, <3>2
  <2>4. \A d \in Docs : cached'[d] >= cached[d]
    <3>1. \A d \in Docs : cached[d] \in Nat
      BY VersionsAreNat DEF IInv
    <3>2. QED
      BY <2>2, <3>1
  <2>5. QED
    BY <2>1, <2>2, <2>3, <2>4, WorkerKeepsVInv
<1>4. CASE OnWatchStreamChange
  <2>1. /\ Telling /\ reads' = reads
        /\ \A d \in Docs : cached'[d] >= cached[d]
    BY <1>4, OnWatchStreamChangeKeeps
  <2>2. answers' = answers
    BY <1>4 DEF OnWatchStreamChange
  <2>3. QED
    BY <2>1, <2>2, WorkerKeepsVInv DEF SameReads
<1>5. ASSUME \/ RemoveQueryListener
             \/ StreamOpens \/ BackoffElapses \/ IdleTimeout \/ NetworkRestarts
             \/ BackendAdds \/ BackendRefuses \/ BackendRemoves
             \/ \E d \in Docs : DocumentChanges(d)
             \/ UNCHANGED vars
      PROVE  VInv'
  <2>1. UNCHANGED <<reads, events, answers, cached>>
    BY <1>5 DEF RemoveQueryListener, StreamOpens, BackoffElapses, IdleTimeout,
                NetworkRestarts, BackendAdds, BackendRefuses, BackendRemoves,
                DocumentChanges, app, vars
  <2>2. QED
    BY <2>1, QuietKeepsVInv
<1>6. QED
  BY <1>1, <1>2, <1>3, <1>4, <1>5 DEF Next

LEMMA VInvAlways == Spec => []VInv
<1>1. IInv /\ IInv' /\ AInv /\ VInv /\ [Next]_vars => VInv'
  BY NextKeepsVInv
<1>2. QED
  BY FirstVInv, IInvAlways, AInvAlways, <1>1, PTL DEF Spec

(* Only a run of an event answers. *)
LEMMA AnswersRun ==
  ASSUME [Next]_vars, answers' # answers
  PROVE  RunEvent
BY DEF Next, vars, app, GetDocument, AddQueryListener, RemoveQueryListener, StreamOpens,
       StreamDoesNotOpen, StreamBreaks, BackoffElapses, IdleTimeout, NetworkRestarts,
       OnlineStateTimeout, OnWatchStreamChange, BackendAdds, BackendRefuses, BackendRemoves,
       DocumentChanges

LEMMA StepsGoForward ==
  ASSUME IInv, AInv, VInv, [Next]_vars,
         NEW r \in Reads, NEW q \in Reads,
         answers'[r] # answers[r], answers[q] # <<>>,
         r \in DOMAIN reads, q \in DOMAIN reads, reads[q].doc = reads[r].doc,
         Good(Last(answers'[r])), Good(Last(answers[q]))
  PROVE  VersionOf(Last(answers'[r])) >= VersionOf(Last(answers[q]))
<1> DEFINE o == events[1].outcome
           d == reads[r].doc
           v == VersionOf(Last(answers[q]))
<1>1. RunEvent
  BY AnswersRun
<1>2. /\ 1 \in DOMAIN events /\ r = events[1].read /\ o \in Outcome
      /\ answers'[r] = <<AnswerOf(o)>>
  BY <1>1, RunEventAnswers
<1>3. o.kind = "snapshot" /\ VersionOf(Last(answers'[r])) = o.version
  BY <1>2, AnswerShows
<1>4. o.version \in Versions
  BY <1>2, <1>3, OutcomeFields
<1>5. d \in Docs
  <2>1. reads[r] \in ReadRecord
    BY DEF IInv, ReadsOk
  <2>2. QED
    BY <2>1 DEF ReadRecord
<1>6. v \in Versions
  <2>1. /\ answers[q] \in Seq(Outcome \cup {Unavailable}) /\ answers[q] # <<>>
    BY DEF IInv
  <2>2. Last(answers[q]) \in Outcome \cup {Unavailable}
    BY <2>1 DEF Last
  <2>3. QED
    BY <2>2, OutcomeFields, VersionsAreNat DEF VersionOf, Good
<1>7. Shows(events[1], reads, d, o.version)
  BY <1>2, <1>3 DEF Shows
<1>8. Answered(answers, reads, q, d, v)
  BY DEF Answered
<1> HIDE DEF o, d, v
<1>9. v <= o.version
  BY <1>2, <1>4, <1>5, <1>6, <1>7, <1>8 DEF VInv
<1>10. v \in Nat /\ o.version \in Nat
  BY <1>4, <1>6, VersionsAreNat
<1>11. QED
  BY <1>3, <1>9, <1>10 DEF v

(* No answer to a read is older than one given before to a read of the     *)
(* same document: the view shows what the cache has, the cache takes newer *)
(* versions only, and the main queue keeps the order.                      *)
THEOREM ReadsForward == Spec => ReadsGoForward
<1>1. IInv /\ AInv /\ VInv /\ [Next]_vars =>
        [\A r, q \in Reads :
           /\ answers'[r] # answers[r] /\ answers[q] # <<>>
           /\ r \in DOMAIN reads /\ q \in DOMAIN reads /\ reads[q].doc = reads[r].doc
           /\ Good(Last(answers'[r])) /\ Good(Last(answers[q]))
           => VersionOf(Last(answers'[r])) >= VersionOf(Last(answers[q]))]_vars
  BY StepsGoForward
<1>2. QED
  BY IInvAlways, AInvAlways, VInvAlways, <1>1, PTL DEF Spec, ReadsGoForward

--------------------------------------------------------------------------------
(* ListensAgree *)

Unrefused(queue) == \A i \in DOMAIN queue : queue[i].change # "refused"

(* The last request for a document is for what the client wants of it;     *)
(* where there is none, the backend does already what the client wants.    *)
Asked(requests, targets, seen) ==
  \A d \in Docs :
    /\ \A i \in DOMAIN requests :
         /\ requests[i].doc = d
         /\ \A j \in DOMAIN requests : requests[j].doc = d => j <= i
         => (requests[i].op = "watch" <=> d \in targets)
    /\ (\A i \in DOMAIN requests : requests[i].doc # d) => (d \in seen <=> d \in targets)

WInv ==
  IsOpen(net) /\ refusals = 0 => Unrefused(down) /\ Asked(up, net.targets, watched)

LEMMA OrderIsAll ==
  ASSUME NEW S, IsFiniteSet(S), NEW order \in SetToSeqs(S)
  PROVE  \A s \in S : \E i \in DOMAIN order : order[i] = s
<1> DEFINE n == Cardinality(S)
<1>1. n \in Nat /\ order \in [1..n -> S] /\ \A i, j \in 1..n : i # j => order[i] # order[j]
  BY OrderOf
<1>2. IsFiniteSet(1..n) /\ Cardinality(1..n) = n
  BY <1>1, FS_Interval
<1>3. order \in Injection(1..n, S)
  BY <1>1 DEF Injection, IsInjective
<1> HIDE DEF n
<1>4. order \in Surjection(1..n, S)
  BY <1>2, <1>3, FS_Injection DEF n
<1>5. \A s \in S : \E i \in 1..n : order[i] = s
  BY <1>4 DEF Surjection
<1>6. QED
  BY <1>1, <1>5

LEMMA AskedMore ==
  ASSUME NEW requests \in Seq(Request), NEW targets, NEW seen, NEW request \in Request,
         Asked(requests, targets, seen)
  PROVE  LET d == request.doc IN
         /\ request.op = "watch" => Asked(Append(requests, request), targets \cup {d}, seen)
         /\ request.op = "unwatch" => Asked(Append(requests, request), targets \ {d}, seen)
<1> DEFINE d == request.doc
           more == Append(requests, request)
<1>1. request.op \in {"watch", "unwatch"} /\ d \in Docs
  BY DEF Request
<1>2. /\ Len(requests) \in Nat /\ DOMAIN requests = 1..Len(requests)
      /\ DOMAIN more = 1..(Len(requests) + 1) /\ more[Len(requests) + 1] = request
      /\ \A i \in DOMAIN requests : more[i] = requests[i]
  BY TailAndAppend
<1> HIDE DEF more
<1>3. ASSUME NEW wanted, request.op = "watch" <=> d \in wanted,
             \A e \in Docs : e # d => (e \in wanted <=> e \in targets)
      PROVE  Asked(more, wanted, seen)
  <2> SUFFICES ASSUME NEW e \in Docs
               PROVE  /\ \A i \in DOMAIN more :
                           /\ more[i].doc = e
                           /\ \A j \in DOMAIN more : more[j].doc = e => j <= i
                           => (more[i].op = "watch" <=> e \in wanted)
                      /\ (\A i \in DOMAIN more : more[i].doc # e) => (e \in seen <=> e \in wanted)
    BY DEF Asked
  <2>1. CASE e = d
    <3>1. Len(requests) + 1 \in DOMAIN more /\ more[Len(requests) + 1].doc = e
      BY <1>2, <2>1
    <3>2. ASSUME NEW i \in DOMAIN more, \A j \in DOMAIN more : more[j].doc = e => j <= i
          PROVE  more[i] = request
      BY <1>2, <3>1, <3>2
    <3>3. QED
      BY <1>3, <2>1, <3>1, <3>2
  <2>2. CASE e # d
    <3>1. ASSUME NEW i \in DOMAIN more, more[i].doc = e,
                 \A j \in DOMAIN more : more[j].doc = e => j <= i
          PROVE  more[i].op = "watch" <=> e \in wanted
      <4>1. i \in DOMAIN requests /\ more[i] = requests[i]
        BY <1>2, <2>2, <3>1
      <4>2. \A j \in DOMAIN requests : requests[j].doc = e => j <= i
        BY <1>2, <3>1
      <4>3. QED
        BY <1>3, <2>2, <3>1, <4>1, <4>2 DEF Asked
    <3>2. (\A i \in DOMAIN more : more[i].doc # e) => (e \in seen <=> e \in wanted)
      BY <1>2, <1>3, <2>2 DEF Asked
    <3>3. QED
      BY <3>1, <3>2
  <2>3. QED
    BY <2>1, <2>2
<1>4. QED
  BY <1>1, <1>3 DEF more

(* The backend has handled the request at the head. *)
LEMMA AskedLess ==
  ASSUME NEW requests \in Seq(Request), requests # <<>>, NEW targets, NEW seen,
         Asked(requests, targets, seen)
  PROVE  LET d == Head(requests).doc IN
         /\ Head(requests).op = "watch" => Asked(Tail(requests), targets, seen \cup {d})
         /\ Head(requests).op = "unwatch" => Asked(Tail(requests), targets, seen \ {d})
<1> DEFINE d == Head(requests).doc
           less == Tail(requests)
<1>1. /\ 1 \in DOMAIN requests /\ Head(requests) = requests[1]
      /\ \A i \in DOMAIN less : i + 1 \in DOMAIN requests /\ i + 1 # 1
                                /\ less[i] = requests[i + 1] /\ i \in Nat
      /\ \A i \in DOMAIN requests : i # 1 =>
           i - 1 \in DOMAIN less /\ less[i - 1] = requests[i]
      /\ DOMAIN requests \subseteq Nat
  BY TailIndices
<1>2. Head(requests) \in Request /\ d \in Docs
  <2>1. Head(requests) \in Request
    OBVIOUS
  <2>2. QED
    BY <2>1 DEF Request
<1> HIDE DEF less
<1>3. ASSUME NEW now, Head(requests).op = "watch" <=> d \in now,
             \A e \in Docs : e # d => (e \in now <=> e \in seen)
      PROVE  Asked(less, targets, now)
  <2> SUFFICES ASSUME NEW e \in Docs
               PROVE  /\ \A i \in DOMAIN less :
                           /\ less[i].doc = e
                           /\ \A j \in DOMAIN less : less[j].doc = e => j <= i
                           => (less[i].op = "watch" <=> e \in targets)
                      /\ (\A i \in DOMAIN less : less[i].doc # e) => (e \in now <=> e \in targets)
    BY DEF Asked
  <2>1. ASSUME NEW i \in DOMAIN less, less[i].doc = e,
               \A j \in DOMAIN less : less[j].doc = e => j <= i
        PROVE  less[i].op = "watch" <=> e \in targets
    <3>1. i + 1 \in DOMAIN requests /\ less[i] = requests[i + 1] /\ i \in Nat
      BY <1>1
    <3>2. ASSUME NEW j \in DOMAIN requests, requests[j].doc = e
          PROVE  j <= i + 1
      <4>1. CASE j = 1
        BY <3>1, <4>1
      <4>2. CASE j # 1
        <5>1. j - 1 \in DOMAIN less /\ less[j - 1].doc = e /\ j \in Nat
          BY <1>1, <3>2, <4>2
        <5>2. j - 1 <= i
          BY <2>1, <5>1
        <5>3. QED
          BY <3>1, <5>1, <5>2
      <4>3. QED
        BY <4>1, <4>2
    <3>3. QED
      BY <2>1, <3>1, <3>2 DEF Asked
  <2>2. ASSUME \A i \in DOMAIN less : less[i].doc # e
        PROVE  e \in now <=> e \in targets
    <3>1. \A i \in DOMAIN requests : i # 1 => requests[i].doc # e
      BY <1>1, <2>2
    <3>2. CASE e = d
      <4>1. \A j \in DOMAIN requests : requests[j].doc = e => j <= 1
        BY <3>1
      <4>2. QED
        BY <1>1, <1>3, <3>2, <4>1 DEF Asked
    <3>3. CASE e # d
      BY <1>1, <1>3, <3>1, <3>3 DEF Asked
    <3>4. QED
      BY <3>2, <3>3
  <2>3. QED
    BY <2>1, <2>2
<1>4. QED
  BY <1>2, <1>3 DEF less, Request

LEMMA StartedIsNotOpen ==
  ASSUME NEW n \in NetType, n.stream \in {"Initial", "Error"}
  PROVE  ~IsOpen(StartWatchStream(n))
<1> DEFINE m == [n EXCEPT !.stream = IF @ = "Error" THEN "Backoff" ELSE "Starting"]
           t == HandleWatchStreamStart(m)
<1>1. m \in NetType /\ m.stream \in {"Backoff", "Starting"}
  BY NetFields DEF NetType, StreamStates
<1>2. StartWatchStream(n) = t
  BY DEF StartWatchStream
<1> HIDE DEF m
<1>3. t.stream = m.stream
  BY <1>1, NetFields DEF HandleWatchStreamStart, HardAssert, NetType
<1>4. QED
  BY <1>1, <1>2, <1>3 DEF IsOpen

LEMMA FirstWInv == Init => WInv
BY DEF Init, WInv, IsOpen

(* Steps that neither ask nor are asked. *)
LEMMA SameAsked ==
  ASSUME WInv, UNCHANGED <<up, watched, refusals>>, net'.targets = net.targets,
         IsOpen(net') => IsOpen(net), Unrefused(down) => Unrefused(down')
  PROVE  WInv'
BY DEF WInv

LEMMA ListenKeepsWInv ==
  ASSUME IInv, IInv', WInv, AddQueryListener
  PROVE  WInv'
<1> DEFINE r == Head(ops).read
           d == reads[r].doc
           n == [net EXCEPT !.targets = @ \cup {d}, !.idle = FALSE]
           request == [op |-> "watch", doc |-> d]
<1>1. /\ ops # <<>> /\ IF HasView(d) THEN JoinView(r, d) ELSE Listen(r, d)
      /\ UNCHANGED <<down, watched, refusals>>
  BY DEF AddQueryListener, backend
<1>2. d \in Docs
  BY <1>1, PoppedOperation
<1> HIDE DEF d, r
<1>3. CASE HasView(d)
  <2>1. JoinView(r, d)
    BY <1>1, <1>3
  <2>2. net' = net /\ up' = up
    BY <2>1 DEF JoinView
  <2>3. QED
    BY <1>1, <2>2, SameAsked
<1>4. CASE ~HasView(d)
  <2>1. Listen(r, d)
    BY <1>1, <1>4
  <2>2. IF ShouldStartWatchStream(n)
        THEN net' = StartWatchStream(n) /\ agg' = NewAggregator /\ UNCHANGED up
        ELSE IF IsOpen(n)
        THEN net' = n /\ Send(request)
        ELSE net' = n /\ UNCHANGED <<agg, up>>
    BY <2>1 DEF Listen
  <2>3. d \notin net.targets /\ net \in NetType /\ NetOk(net) /\ up \in Seq(Request)
    BY <1>2, <1>4 DEF IInv, NetOk, TargetsOk, HasView, StreamOk
  <2>4. /\ n \in NetType /\ n.targets = net.targets \cup {d} /\ n.stream = net.stream
    BY <1>2, <2>3, NetFields DEF NetType
  <2>5. \A m : m = n => /\ net'.targets = net.targets \cup {d}
                        /\ ~IsOpen(net') => up' = up /\ ~IsOpen(net)
    BY <1>2, <2>2, <2>3, ListenStarts
  <2>6. net'.targets = net.targets \cup {d} /\ (IsOpen(net) => IsOpen(net'))
    BY <2>5
  <2> HIDE DEF n
  <2>7. IsOpen(net') => IsOpen(net) /\ Send(request)
    <3>1. CASE ShouldStartWatchStream(n)
      <4>1. n.stream \in {"Initial", "Error"}
        BY <2>4, <3>1, NetFields DEF ShouldStartWatchStream, IsStarted, StreamStates
      <4>2. net' = StartWatchStream(n)
        BY <2>2, <3>1
      <4>3. ~IsOpen(net')
        BY <2>4, <4>1, <4>2, StartedIsNotOpen
      <4>4. QED
        BY <4>3
    <3>2. CASE ~ShouldStartWatchStream(n)
      BY <2>2, <2>4, <3>2 DEF IsOpen
    <3>3. QED
      BY <3>1, <3>2
  <2>8. ASSUME IsOpen(net'), refusals' = 0
        PROVE  Unrefused(down') /\ Asked(up', net'.targets, watched')
    <3>1. IsOpen(net) /\ Send(request) /\ refusals = 0
      BY <1>1, <2>7, <2>8
    <3>2. up' = Append(up, request)
      BY <3>1 DEF Send
    <3>3. request \in Request /\ request.op = "watch" /\ request.doc = d
      BY <1>2 DEF Request
    <3>4. Unrefused(down) /\ Asked(up, net.targets, watched)
      BY <3>1 DEF WInv
    <3> HIDE DEF request
    <3>5. Asked(Append(up, request), net.targets \cup {request.doc}, watched)
      BY <2>3, <3>3, <3>4, AskedMore
    <3>6. Asked(up', net'.targets, watched')
      BY <1>1, <2>6, <3>2, <3>3, <3>5
    <3>7. QED
      BY <1>1, <3>4, <3>6
  <2>9. QED
    BY <2>8 DEF WInv
<1>5. QED
  BY <1>3, <1>4

LEMMA RemoveKeepsWInv ==
  ASSUME IInv, IInv', WInv, RemoveQueryListener
  PROVE  WInv'
<1> DEFINE r == Head(ops).read
           d == reads[r].doc
           request == [op |-> "unwatch", doc |-> d]
<1>1. /\ ops # <<>>
      /\ IF HasView(d) /\ views[d].listeners = {r}
         THEN StopListening(d)
         ELSE UNCHANGED <<net, agg, up>>
      /\ UNCHANGED <<down, watched, refusals>>
  BY DEF RemoveQueryListener, backend
<1>2. d \in Docs
  BY <1>1, PoppedOperation
<1> HIDE DEF d, r
<1>3. CASE ~(HasView(d) /\ views[d].listeners = {r})
  <2>1. net' = net /\ up' = up
    BY <1>1, <1>3
  <2>2. QED
    BY <1>1, <2>1, SameAsked
<1>4. CASE HasView(d) /\ views[d].listeners = {r}
  <2>1. StopListening(d) /\ d \in net.targets /\ up \in Seq(Request)
    BY <1>1, <1>2, <1>4 DEF IInv, TargetsOk, HasView, StreamOk
  <2>2. net'.targets = net.targets \ {d} /\ (IsOpen(net') <=> IsOpen(net))
    BY <1>2, <2>1, StopKeeps
  <2>3. IsOpen(net) => Send(request)
    BY <2>1 DEF StopListening
  <2>4. ASSUME IsOpen(net'), refusals' = 0
        PROVE  Unrefused(down') /\ Asked(up', net'.targets, watched')
    <3>1. IsOpen(net) /\ Send(request) /\ refusals = 0
      BY <1>1, <2>2, <2>3, <2>4
    <3>2. up' = Append(up, request)
      BY <3>1 DEF Send
    <3>3. request \in Request /\ request.op = "unwatch" /\ request.doc = d
      BY <1>2 DEF Request
    <3>4. Unrefused(down) /\ Asked(up, net.targets, watched)
      BY <3>1 DEF WInv
    <3> HIDE DEF request
    <3>5. Asked(Append(up, request), net.targets \ {request.doc}, watched)
      BY <2>1, <3>3, <3>4, AskedMore
    <3>6. Asked(up', net'.targets, watched')
      BY <1>1, <2>2, <3>2, <3>3, <3>5
    <3>7. QED
      BY <1>1, <3>4, <3>6
  <2>5. QED
    BY <2>4 DEF WInv
<1>5. QED
  BY <1>3, <1>4

LEMMA StreamOpensKeepsWInv ==
  ASSUME IInv, IInv', StreamOpens
  PROVE  WInv'
<1>1. /\ NetOk(net) /\ net \in NetType /\ net.stream = "Starting" /\ IsFiniteSet(net.targets)
      /\ net.targets \subseteq Docs
  BY NetFields DEF IInv, NetOk, StreamOpens
<1>2. net'.targets = net.targets
  BY <1>1 DEF StreamOpens, NetType
<1>3. watched' = {} /\ down' = <<>>
  BY <1>1 DEF StreamOpens, backend, IInv, StreamOk, IsOpen
<1>4. PICK order \in SetToSeqs(net.targets) :
        up' = [i \in DOMAIN order |-> [op |-> "watch", doc |-> order[i]]]
  BY DEF StreamOpens
<1>5. /\ \A i \in DOMAIN order : order[i] \in net.targets
      /\ \A d \in net.targets : \E i \in DOMAIN order : order[i] = d
  BY <1>1, OrderOf, OrderIsAll
<1>6. /\ DOMAIN up' = DOMAIN order
      /\ \A i \in DOMAIN order : up'[i].op = "watch" /\ up'[i].doc = order[i]
  BY <1>4
<1>7. Asked(up', net'.targets, watched')
  BY <1>2, <1>3, <1>5, <1>6 DEF Asked
<1>8. Unrefused(down')
  BY <1>3 DEF Unrefused
<1>9. QED
  BY <1>7, <1>8 DEF WInv

LEMMA UnrefusedMore ==
  ASSUME NEW queue \in Seq(Response), NEW m \in Response, NEW p \in Response,
         NEW q \in Response, Unrefused(queue), m.change # "refused",
         p.change # "refused", q.change # "refused"
  PROVE  /\ Unrefused(queue \o <<m, p, q>>) /\ Unrefused(queue \o <<m, p>>)
         /\ Unrefused(Append(queue, m))
BY DEF Unrefused

LEMMA UnrefusedLess ==
  ASSUME NEW queue \in Seq(Response), queue # <<>>, Unrefused(queue)
  PROVE  Unrefused(Tail(queue)) /\ Head(queue).change # "refused"
BY TailIndices DEF Unrefused

LEMMA BackendAddsKeepsWInv ==
  ASSUME IInv, WInv, BackendAdds
  PROVE  WInv'
<1> DEFINE d == Head(up).doc
           m == [change |-> "added", doc |-> d]
           p == [change |-> "current", doc |-> d, version |-> held[d]]
           q == [change |-> "snapshot"]
<1>1. /\ up # <<>> /\ Head(up).op = "watch" /\ up' = Tail(up)
      /\ watched' = watched \cup {d} /\ down' = down \o <<m, p, q>>
      /\ UNCHANGED <<net, refusals>>
  BY DEF BackendAdds
<1>2. /\ IsOpen(net) /\ d \in Docs /\ down \in Seq(Response) /\ held[d] \in Versions
      /\ up \in Seq(Request)
  BY <1>1, PoppedRequest DEF IInv, StreamOk
<1>3. /\ m \in Response /\ p \in Response /\ q \in Response
      /\ m.change # "refused" /\ p.change # "refused" /\ q.change # "refused"
  BY <1>2 DEF Response
<1> HIDE DEF m, p, q
<1>4. ASSUME refusals = 0
      PROVE  Unrefused(down') /\ Asked(up', net'.targets, watched')
  <2>1. Unrefused(down) /\ Asked(up, net.targets, watched)
    BY <1>2, <1>4 DEF WInv
  <2>2. Unrefused(down')
    BY <1>1, <1>2, <1>3, <2>1, UnrefusedMore
  <2>3. Asked(up', net'.targets, watched')
    BY <1>1, <1>2, <2>1, AskedLess
  <2>4. QED
    BY <2>2, <2>3
<1>5. QED
  BY <1>1, <1>4 DEF WInv

LEMMA BackendRemovesKeepsWInv ==
  ASSUME IInv, WInv, BackendRemoves
  PROVE  WInv'
<1> DEFINE d == Head(up).doc
           m == [change |-> "removed", doc |-> d]
<1>1. /\ up # <<>> /\ Head(up).op = "unwatch" /\ up' = Tail(up)
      /\ watched' = watched \ {d} /\ down' = Append(down, m)
      /\ UNCHANGED <<net, refusals>>
  BY DEF BackendRemoves
<1>2. /\ IsOpen(net) /\ d \in Docs /\ down \in Seq(Response) /\ up \in Seq(Request)
  BY <1>1, PoppedRequest DEF IInv, StreamOk
<1>3. m \in Response /\ m.change # "refused"
  BY <1>2 DEF Response
<1> HIDE DEF m
<1>4. ASSUME refusals = 0
      PROVE  Unrefused(down') /\ Asked(up', net'.targets, watched')
  <2>1. Unrefused(down) /\ Asked(up, net.targets, watched)
    BY <1>2, <1>4 DEF WInv
  <2>2. Unrefused(down')
    BY <1>1, <1>2, <1>3, <2>1, UnrefusedMore
  <2>3. Asked(up', net'.targets, watched')
    BY <1>1, <1>2, <2>1, AskedLess
  <2>4. QED
    BY <2>2, <2>3
<1>5. QED
  BY <1>1, <1>4 DEF WInv

LEMMA BackendRefusesKeepsWInv ==
  ASSUME IInv, BackendRefuses
  PROVE  WInv'
<1>1. refusals' # 0
  BY ReadBounds DEF BackendRefuses, IInv
<1>2. QED
  BY <1>1 DEF WInv

LEMMA DocumentChangesKeepsWInv ==
  ASSUME IInv, WInv, NEW d \in Docs, DocumentChanges(d)
  PROVE  WInv'
<1> DEFINE m == [change |-> "document", doc |-> d, version |-> held[d] + 1]
           p == [change |-> "snapshot"]
<1>1. /\ held[d] < MaxVersion /\ down' = IF d \notin watched THEN down ELSE down \o <<m, p>>
      /\ UNCHANGED <<net, up, watched, refusals>>
  BY DEF DocumentChanges
<1>2. down \in Seq(Response) /\ held[d] \in Versions
  BY DEF IInv, StreamOk
<1>3. held[d] + 1 \in Versions
  BY <1>1, <1>2, ReadBounds DEF Versions
<1>4. /\ m \in Response /\ p \in Response
      /\ m.change # "refused" /\ p.change # "refused"
  BY <1>3 DEF Response
<1> HIDE DEF m, p
<1>5. Unrefused(down) => Unrefused(down')
  BY <1>1, <1>2, <1>4, UnrefusedMore
<1>6. QED
  BY <1>1, <1>5, SameAsked

LEMMA OnWatchStreamChangeKeepsWInv ==
  ASSUME IInv, WInv, OnWatchStreamChange
  PROVE  WInv'
<1> DEFINE m == Head(down)
<1>1. /\ NetOk(net) /\ net \in NetType /\ IsOpen(net) /\ down \in Seq(Response) /\ down # <<>>
  BY DEF OnWatchStreamChange, IInv, StreamOk, NetOk
<1>2. /\ down' = Tail(down) /\ UNCHANGED <<up, watched, refusals>>
      /\ m.change = "refused" \/ net' = UpdateState(net, "Online")
  BY DEF OnWatchStreamChange, backend
<1> HIDE DEF m
<1>3. net' = UpdateState(net, "Online") => net'.targets = net.targets
  BY <1>1 DEF UpdateState, NetType
<1>4. ASSUME refusals = 0
      PROVE  Unrefused(down') /\ Asked(up', net'.targets, watched')
  <2>1. Unrefused(down) /\ Asked(up, net.targets, watched)
    BY <1>1, <1>4 DEF WInv
  <2>2. Unrefused(down') /\ m.change # "refused"
    BY <1>1, <1>2, <2>1, UnrefusedLess DEF m
  <2>3. QED
    BY <1>2, <1>3, <2>1, <2>2
<1>5. QED
  BY <1>2, <1>4 DEF WInv

LEMMA NextKeepsWInv ==
  ASSUME IInv, IInv', WInv, [Next]_vars
  PROVE  WInv'
<1>1. CASE AddQueryListener
  BY <1>1, ListenKeepsWInv
<1>2. CASE RemoveQueryListener
  BY <1>2, RemoveKeepsWInv
<1>3. CASE StreamOpens
  BY <1>3, StreamOpensKeepsWInv
<1>4. CASE BackendAdds \/ BackendRemoves \/ BackendRefuses
  BY <1>4, BackendAddsKeepsWInv, BackendRemovesKeepsWInv, BackendRefusesKeepsWInv
<1>5. ASSUME NEW d \in Docs, DocumentChanges(d)
      PROVE  WInv'
  BY <1>5, DocumentChangesKeepsWInv
<1>6. CASE OnWatchStreamChange
  BY <1>6, OnWatchStreamChangeKeepsWInv
<1>7. CASE StreamDoesNotOpen \/ StreamBreaks
  <2>1. NetOk(net) /\ IsStarted(net)
    BY <1>7 DEF IInv, StreamDoesNotOpen, StreamBreaks, IsStarted, IsOpen
  <2>2. net' = CloseWithError(net)
    BY <1>7 DEF StreamDoesNotOpen, StreamBreaks, Broadcast
  <2>3. ~IsOpen(net')
    BY <2>1, <2>2, ErrorCloses
  <2>4. QED
    BY <2>3 DEF WInv
<1>8. CASE IdleTimeout
  BY <1>8, IdleCloses DEF IdleTimeout, IInv, WInv
<1>9. CASE NetworkRestarts
  BY <1>9, RestartRestarts DEF NetworkRestarts, IInv, WInv
<1>10. CASE BackoffElapses
  <2>1. ~IsOpen(net')
    BY <1>10 DEF BackoffElapses, IsOpen, IInv, NetOk, NetType
  <2>2. QED
    BY <2>1 DEF WInv
<1>11. CASE OnlineStateTimeout
  <2>1. net \in NetType
    BY DEF IInv, NetOk
  <2>2. /\ net' = [HardAssert(net, net.online = "Unknown") EXCEPT !.timer = FALSE,
                                                                  !.online = "Offline"]
        /\ UNCHANGED <<up, down, watched, refusals>>
    BY <1>11 DEF OnlineStateTimeout, Broadcast, backend
  <2>3. net'.targets = net.targets /\ net'.stream = net.stream
    BY <2>1, <2>2 DEF HardAssert, NetType
  <2>4. QED
    BY <2>2, <2>3, SameAsked DEF IsOpen
<1>12. ASSUME \/ \E d \in Docs : GetDocument(d)
              \/ RunEvent
              \/ UNCHANGED vars
       PROVE  WInv'
  <2>1. UNCHANGED <<net, up, down, watched, refusals>>
    BY <1>12 DEF GetDocument, RunEvent, vars, backend
  <2>2. QED
    BY <2>1, SameAsked
<1>13. QED
  BY <1>1, <1>2, <1>3, <1>4, <1>5, <1>6, <1>7, <1>8, <1>9, <1>10, <1>11, <1>12 DEF Next

LEMMA WInvAlways == Spec => []WInv
<1>1. IInv /\ IInv' /\ WInv /\ [Next]_vars => WInv'
  BY NextKeepsWInv
<1>2. QED
  BY FirstWInv, IInvAlways, <1>1, PTL DEF Spec

LEMMA InvAgrees ==
  ASSUME IInv, AInv, WInv
  PROVE  ListensAgree
<1>1. net.targets = {d \in Docs : HasView(d)}
  BY NetFields DEF IInv, NetOk, TargetsOk, HasView
<1>2. \A d \in Docs : HasView(d) => views[d].listeners # {}
  BY DEF IInv, ViewsOk, HasView
<1>3. ASSUME IsOpen(net), up = <<>>, refusals = 0
      PROVE  watched = net.targets
  <2>1. Asked(up, net.targets, watched)
    BY <1>3 DEF WInv
  <2>2. \A d \in Docs : d \in watched <=> d \in net.targets
    BY <1>3, <2>1 DEF Asked
  <2>3. watched \subseteq Docs /\ net.targets \subseteq Docs
    BY NetFields DEF IInv, StreamOk, NetOk
  <2>4. QED
    BY <2>2, <2>3
<1>4. ASSUME ops = <<>>, events = <<>>, \A r \in DOMAIN reads : answers[r] # <<>>,
             NEW d \in Docs, HasView(d)
      PROVE  FALSE
  <2>1. PICK r \in views[d].listeners : TRUE
    BY <1>2, <1>4
  <2>2. r \in DOMAIN reads /\ r \in Reads /\ Hears(views, r)
    BY <1>4, ListenersRead DEF Hears
  <2>3. answers[r] # <<>>
    BY <1>4, <2>2
  <2>4. r \in muted
    BY <2>2, <2>3 DEF AInv, AnsweredIsDone
  <2>5. \E i \in DOMAIN ops : ops[i] = [op |-> "remove", read |-> r]
    BY <2>2, <2>4 DEF AInv, MutedAreRemoved
  <2>6. QED
    BY <1>4, <2>5
<1>5. QED
  BY <1>1, <1>2, <1>3, <1>4 DEF ListensAgree

(* EventManager, RemoteStore and, when nothing is on its way and no listen *)
(* was refused, the backend agree on what is listened to; when every read  *)
(* is answered and nothing is queued, nothing is listened to any more.     *)
THEOREM ListeningAgrees == Spec => []ListensAgree
<1>1. IInv /\ AInv /\ WInv => ListensAgree
  BY InvAgrees
<1>2. QED
  BY IInvAlways, AInvAlways, WInvAlways, <1>1, PTL

--------------------------------------------------------------------------------
(* FreshAnswers: the floors of the listens *)

(* The floor of the listen that a view began with. *)
Floor(d) == reads[views[d].by].floor

(* Who joins a view has its floor, and who began it is not heard again.    *)
FloorsOk ==
  \A d \in Docs : HasView(d) =>
    /\ views[d].by \in views[d].listeners \/ views[d].by \in muted
    /\ \A r \in views[d].listeners : reads[r].floor = Floor(d)
    /\ held[d] >= Floor(d)

RemovedAreMuted == \A i \in DOMAIN ops : ops[i].op = "remove" => ops[i].read \in muted

(* A listener whose first event was not raised was told nothing. *)
RaisedAreTold ==
  \A d \in Docs : \A r \in views[d].listeners : r \notin views[d].raised =>
    r \notin muted /\ Silent(events, r)

LInv == FloorsOk /\ RemovedAreMuted /\ RaisedAreTold

LEMMA FirstLInv == Init => LInv
BY ViewFields DEF Init, LInv, FloorsOk, RemovedAreMuted, RaisedAreTold, HasView

LEMMA FloorsAreNat ==
  ASSUME IInv
  PROVE  /\ \A r \in DOMAIN reads : reads[r].floor \in Nat /\ reads[r].doc \in Docs
         /\ \A d \in Docs : HasView(d) => views[d].by \in DOMAIN reads /\ Floor(d) \in Nat
         /\ \A d \in Docs : held[d] \in Nat /\ cached[d] \in Nat
<1>1. \A r \in DOMAIN reads : reads[r] \in ReadRecord
  BY DEF IInv, ReadsOk
<1>2. \A r \in DOMAIN reads : reads[r].floor \in Nat /\ reads[r].doc \in Docs
  BY <1>1, VersionsAreNat DEF ReadRecord
<1>3. \A d \in Docs : HasView(d) => views[d].by \in DOMAIN reads
  BY DEF IInv, ViewsOk, HasView
<1>4. \A d \in Docs : held[d] \in Nat /\ cached[d] \in Nat
  BY VersionsAreNat DEF IInv
<1>5. QED
  BY <1>2, <1>3, <1>4 DEF Floor

(* Who is told a snapshot is a listener of the view after the step, and    *)
(* its first event is raised.                                              *)
LEMMA ToldAreRaised ==
  ASSUME IInv, IInv', SameReads, Telling, NEW d \in Docs, NEW r \in views'[d].listeners,
         r \notin views'[d].raised, Silent(events, r)
  PROVE  Silent(events', r)
<1>1. PICK toRead \in SUBSET DOMAIN reads : \E said :
        Tells(events, events', toRead, said) /\ TellsViews(toRead, said)
  BY DEF Telling
<1>2. PICK said : Tells(events, events', toRead, said) /\ TellsViews(toRead, said)
  BY <1>1
<1>3. r \in DOMAIN reads' /\ reads'[r].doc = d /\ views'[d] # NoView
  BY ViewFields DEF IInv, ViewsOk
<1>4. reads[r].doc = d
  BY <1>3 DEF SameReads
<1>5. r \notin toRead
  BY <1>2, <1>3, <1>4 DEF TellsViews
<1>6. \A i \in DOMAIN events' : \/ i \in DOMAIN events /\ events'[i] = events[i]
                                \/ i > Len(events) /\ i \in DOMAIN events'
  <2>1. events \in Seq(EventType) /\ events' \in Seq(EventType)
    BY DEF IInv
  <2>2. QED
    BY <1>2, <2>1 DEF Tells
<1>7. QED
  BY <1>2, <1>5, <1>6 DEF Tells, Silent

(* A step that neither adds a listener nor touches a read. *)
LEMMA StepKeepsLInv ==
  ASSUME IInv, IInv', LInv, Telling, UNCHANGED <<reads, muted, ops>>,
         \A d \in Docs : views'[d] = NoView \/ (HasView(d) /\ Stays(d)),
         \A d \in Docs : held'[d] >= held[d]
  PROVE  LInv'
<1>1. FloorsOk'
  <2> SUFFICES ASSUME NEW d \in Docs, views'[d] # NoView
               PROVE  /\ views'[d].by \in views'[d].listeners \/ views'[d].by \in muted'
                      /\ \A r \in views'[d].listeners : reads'[r].floor = Floor(d)'
                      /\ held'[d] >= Floor(d)'
    BY DEF FloorsOk, HasView
  <2>1. HasView(d) /\ Stays(d) /\ held'[d] >= held[d]
    OBVIOUS
  <2>2. /\ views[d].by \in views[d].listeners \/ views[d].by \in muted
        /\ \A r \in views[d].listeners : reads[r].floor = Floor(d)
        /\ held[d] >= Floor(d)
    BY <2>1 DEF LInv, FloorsOk
  <2>3. Floor(d)' = Floor(d) /\ Floor(d) \in Nat /\ held[d] \in Nat /\ held'[d] \in Nat
    BY <2>1, FloorsAreNat DEF Stays, Floor, IInv, Versions
  <2>4. QED
    BY <2>1, <2>2, <2>3 DEF Stays
<1>2. RemovedAreMuted'
  BY DEF LInv, RemovedAreMuted
<1>3. RaisedAreTold'
  <2> SUFFICES ASSUME NEW d \in Docs, NEW r \in views'[d].listeners, r \notin views'[d].raised
               PROVE  r \notin muted' /\ Silent(events', r)
    BY DEF RaisedAreTold
  <2>1. HasView(d) /\ Stays(d)
    BY ViewFields
  <2>2. r \in views[d].listeners /\ r \notin views[d].raised
    BY <2>1 DEF Stays
  <2>3. r \notin muted /\ Silent(events, r)
    BY <2>2 DEF LInv, RaisedAreTold
  <2>4. SameReads
    BY DEF SameReads
  <2>5. QED
    BY <2>3, <2>4, ToldAreRaised
<1>4. QED
  BY <1>1, <1>2, <1>3 DEF LInv

LEMMA GetDocumentKeepsLInv ==
  ASSUME IInv, LInv, NEW d \in Docs, GetDocument(d)
  PROVE  LInv'
<1>1. /\ UNCHANGED <<events, muted, views, held>> /\ ops \in Seq(Operation)
      /\ ops' = Append(ops, [op |-> "listen", read |-> Len(reads) + 1])
      /\ Len(reads) + 1 \in Reads
  BY VersionsAreNat DEF GetDocument, IInv, ReadsOk, Reads, backend
<1>2. \A r \in DOMAIN reads : reads'[r] = reads[r]
  BY GetDocumentKeeps
<1>3. FloorsOk'
  <2>1. \A e \in Docs : HasView(e) => Floor(e)' = Floor(e)
    BY <1>1, <1>2, FloorsAreNat DEF Floor
  <2>2. \A e \in Docs : \A r \in views[e].listeners : reads'[r].floor = reads[r].floor
    BY <1>2, ListenersRead
  <2>3. QED
    BY <1>1, <2>1, <2>2 DEF LInv, FloorsOk, HasView
<1>4. RemovedAreMuted'
  <2>1. [op |-> "listen", read |-> Len(reads) + 1] \in Operation
    BY <1>1 DEF Operation
  <2>2. \A i \in DOMAIN ops' : (i \in DOMAIN ops /\ ops'[i] = ops[i]) \/ ops'[i].op = "listen"
    BY <1>1, <2>1
  <2>3. QED
    BY <1>1, <2>2 DEF LInv, RemovedAreMuted
<1>5. RaisedAreTold'
  BY <1>1 DEF LInv, RaisedAreTold
<1>6. QED
  BY <1>3, <1>4, <1>5 DEF LInv

LEMMA RunEventKeepsLInv ==
  ASSUME IInv, LInv, RunEvent
  PROVE  LInv'
<1> DEFINE r == events[1].read
           op == [op |-> "remove", read |-> r]
<1>1. /\ events \in Seq(EventType) /\ events # <<>> /\ events' = Tail(events)
      /\ UNCHANGED <<reads, views, held>> /\ ops \in Seq(Operation)
  BY DEF RunEvent, IInv, backend
<1>2. /\ 1 \in DOMAIN events /\ Head(events) = events[1]
      /\ \A i \in DOMAIN events' : i + 1 \in DOMAIN events /\ events'[i] = events[i + 1]
  BY <1>1, TailIndices
<1>3. /\ muted' = muted \/ muted' = muted \cup {r}
      /\ ops' = ops \/ (ops' = Append(ops, op) /\ muted' = muted \cup {r})
  BY <1>2 DEF RunEvent
<1>4. op \in Operation /\ op.read = r
  BY <1>2, EventFields DEF Operation
<1>5. \A q : Silent(events, q) => Silent(events', q) /\ q # r
  BY <1>2 DEF Silent
<1> HIDE DEF op, r
<1>6. RemovedAreMuted'
  <2>1. \A i \in DOMAIN ops' : \/ i \in DOMAIN ops /\ ops'[i] = ops[i]
                               \/ ops'[i].read = r /\ r \in muted'
    <3>1. \A i \in DOMAIN Append(ops, op) : \/ i \in DOMAIN ops /\ Append(ops, op)[i] = ops[i]
                                           \/ Append(ops, op)[i] = op
      BY <1>1, <1>4
    <3>2. r \in muted \cup {r}
      OBVIOUS
    <3>3. QED
      BY <1>3, <1>4, <3>1, <3>2
  <2>2. QED
    BY <1>3, <2>1 DEF LInv, RemovedAreMuted
<1>7. FloorsOk'
  <2>1. \A d \in Docs : Floor(d)' = Floor(d)
    BY <1>1 DEF Floor
  <2>2. QED
    BY <1>1, <1>3, <2>1 DEF LInv, FloorsOk, HasView
<1>8. RaisedAreTold'
  BY <1>1, <1>3, <1>5 DEF LInv, RaisedAreTold
<1>9. QED
  BY <1>6, <1>7, <1>8 DEF LInv

(* A listen changes the floor of its own read only, of which nothing was   *)
(* heard and from which no view began.                                     *)
LEMMA ListenSetsFloor ==
  ASSUME IInv, AInv, LInv, AddQueryListener
  PROVE  LET r == Head(ops).read
             d == reads[r].doc
         IN /\ r \in DOMAIN reads /\ d \in Docs
            /\ New(answers, muted, views, events, r)
            /\ \A q \in DOMAIN reads : q # r => reads'[q] = reads[q]
            /\ \A e \in Docs : HasView(e) => views[e].by # r /\ r \notin views[e].listeners
            /\ HasView(d) => JoinView(r, d) /\ reads'[r].floor = Floor(d)
            /\ ~HasView(d) => Listen(r, d) /\ reads'[r].floor = held[d]
<1> DEFINE r == Head(ops).read
           d == reads[r].doc
<1>1. /\ ops # <<>> /\ Head(ops).op = "listen"
      /\ IF HasView(d) THEN JoinView(r, d) ELSE Listen(r, d)
  BY DEF AddQueryListener
<1>2. r \in DOMAIN reads /\ r \in Reads /\ d \in Docs
  BY <1>1, PoppedOperation
<1>3. New(answers, muted, views, events, r)
  <2>1. 1 \in DOMAIN ops /\ Head(ops) = ops[1]
    BY <1>1, TailIndices DEF IInv
  <2>2. QED
    BY <1>1, <2>1 DEF AInv, ListensAreNew
<1>4. \A e \in Docs : HasView(e) => views[e].by # r /\ r \notin views[e].listeners
  BY <1>3 DEF New, Hears, LInv, FloorsOk
<1> HIDE DEF r
<1>5. reads \in Seq(ReadRecord)
  BY DEF IInv, ReadsOk
<1>6. HasView(d) => JoinView(r, d) /\ reads' = [reads EXCEPT ![r].floor = Floor(d)]
  BY <1>1 DEF JoinView, Floor
<1>7. ~HasView(d) => Listen(r, d) /\ reads' = [reads EXCEPT ![r].floor = held[d]]
  BY <1>1 DEF Listen
<1>8. \A f : LET rs == [reads EXCEPT ![r].floor = f] IN
        rs[r].floor = f /\ \A q \in DOMAIN reads : q # r => rs[q] = reads[q]
  <2>1. reads[r] \in ReadRecord
    BY <1>2, <1>5
  <2>2. QED
    BY <1>2, <1>5, <2>1 DEF ReadRecord
<1>9. QED
  BY <1>2, <1>3, <1>4, <1>6, <1>7, <1>8 DEF r

LEMMA AddQueryListenerKeepsLInv ==
  ASSUME IInv, IInv', AInv, LInv, AddQueryListener
  PROVE  LInv'
<1> DEFINE r == Head(ops).read
           d == reads[r].doc
<1>1. /\ r \in DOMAIN reads /\ d \in Docs
      /\ New(answers, muted, views, events, r)
      /\ \A q \in DOMAIN reads : q # r => reads'[q] = reads[q]
      /\ \A e \in Docs : HasView(e) => views[e].by # r /\ r \notin views[e].listeners
      /\ HasView(d) => JoinView(r, d) /\ reads'[r].floor = Floor(d)
      /\ ~HasView(d) => Listen(r, d) /\ reads'[r].floor = held[d]
  BY ListenSetsFloor
<1>2. /\ Telling /\ SameReads /\ views'[d].listeners = views[d].listeners \cup {r}
      /\ \A e \in Docs : e # d => views'[e] = views[e]
  BY AddQueryListenerKeeps
<1>3. /\ ops # <<>> /\ ops' = Tail(ops)
      /\ UNCHANGED <<muted, answers, held, down, watched>> /\ ops \in Seq(Operation)
  BY DEF AddQueryListener, IInv, backend
<1> HIDE DEF r, d
<1>4. d = reads[r].doc
  BY DEF d
<1>5. \A e \in Docs : HasView(e) /\ views'[e].by = views[e].by => Floor(e)' = Floor(e)
  BY <1>1, FloorsAreNat DEF Floor
<1>6. \A e \in Docs : \A q \in views[e].listeners :
        q # r /\ q \in DOMAIN reads /\ reads'[q].floor = reads[q].floor
  <2>1. \A e \in Docs : \A q \in views[e].listeners : q \in DOMAIN reads /\ HasView(e)
    BY ListenersRead DEF HasView
  <2>2. QED
    BY <1>1, <2>1
<1>7. ASSUME HasView(d)
      PROVE  /\ views'[d].by = views[d].by
             /\ views'[d].raised = views[d].raised \/ views'[d].raised = views[d].raised \cup {r}
  BY <1>1, <1>4, <1>7, JoinKeeps
<1>8. ASSUME ~HasView(d)
      PROVE  views'[d].by = r /\ views'[d].listeners = {r}
  <2>1. views[d].listeners = {}
    BY <1>8, ViewFields DEF HasView
  <2>2. QED
    BY <1>1, <1>2, <1>3, <1>4, <1>8, <2>1, ListenKeeps
<1>9. FloorsOk'
  <2> SUFFICES ASSUME NEW e \in Docs, views'[e] # NoView
               PROVE  /\ views'[e].by \in views'[e].listeners \/ views'[e].by \in muted'
                      /\ \A q \in views'[e].listeners : reads'[q].floor = Floor(e)'
                      /\ held'[e] >= Floor(e)'
    BY DEF FloorsOk, HasView
  <2>1. CASE HasView(e)
    <3>1. views'[e].by = views[e].by
      BY <1>2, <1>7, <2>1
    <3>2. /\ views'[e].listeners = views[e].listeners
             \/ (e = d /\ views'[e].listeners = views[e].listeners \cup {r})
      BY <1>2
    <3>3. /\ views[e].by \in views[e].listeners \/ views[e].by \in muted
          /\ \A q \in views[e].listeners : reads[q].floor = Floor(e)
          /\ held[e] >= Floor(e)
      BY <2>1 DEF LInv, FloorsOk
    <3>4. e = d => reads'[r].floor = Floor(e)
      BY <1>1, <2>1
    <3>5. Floor(e)' = Floor(e)
      BY <1>5, <2>1, <3>1
    <3>6. QED
      BY <1>3, <1>6, <3>1, <3>2, <3>3, <3>4, <3>5
  <2>2. CASE ~HasView(e)
    <3>1. e = d
      BY <1>2, <2>2 DEF HasView
    <3>2. Floor(e)' = held[e]
      BY <1>1, <1>8, <2>2, <3>1 DEF Floor
    <3>3. held[e] \in Nat /\ held'[e] = held[e]
      BY <1>3, FloorsAreNat
    <3>4. QED
      BY <1>1, <1>8, <2>2, <3>1, <3>2, <3>3
  <2>3. QED
    BY <2>1, <2>2
<1>10. RemovedAreMuted'
  BY <1>3, TailIndices DEF LInv, RemovedAreMuted
<1>11. RaisedAreTold'
  <2> SUFFICES ASSUME NEW e \in Docs, NEW q \in views'[e].listeners, q \notin views'[e].raised
               PROVE  q \notin muted' /\ Silent(events', q)
    BY DEF RaisedAreTold
  <2>1. q \notin muted /\ Silent(events, q)
    <3>1. CASE q = r
      BY <1>1, <3>1 DEF New
    <3>2. CASE q # r
      <4>1. q \in views[e].listeners
        BY <1>2, <3>2
      <4>2. HasView(e)
        BY <4>1, ViewFields DEF HasView
      <4>3. q \notin views[e].raised
        BY <1>2, <1>7, <4>2
      <4>4. QED
        BY <4>1, <4>3 DEF LInv, RaisedAreTold
    <3>3. QED
      BY <3>1, <3>2
  <2>2. QED
    BY <1>2, <1>3, <2>1, ToldAreRaised
<1>12. QED
  BY <1>9, <1>10, <1>11 DEF LInv

(* What the removal of a listener does to the view of its document. *)
LEMMA RemoveLeaves ==
  ASSUME IInv, RemoveQueryListener
  PROVE  LET r == Head(ops).read
             d == reads[r].doc
         IN /\ r \in DOMAIN reads /\ d \in Docs
            /\ \A e \in Docs : e # d => views'[e] = views[e]
            /\ HasView(d) /\ views[d].listeners = {r} => views'[d] = NoView /\ StopListening(d)
            /\ ~(HasView(d) /\ views[d].listeners = {r}) =>
                 /\ UNCHANGED <<net, agg, up>>
                 /\ views'[d] # NoView => HasView(d)
                 /\ HasView(d) => /\ views'[d] # NoView /\ views'[d].by = views[d].by
                                  /\ views'[d].listeners = views[d].listeners \ {r}
                                  /\ views'[d].raised = views[d].raised \ {r}
                                  /\ views'[d].current = views[d].current
                                  /\ views'[d].version = views[d].version
<1> DEFINE r == Head(ops).read
           d == reads[r].doc
<1>1. /\ ops # <<>>
      /\ IF HasView(d) /\ views[d].listeners = {r}
         THEN /\ views' = [views EXCEPT ![d] = NoView]
              /\ StopListening(d)
         ELSE /\ views' = IF HasView(d)
                         THEN [views EXCEPT ![d].listeners = @ \ {r}, ![d].raised = @ \ {r}]
                         ELSE views
              /\ UNCHANGED <<net, agg, up>>
  BY DEF RemoveQueryListener
<1>2. r \in DOMAIN reads /\ d \in Docs /\ views \in [Docs -> View \cup {NoView}]
  BY <1>1, PoppedOperation DEF IInv, ViewsOk
<1> HIDE DEF d, r
<1>3. CASE HasView(d) /\ views[d].listeners = {r}
  <2>1. views' = [views EXCEPT ![d] = NoView] /\ StopListening(d)
    BY <1>1, <1>3
  <2>2. views'[d] = NoView /\ \A e \in Docs : e # d => views'[e] = views[e]
    BY <1>2, <2>1
  <2>3. QED
    BY <1>2, <1>3, <2>1, <2>2 DEF d, r
<1>4. CASE ~(HasView(d) /\ views[d].listeners = {r})
  <2>1. UNCHANGED <<net, agg, up>>
    BY <1>1, <1>4
  <2>2. CASE HasView(d)
    <3>1. views' = [views EXCEPT ![d].listeners = @ \ {r}, ![d].raised = @ \ {r}]
      BY <1>1, <1>4, <2>2
    <3>2. views[d] \in View
      BY <1>2, <2>2 DEF HasView
    <3>3. /\ views'[d].by = views[d].by
          /\ views'[d].listeners = views[d].listeners \ {r}
          /\ views'[d].raised = views[d].raised \ {r}
          /\ views'[d].current = views[d].current
          /\ views'[d].version = views[d].version
          /\ \A e \in Docs : e # d => views'[e] = views[e]
      BY <1>2, <3>1, <3>2 DEF View
    <3>4. views'[d] # NoView
      <4>1. "by" \in DOMAIN views'[d]
        BY <1>2, <3>1, <3>2 DEF View
      <4>2. "by" \notin DOMAIN NoView
        BY DEF NoView
      <4>3. QED
        BY <4>1, <4>2
    <3>5. QED
      BY <1>2, <1>4, <2>1, <2>2, <3>3, <3>4 DEF d, r
  <2>3. CASE ~HasView(d)
    <3>1. views' = views
      BY <1>1, <1>4, <2>3
    <3>2. QED
      BY <1>2, <1>4, <2>1, <2>3, <3>1 DEF d, r, HasView
  <2>4. QED
    BY <2>2, <2>3
<1>5. QED
  BY <1>3, <1>4

LEMMA RemoveQueryListenerKeepsLInv ==
  ASSUME IInv, IInv', LInv, RemoveQueryListener
  PROVE  LInv'
<1> DEFINE r == Head(ops).read
           d == reads[r].doc
<1>1. /\ ops # <<>> /\ ops' = Tail(ops) /\ Head(ops).op = "remove"
      /\ UNCHANGED <<reads, events, muted, held>> /\ ops \in Seq(Operation)
  BY DEF RemoveQueryListener, app, IInv, backend
<1>2. r \in muted
  <2>1. 1 \in DOMAIN ops /\ Head(ops) = ops[1]
    BY <1>1, TailIndices
  <2>2. QED
    BY <1>1, <2>1 DEF LInv, RemovedAreMuted
<1>3. \A e \in Docs : views'[e] # NoView =>
        /\ HasView(e) /\ views'[e].by = views[e].by
        /\ \/ views'[e] = views[e]
           \/ /\ views'[e].listeners = views[e].listeners \ {r}
              /\ views'[e].raised = views[e].raised \ {r}
  BY RemoveLeaves DEF HasView
<1> HIDE DEF r, d
<1>4. \A e \in Docs : Floor(e)' = IF views'[e].by = views[e].by THEN Floor(e) ELSE Floor(e)'
  BY <1>1 DEF Floor
<1>5. FloorsOk'
  <2> SUFFICES ASSUME NEW e \in Docs, views'[e] # NoView
               PROVE  /\ views'[e].by \in views'[e].listeners \/ views'[e].by \in muted'
                      /\ \A q \in views'[e].listeners : reads'[q].floor = Floor(e)'
                      /\ held'[e] >= Floor(e)'
    BY DEF FloorsOk, HasView
  <2>1. /\ views[e].by \in views[e].listeners \/ views[e].by \in muted
        /\ \A q \in views[e].listeners : reads[q].floor = Floor(e)
        /\ held[e] >= Floor(e)
    BY <1>3 DEF LInv, FloorsOk
  <2>2. QED
    BY <1>1, <1>2, <1>3, <1>4, <2>1
<1>6. RemovedAreMuted'
  BY <1>1, TailIndices DEF LInv, RemovedAreMuted
<1>7. RaisedAreTold'
  <2> SUFFICES ASSUME NEW e \in Docs, NEW q \in views'[e].listeners, q \notin views'[e].raised
               PROVE  q \notin muted' /\ Silent(events', q)
    BY DEF RaisedAreTold
  <2>1. q \in views[e].listeners /\ q \notin views[e].raised
    BY <1>3, ViewFields
  <2>2. QED
    BY <1>1, <2>1 DEF LInv, RaisedAreTold
<1>8. QED
  BY <1>5, <1>6, <1>7 DEF LInv

LEMMA NextKeepsLInv ==
  ASSUME IInv, IInv', AInv, LInv, [Next]_vars
  PROVE  LInv'
<1>1. ASSUME NEW d \in Docs, GetDocument(d)
      PROVE  LInv'
  BY <1>1, GetDocumentKeepsLInv
<1>2. CASE RunEvent
  BY <1>2, RunEventKeepsLInv
<1>3. CASE AddQueryListener
  BY <1>3, AddQueryListenerKeepsLInv
<1>4. CASE RemoveQueryListener
  BY <1>4, RemoveQueryListenerKeepsLInv
<1>5. \A d \in Docs : held[d] \in Nat
  BY FloorsAreNat
<1>6. CASE StreamDoesNotOpen \/ StreamBreaks \/ OnlineStateTimeout
  <2>1. Telling /\ ViewsKept
    BY <1>6, StreamDoesNotOpenKeeps, StreamBreaksKeeps, OnlineStateTimeoutKeeps
  <2>2. UNCHANGED <<reads, muted, ops, held>>
    BY <1>6 DEF StreamDoesNotOpen, StreamBreaks, OnlineStateTimeout, backend
  <2>3. \A d \in Docs : views'[d] = NoView \/ (HasView(d) /\ Stays(d))
    BY <2>1 DEF ViewsKept, HasView
  <2>4. QED
    BY <1>5, <2>1, <2>2, <2>3, StepKeepsLInv
<1>7. CASE OnWatchStreamChange
  <2>1. UNCHANGED <<reads, muted, ops, held>>
    BY <1>7 DEF OnWatchStreamChange, backend
  <2>2. QED
    BY <1>5, <1>7, <2>1, OnWatchStreamChangeKeeps, StepKeepsLInv
<1>8. ASSUME \/ StreamOpens \/ BackoffElapses \/ IdleTimeout \/ NetworkRestarts
             \/ BackendAdds \/ BackendRefuses \/ BackendRemoves
             \/ \E d \in Docs : DocumentChanges(d)
             \/ UNCHANGED vars
      PROVE  LInv'
  <2>1. UNCHANGED <<reads, events, views, muted, ops>>
    BY <1>8 DEF StreamOpens, BackoffElapses, IdleTimeout, NetworkRestarts, BackendAdds,
                BackendRefuses, BackendRemoves, DocumentChanges, app, vars
  <2>2. \A d \in Docs : held'[d] >= held[d]
    <3>1. CASE \E d \in Docs : DocumentChanges(d)
      BY <1>5, <3>1 DEF DocumentChanges, IInv
    <3>2. CASE ~\E d \in Docs : DocumentChanges(d)
      <4>1. held' = held
        BY <1>8, <3>2 DEF StreamOpens, BackoffElapses, IdleTimeout, NetworkRestarts,
           BackendAdds, BackendRefuses, BackendRemoves, vars, backend
      <4>2. QED
        BY <1>5, <4>1
    <3>3. QED
      BY <3>1, <3>2
  <2>3. \A d \in Docs : views'[d] = NoView \/ (HasView(d) /\ Stays(d))
    BY <2>1 DEF Stays, HasView
  <2>4. QED
    BY <2>1, <2>2, <2>3, NothingTold, StepKeepsLInv
<1>9. QED
  BY <1>1, <1>2, <1>3, <1>4, <1>6, <1>7, <1>8 DEF Next

LEMMA LInvAlways == Spec => []LInv
<1>1. IInv /\ IInv' /\ AInv /\ LInv /\ [Next]_vars => LInv'
  BY NextKeepsLInv
<1>2. QED
  BY FirstLInv, IInvAlways, AInvAlways, <1>1, PTL DEF Spec

--------------------------------------------------------------------------------
(* FreshAnswers: how many of a kind there are on a queue *)

Found(queue, p, i, S) == {j \in DOMAIN queue : p < j /\ j < i /\ queue[j] \in S}
Between(queue, p, i, S) == Cardinality(Found(queue, p, i, S))
Rest(queue, p, S) == Between(queue, p, Len(queue) + 1, S)

LEMMA BetweenIsFinite ==
  ASSUME NEW T, NEW queue \in Seq(T)
  PROVE  \A p, i, S :
           /\ IsFiniteSet(Found(queue, p, i, S))
           /\ Between(queue, p, i, S) \in Nat
<1>1. Len(queue) \in Nat /\ DOMAIN queue = 1..Len(queue)
  OBVIOUS
<1>2. IsFiniteSet(DOMAIN queue)
  BY <1>1, FS_Interval
<1>3. ASSUME NEW p, NEW i, NEW S
      PROVE  IsFiniteSet(Found(queue, p, i, S))
  <2>1. Found(queue, p, i, S) \in SUBSET DOMAIN queue
    BY DEF Found
  <2>2. QED
    BY <1>2, <2>1, FS_Subset
<1>4. QED
  BY <1>3, FS_CardinalityType DEF Between

LEMMA NoneBetween ==
  ASSUME NEW T, NEW queue \in Seq(T), NEW p, NEW i, NEW S
  PROVE  Between(queue, p, i, S) = 0 <=>
           \A j \in DOMAIN queue : p < j /\ j < i => queue[j] \notin S
<1> DEFINE found == Found(queue, p, i, S)
<1>1. IsFiniteSet(found) /\ Between(queue, p, i, S) = Cardinality(found)
  BY BetweenIsFinite DEF Between
<1>2. Cardinality(found) = 0 <=> found = {}
  BY <1>1, FS_EmptySet
<1>3. QED
  BY <1>1, <1>2 DEF Found

LEMMA RestOfNone ==
  ASSUME NEW T, NEW queue \in Seq(T), NEW p, NEW S
  PROVE  /\ Rest(queue, p, S) \in Nat
         /\ Rest(queue, p, S) = 0 <=> \A j \in DOMAIN queue : p < j => queue[j] \notin S
<1>1. DOMAIN queue = 1..Len(queue) /\ Len(queue) \in Nat
  OBVIOUS
<1>2. Rest(queue, p, S) = 0 <=>
        \A j \in DOMAIN queue : p < j /\ j < Len(queue) + 1 => queue[j] \notin S
  BY NoneBetween DEF Rest
<1>3. Rest(queue, p, S) \in Nat
  BY BetweenIsFinite DEF Rest
<1>4. \A j \in DOMAIN queue : j < Len(queue) + 1
  BY <1>1
<1>5. QED
  BY <1>2, <1>3, <1>4

LEMMA BetweenMore ==
  ASSUME NEW T, NEW queue \in Seq(T), NEW m \in T, NEW S, NEW p \in Nat
  PROVE  LET more == Append(queue, m) IN
         /\ \A i \in DOMAIN queue : Between(more, p, i, S) = Between(queue, p, i, S)
         /\ Between(more, p, Len(queue) + 1, S) = Rest(queue, p, S)
         /\ p <= Len(queue) =>
              Rest(more, p, S) = Rest(queue, p, S) + (IF m \in S THEN 1 ELSE 0)
<1> DEFINE more == Append(queue, m)
           n == Len(queue)
<1>1. /\ n \in Nat /\ DOMAIN queue = 1..n /\ DOMAIN more = 1..(n + 1) /\ Len(more) = n + 1
      /\ more[n + 1] = m /\ \A i \in 1..n : more[i] = queue[i]
  BY TailAndAppend
<1> HIDE DEF more, n
<1>2. ASSUME NEW i \in 1..(n + 1)
      PROVE  Between(more, p, i, S) = Between(queue, p, i, S)
  <2>1. Found(more, p, i, S) = Found(queue, p, i, S)
    BY <1>1 DEF Found
  <2>2. QED
    BY <2>1 DEF Between
<1>3. ASSUME p <= n
      PROVE  Rest(more, p, S) = Rest(queue, p, S) + (IF m \in S THEN 1 ELSE 0)
  <2> DEFINE old == Found(queue, p, n + 1, S)
             new == Found(more, p, n + 1 + 1, S)
             one == IF m \in S THEN 1 ELSE 0
  <2>1. IsFiniteSet(old) /\ Rest(queue, p, S) = Cardinality(old) /\ Cardinality(old) \in Nat
    BY BetweenIsFinite DEF Between, Rest, n
  <2>2. Rest(more, p, S) = Cardinality(new)
    BY <1>1 DEF Rest, Between
  <2>3. CASE m \in S
    <3>1. new = old \cup {n + 1} /\ n + 1 \notin old
      BY <1>1, <1>3, <2>3 DEF Found
    <3>2. Cardinality(new) = Cardinality(old) + 1
      BY <2>1, <3>1, FS_AddElement
    <3>3. QED
      BY <2>1, <2>2, <2>3, <3>2
  <2>4. CASE m \notin S
    <3>1. new = old
      BY <1>1, <1>3, <2>4 DEF Found
    <3>2. QED
      BY <2>1, <2>2, <2>4, <3>1
  <2>5. QED
    BY <2>3, <2>4
<1>4. n + 1 \in 1..(n + 1) /\ DOMAIN queue \subseteq 1..(n + 1)
  BY <1>1
<1>5. QED
  BY <1>2, <1>3, <1>4 DEF Rest, more, n

LEMMA BetweenLess ==
  ASSUME NEW T, NEW queue \in Seq(T), queue # <<>>, NEW S, NEW p \in Nat
  PROVE  LET less == Tail(queue) IN
         /\ \A i \in Nat : Between(less, p, i, S) = Between(queue, p + 1, i + 1, S)
         /\ Rest(less, p, S) = Rest(queue, p + 1, S)
<1> DEFINE less == Tail(queue)
           n == Len(queue)
<1>1. /\ n \in Nat /\ n > 0 /\ DOMAIN queue = 1..n /\ DOMAIN less = 1..(n - 1)
      /\ Len(less) = n - 1 /\ less \in Seq(T)
      /\ \A i \in 1..(n - 1) : less[i] = queue[i + 1]
  <2>1. DOMAIN less = 1..(n - 1) /\ less \in Seq(T) /\ n \in Nat /\ DOMAIN queue = 1..n
    BY TailAndAppend
  <2>2. \A i \in 1..(n - 1) : less[i] = queue[i + 1]
    BY TailAndAppend
  <2>3. n > 0 /\ Len(less) = n - 1
    OBVIOUS
  <2>4. QED
    BY <2>1, <2>2, <2>3
<1> HIDE DEF less, n
<1>2. ASSUME NEW i \in Nat
      PROVE  Between(less, p, i, S) = Between(queue, p + 1, i + 1, S)
  <2> DEFINE A == Found(less, p, i, S)
             B == Found(queue, p + 1, i + 1, S)
             f == [j \in A |-> j + 1]
  <2>1. IsFiniteSet(A) /\ Between(less, p, i, S) = Cardinality(A)
        /\ Between(queue, p + 1, i + 1, S) = Cardinality(B)
    BY <1>1, BetweenIsFinite DEF Between
  <2>2. \A j \in A : j \in Int /\ j + 1 \in B
    BY <1>1 DEF Found
  <2>3. \A j \in B : j \in Int /\ j - 1 \in A
    BY <1>1 DEF Found
  <2> HIDE DEF A, B
  <2>4. f \in [A -> B]
    BY <2>2
  <2>5. \A j, k \in A : f[j] = f[k] => j = k
    BY <2>2
  <2>6. \A k \in B : \E j \in A : f[j] = k
    BY <2>3
  <2> HIDE DEF f
  <2>7. f \in Bijection(A, B)
    BY <2>4, <2>5, <2>6 DEF Bijection, Injection, Surjection, IsInjective
  <2>8. Cardinality(B) = Cardinality(A)
    BY <2>1, <2>7, FS_Bijection DEF ExistsBijection
  <2>9. QED
    BY <2>1, <2>8
<1>3. Rest(less, p, S) = Rest(queue, p + 1, S)
  <2>1. n \in Nat /\ Len(less) + 1 = n
    BY <1>1
  <2>2. Between(less, p, n, S) = Between(queue, p + 1, n + 1, S)
    BY <1>2, <2>1
  <2>3. QED
    BY <2>1, <2>2 DEF Rest, n
<1>4. QED
  BY <1>2, <1>3 DEF less

(* What is at the head counts too. *)
LEMMA BetweenHead ==
  ASSUME NEW T, NEW queue \in Seq(T), queue # <<>>, NEW S
  PROVE  LET one == IF Head(queue) \in S THEN 1 ELSE 0 IN
         /\ \A i \in Nat : i > 1 => Between(queue, 0, i, S) = Between(queue, 1, i, S) + one
         /\ Rest(queue, 0, S) = Rest(queue, 1, S) + one
         /\ Rest(queue, 0, S) = Rest(Tail(queue), 0, S) + one
<1> DEFINE one == IF Head(queue) \in S THEN 1 ELSE 0
           n == Len(queue)
<1>1. n \in Nat /\ n > 0 /\ DOMAIN queue = 1..n /\ Head(queue) = queue[1]
  OBVIOUS
<1>2. ASSUME NEW i \in Nat, i > 1
      PROVE  Between(queue, 0, i, S) = Between(queue, 1, i, S) + one
  <2> DEFINE A == Found(queue, 1, i, S)
             B == Found(queue, 0, i, S)
  <2>1. IsFiniteSet(A) /\ Cardinality(A) \in Nat
        /\ Between(queue, 1, i, S) = Cardinality(A) /\ Between(queue, 0, i, S) = Cardinality(B)
    BY BetweenIsFinite DEF Between
  <2>2. CASE Head(queue) \in S
    <3>1. B = A \cup {1} /\ 1 \notin A
      BY <1>1, <1>2, <2>2 DEF Found
    <3>2. Cardinality(B) = Cardinality(A) + 1
      BY <2>1, <3>1, FS_AddElement
    <3>3. QED
      BY <2>1, <2>2, <3>2
  <2>3. CASE Head(queue) \notin S
    <3>1. B = A
      BY <1>1, <1>2, <2>3 DEF Found
    <3>2. QED
      BY <2>1, <2>3, <3>1
  <2>4. QED
    BY <2>2, <2>3
<1>3. Rest(queue, 0, S) = Rest(queue, 1, S) + one
  <2>1. n + 1 \in Nat /\ n + 1 > 1
    BY <1>1
  <2>2. QED
    BY <1>2, <2>1 DEF Rest, n
<1>4. Rest(Tail(queue), 0, S) = Rest(queue, 1, S)
  <2>1. Rest(Tail(queue), 0, S) = Rest(queue, 0 + 1, S)
    BY BetweenLess
  <2>2. QED
    BY <2>1
<1>5. QED
  BY <1>2, <1>3, <1>4

LEMMA BetweenNothing ==
  /\ \A p, S : Rest(<<>>, p, S) = 0
  /\ \A S : \A T : \A queue \in Seq(T) : Between(queue, 0, 1, S) = 0
<1>1. ASSUME NEW p, NEW S
      PROVE  Rest(<<>>, p, S) = 0
  <2>1. Found(<<>>, p, Len(<<>>) + 1, S) = {}
    BY DEF Found
  <2>2. QED
    BY <2>1, FS_EmptySet DEF Rest, Between
<1>2. ASSUME NEW S, NEW T, NEW queue \in Seq(T)
      PROVE  Between(queue, 0, 1, S) = 0
  <2>1. DOMAIN queue = 1..Len(queue)
    OBVIOUS
  <2>2. \A j \in DOMAIN queue : ~(0 < j /\ j < 1)
    BY <2>1
  <2>3. QED
    BY <2>2, NoneBetween
<1>3. QED
  BY <1>1, <1>2

--------------------------------------------------------------------------------
(* FreshAnswers: requests, their replies, and what is sent besides         *)

Requests(d) == {q \in Request : q.doc = d}
Replies(d)  == {m \in Response : m.change \in {"added", "removed", "refused"} /\ m.doc = d}
Contents(d) == {m \in Response : m.change \in {"current", "document"} /\ m.doc = d}

(* The replies of a document that are still to be read behind position p.  *)
Left(requests, queue, p, d) == Rest(requests, 0, Requests(d)) + Rest(queue, p, Replies(d))

(* What is sent of d behind position p has n replies before it. *)
Late(queue, p, n, d) ==
  \A i \in DOMAIN queue : p < i /\ queue[i] \in Contents(d) =>
    Between(queue, p, i, Replies(d)) >= n

BeginsWithWatch(requests, d) ==
  \E i \in DOMAIN requests :
    /\ requests[i].op = "watch" /\ requests[i].doc = d
    /\ \A j \in DOMAIN requests : j < i => requests[j].doc # d

(* And so has what the backend will send, as long as it is asked nothing more. *)
Behind(queue, requests, seen, p, n, d) ==
  /\ Late(queue, p, n, d)
  /\ d \in seen => Rest(queue, p, Replies(d)) >= n
  /\ BeginsWithWatch(requests, d) => Rest(queue, p, Replies(d)) >= n - 1

LEMMA Kinds ==
  ASSUME NEW d \in Docs, NEW m \in Response
  PROVE  /\ m \in Replies(d) <=> m.change \in {"added", "removed", "refused"} /\ m.doc = d
         /\ m \in Contents(d) <=> m.change \in {"current", "document"} /\ m.doc = d
         /\ ~(m \in Replies(d) /\ m \in Contents(d))
BY DEF Replies, Contents

LEMMA RequestsOf ==
  ASSUME NEW d, NEW q \in Request
  PROVE  q \in Requests(d) <=> q.doc = d
BY DEF Requests

LEMMA LateMore ==
  ASSUME NEW d \in Docs, NEW queue \in Seq(Response), NEW m \in Response, NEW p \in Nat,
         p <= Len(queue), NEW n \in Int, Late(queue, p, n, d),
         m \in Contents(d) => Rest(queue, p, Replies(d)) >= n
  PROVE  LET more == Append(queue, m) IN
         /\ Late(more, p, n, d) /\ more \in Seq(Response) /\ p <= Len(more)
         /\ Rest(queue, p, Replies(d)) \in Nat /\ Rest(more, p, Replies(d)) \in Nat
         /\ Rest(more, p, Replies(d)) =
              Rest(queue, p, Replies(d)) + (IF m \in Replies(d) THEN 1 ELSE 0)
<1> DEFINE more == Append(queue, m)
<1>1. /\ DOMAIN queue = 1..Len(queue) /\ DOMAIN more = 1..(Len(queue) + 1) /\ Len(queue) \in Nat
      /\ more[Len(queue) + 1] = m /\ \A i \in DOMAIN queue : more[i] = queue[i]
      /\ more \in Seq(Response) /\ Len(more) = Len(queue) + 1
  BY TailAndAppend
<1>2. /\ \A i \in DOMAIN queue : Between(more, p, i, Replies(d)) = Between(queue, p, i, Replies(d))
      /\ Between(more, p, Len(queue) + 1, Replies(d)) = Rest(queue, p, Replies(d))
      /\ Rest(more, p, Replies(d)) =
           Rest(queue, p, Replies(d)) + (IF m \in Replies(d) THEN 1 ELSE 0)
  BY BetweenMore
<1>3. Rest(queue, p, Replies(d)) \in Nat /\ Rest(more, p, Replies(d)) \in Nat
  BY <1>1, RestOfNone
<1> HIDE DEF more
<1>4. ASSUME NEW i \in DOMAIN more, p < i, more[i] \in Contents(d)
      PROVE  Between(more, p, i, Replies(d)) >= n
  <2>1. CASE i \in DOMAIN queue
    BY <1>1, <1>2, <1>4, <2>1 DEF Late
  <2>2. CASE i = Len(queue) + 1
    BY <1>1, <1>2, <1>4, <2>2
  <2>3. QED
    BY <1>1, <2>1, <2>2
<1>5. QED
  BY <1>1, <1>2, <1>3, <1>4 DEF Late, more

LEMMA LateLess ==
  ASSUME NEW d \in Docs, NEW queue \in Seq(Response), queue # <<>>, NEW p \in Nat, NEW n \in Int,
         Late(queue, p + 1, n, d)
  PROVE  /\ Late(Tail(queue), p, n, d)
         /\ Rest(Tail(queue), p, Replies(d)) = Rest(queue, p + 1, Replies(d))
<1> DEFINE less == Tail(queue)
<1>1. /\ \A i \in Nat : Between(less, p, i, Replies(d)) = Between(queue, p + 1, i + 1, Replies(d))
      /\ Rest(less, p, Replies(d)) = Rest(queue, p + 1, Replies(d))
  BY BetweenLess
<1>2. \A i \in DOMAIN less : i + 1 \in DOMAIN queue /\ less[i] = queue[i + 1] /\ i \in Nat
  BY TailIndices
<1> HIDE DEF less
<1>3. ASSUME NEW i \in DOMAIN less, p < i, less[i] \in Contents(d)
      PROVE  Between(less, p, i, Replies(d)) >= n
  <2>1. p + 1 < i + 1 /\ i + 1 \in DOMAIN queue /\ queue[i + 1] \in Contents(d) /\ i \in Nat
    BY <1>2, <1>3
  <2>2. Between(queue, p + 1, i + 1, Replies(d)) >= n
    BY <2>1 DEF Late
  <2>3. QED
    BY <1>1, <2>1, <2>2
<1>4. QED
  BY <1>1, <1>3 DEF Late, less

(* Without the head, which may be a reply. *)
LEMMA LateHead ==
  ASSUME NEW d \in Docs, NEW queue \in Seq(Response), queue # <<>>, NEW n \in Int,
         Late(queue, 0, n, d)
  PROVE  LET one == IF Head(queue) \in Replies(d) THEN 1 ELSE 0 IN
         /\ Late(Tail(queue), 0, n - one, d)
         /\ Rest(Tail(queue), 0, Replies(d)) = Rest(queue, 0, Replies(d)) - one
         /\ Head(queue) \in Contents(d) => 0 >= n
<1> DEFINE one == IF Head(queue) \in Replies(d) THEN 1 ELSE 0
<1>1. /\ \A i \in Nat : i > 1 =>
           Between(queue, 0, i, Replies(d)) = Between(queue, 1, i, Replies(d)) + one
      /\ Rest(queue, 0, Replies(d)) = Rest(queue, 1, Replies(d)) + one
  BY BetweenHead
<1>2. one \in {0, 1} /\ \A i : Between(queue, 1, i, Replies(d)) \in Nat
      /\ Rest(queue, 1, Replies(d)) \in Nat
  BY BetweenIsFinite, RestOfNone
<1> HIDE DEF one
<1>3. Late(queue, 1, n - one, d)
  <2> SUFFICES ASSUME NEW i \in DOMAIN queue, 1 < i, queue[i] \in Contents(d)
               PROVE  Between(queue, 1, i, Replies(d)) >= n - one
    BY DEF Late
  <2>1. i \in Nat /\ i > 1 /\ 0 < i
    OBVIOUS
  <2>2. Between(queue, 0, i, Replies(d)) >= n
    BY <2>1 DEF Late
  <2>3. QED
    BY <1>1, <1>2, <2>1, <2>2
<1>4. n - one \in Int /\ 0 \in Nat /\ 0 + 1 = 1
  BY <1>2
<1>5. Late(Tail(queue), 0, n - one, d)
      /\ Rest(Tail(queue), 0, Replies(d)) = Rest(queue, 1, Replies(d))
  BY <1>3, <1>4, LateLess
<1>6. Head(queue) \in Contents(d) => 0 >= n
  <2>1. 1 \in DOMAIN queue /\ Head(queue) = queue[1] /\ 0 < 1
    BY TailIndices
  <2>2. Between(queue, 0, 1, Replies(d)) = 0
    BY BetweenNothing
  <2>3. QED
    BY <2>1, <2>2 DEF Late
<1>7. QED
  BY <1>1, <1>2, <1>5, <1>6 DEF one

--------------------------------------------------------------------------------
(* Requests in order *)

LEMMA RequestMore ==
  ASSUME NEW d \in Docs, NEW requests \in Seq(Request), NEW request \in Request
  PROVE  LET more == Append(requests, request) IN
         /\ Rest(more, 0, Requests(d)) =
              Rest(requests, 0, Requests(d)) + (IF request.doc = d THEN 1 ELSE 0)
         /\ BeginsWithWatch(more, d) =>
              \/ BeginsWithWatch(requests, d)
              \/ /\ request.op = "watch" /\ request.doc = d
                 /\ Rest(requests, 0, Requests(d)) = 0
<1> DEFINE more == Append(requests, request)
<1>1. /\ DOMAIN requests = 1..Len(requests) /\ DOMAIN more = 1..(Len(requests) + 1)
      /\ Len(requests) \in Nat
      /\ more[Len(requests) + 1] = request /\ \A i \in DOMAIN requests : more[i] = requests[i]
  BY TailAndAppend
<1>2. Rest(more, 0, Requests(d)) =
        Rest(requests, 0, Requests(d)) + (IF request.doc = d THEN 1 ELSE 0)
  <2>1. 0 \in Nat /\ 0 <= Len(requests)
    OBVIOUS
  <2>2. QED
    BY <2>1, BetweenMore, RequestsOf
<1> HIDE DEF more
<1>3. ASSUME NEW i \in DOMAIN more, more[i].op = "watch", more[i].doc = d,
             \A j \in DOMAIN more : j < i => more[j].doc # d
      PROVE  \/ BeginsWithWatch(requests, d)
             \/ /\ request.op = "watch" /\ request.doc = d
                /\ Rest(requests, 0, Requests(d)) = 0
  <2>1. CASE i \in DOMAIN requests
    BY <1>1, <1>3, <2>1 DEF BeginsWithWatch
  <2>2. CASE i = Len(requests) + 1
    <3>1. \A j \in DOMAIN requests : requests[j].doc # d /\ requests[j] \in Request
      BY <1>1, <1>3, <2>2
    <3>2. \A j \in DOMAIN requests : requests[j] \notin Requests(d)
      BY <3>1, RequestsOf
    <3>3. QED
      BY <1>1, <1>3, <2>2, <3>2, RestOfNone
  <2>3. QED
    BY <1>1, <2>1, <2>2
<1>4. BeginsWithWatch(more, d) =>
              \/ BeginsWithWatch(requests, d)
              \/ /\ request.op = "watch" /\ request.doc = d
                 /\ Rest(requests, 0, Requests(d)) = 0
  BY <1>3 DEF BeginsWithWatch
<1>5. QED
  BY <1>2, <1>4 DEF more

LEMMA RequestLess ==
  ASSUME NEW d \in Docs, NEW requests \in Seq(Request), requests # <<>>
  PROVE  /\ Head(requests) \in Request
         /\ Rest(requests, 0, Requests(d)) \in Nat /\ Rest(Tail(requests), 0, Requests(d)) \in Nat
         /\ Rest(Tail(requests), 0, Requests(d)) =
              Rest(requests, 0, Requests(d)) - (IF Head(requests).doc = d THEN 1 ELSE 0)
         /\ Head(requests).doc = d /\ Head(requests).op = "watch" => BeginsWithWatch(requests, d)
         /\ Head(requests).doc # d =>
              (BeginsWithWatch(Tail(requests), d) => BeginsWithWatch(requests, d))
<1> DEFINE less == Tail(requests)
<1>1. /\ 1 \in DOMAIN requests /\ Head(requests) = requests[1] /\ Head(requests) \in Request
      /\ \A i \in DOMAIN less : i + 1 \in DOMAIN requests /\ i + 1 # 1
                                /\ less[i] = requests[i + 1] /\ i \in Nat
      /\ \A i \in DOMAIN requests : i # 1 =>
           i - 1 \in DOMAIN less /\ less[i - 1] = requests[i]
      /\ DOMAIN requests \subseteq Nat /\ less \in Seq(Request)
  BY TailIndices
<1>2. /\ Rest(requests, 0, Requests(d)) =
           Rest(less, 0, Requests(d)) + (IF Head(requests) \in Requests(d) THEN 1 ELSE 0)
      /\ Rest(requests, 0, Requests(d)) \in Nat /\ Rest(less, 0, Requests(d)) \in Nat
  BY <1>1, BetweenHead, RestOfNone
<1> HIDE DEF less
<1>3. ASSUME Head(requests).doc = d, Head(requests).op = "watch"
      PROVE  BeginsWithWatch(requests, d)
  <2>1. \A j \in DOMAIN requests : ~(j < 1)
    OBVIOUS
  <2>2. QED
    BY <1>1, <1>3, <2>1 DEF BeginsWithWatch
<1>4. ASSUME Head(requests).doc # d, BeginsWithWatch(less, d)
      PROVE  BeginsWithWatch(requests, d)
  <2>1. PICK i \in DOMAIN less : /\ less[i].op = "watch" /\ less[i].doc = d
                                 /\ \A j \in DOMAIN less : j < i => less[j].doc # d
    BY <1>4 DEF BeginsWithWatch
  <2>2. i + 1 \in DOMAIN requests /\ requests[i + 1].op = "watch" /\ requests[i + 1].doc = d
        /\ i \in Nat
    BY <1>1, <2>1
  <2>3. ASSUME NEW j \in DOMAIN requests, j < i + 1
        PROVE  requests[j].doc # d
    <3>1. CASE j = 1
      BY <1>1, <1>4, <3>1
    <3>2. CASE j # 1
      <4>1. j - 1 \in DOMAIN less /\ less[j - 1] = requests[j] /\ j \in Nat
        BY <1>1, <3>2
      <4>2. j - 1 < i
        BY <2>2, <2>3, <4>1
      <4>3. QED
        BY <2>1, <4>1, <4>2
    <3>3. QED
      BY <3>1, <3>2
  <2>4. QED
    BY <2>2, <2>3 DEF BeginsWithWatch
<1>5. QED
  BY <1>1, <1>2, <1>3, <1>4, RequestsOf DEF less

--------------------------------------------------------------------------------
(* What the backend sends is behind the replies it sends before *)

LEMMA OneByOne ==
  ASSUME NEW S, NEW queue \in Seq(S), NEW m \in S, NEW p \in S, NEW q \in S
  PROVE  /\ queue \o <<m, p, q>> = Append(Append(Append(queue, m), p), q)
         /\ queue \o <<m, p>> = Append(Append(queue, m), p)
<1>1. queue \o <<m, p, q>> = Append(Append(Append(queue, m), p), q)
  OBVIOUS
<1>2. queue \o <<m, p>> = Append(Append(queue, m), p)
  OBVIOUS
<1>3. QED
  BY <1>1, <1>2

LEMMA RestMore ==
  ASSUME NEW d \in Docs, NEW queue \in Seq(Response), NEW m \in Response, NEW p \in Nat,
         p <= Len(queue)
  PROVE  LET more == Append(queue, m) IN
         /\ more \in Seq(Response) /\ p <= Len(more)
         /\ Rest(queue, p, Replies(d)) \in Nat /\ Rest(more, p, Replies(d)) \in Nat
         /\ m \in Replies(d) => Rest(more, p, Replies(d)) = Rest(queue, p, Replies(d)) + 1
         /\ m \notin Replies(d) => Rest(more, p, Replies(d)) = Rest(queue, p, Replies(d))
<1>1. Append(queue, m) \in Seq(Response) /\ p <= Len(Append(queue, m))
  OBVIOUS
<1>2. Rest(Append(queue, m), p, Replies(d)) =
        Rest(queue, p, Replies(d)) + (IF m \in Replies(d) THEN 1 ELSE 0)
  BY BetweenMore
<1>3. Rest(queue, p, Replies(d)) \in Nat /\ Rest(Append(queue, m), p, Replies(d)) \in Nat
  BY <1>1, RestOfNone
<1>4. QED
  BY <1>1, <1>2, <1>3

LEMMA AddsBehind ==
  ASSUME IInv, NEW d \in Docs, BackendAdds, NEW p \in Nat, p <= Len(down)
  PROVE  /\ Left(up', down', p, d) = Left(up, down, p, d) /\ p <= Len(down')
         /\ \A n \in Int : Behind(down, up, watched, p, n, d) =>
              Behind(down', up', watched', p, n, d)
<1> DEFINE e == Head(up).doc
           m1 == [change |-> "added", doc |-> e]
           m2 == [change |-> "current", doc |-> e, version |-> held[e]]
           m3 == [change |-> "snapshot"]
           q1 == Append(down, m1)
           q2 == Append(q1, m2)
           q3 == Append(q2, m3)
           r0 == Rest(down, p, Replies(d))
           r1 == Rest(q1, p, Replies(d))
           r2 == Rest(q2, p, Replies(d))
           r3 == Rest(q3, p, Replies(d))
           one == IF e = d THEN 1 ELSE 0
<1>1. /\ up # <<>> /\ Head(up).op = "watch" /\ up' = Tail(up) /\ watched' = watched \cup {e}
      /\ down' = down \o <<m1, m2, m3>> /\ up \in Seq(Request) /\ down \in Seq(Response)
      /\ e \in Docs /\ held[e] \in Versions
  BY PoppedRequest DEF BackendAdds, IInv, StreamOk
<1>2. /\ m1 \in Response /\ m2 \in Response /\ m3 \in Response
      /\ m1.change = "added" /\ m1.doc = e /\ m2.change = "current" /\ m2.doc = e
      /\ m3.change = "snapshot"
  BY <1>1 DEF Response
<1> HIDE DEF e, m1, m2, m3
<1>3. /\ m1 \in Replies(d) <=> e = d
      /\ m2 \notin Replies(d) /\ m3 \notin Replies(d)
      /\ m1 \notin Contents(d) /\ m3 \notin Contents(d)
      /\ m2 \in Contents(d) <=> e = d
  BY <1>2, Kinds
<1>4. down' = q3
  BY <1>1, <1>2, OneByOne
<1>5. /\ q1 \in Seq(Response) /\ p <= Len(q1) /\ r0 \in Nat /\ r1 \in Nat
      /\ r1 = IF e = d THEN r0 + 1 ELSE r0
  BY <1>1, <1>2, <1>3, RestMore
<1>6. q2 \in Seq(Response) /\ p <= Len(q2) /\ r2 = r1
  BY <1>2, <1>3, <1>5, RestMore
<1>7. q3 \in Seq(Response) /\ p <= Len(q3) /\ r3 = r2
  BY <1>2, <1>3, <1>6, RestMore
<1>8. /\ Rest(up, 0, Requests(d)) \in Nat
      /\ Rest(up', 0, Requests(d)) = Rest(up, 0, Requests(d)) - one
      /\ e = d => BeginsWithWatch(up, d)
      /\ e # d => (BeginsWithWatch(up', d) => BeginsWithWatch(up, d))
  BY <1>1, RequestLess DEF e
<1>9. Left(up', down', p, d) = Left(up, down, p, d)
  <2>1. Left(up, down, p, d) = Rest(up, 0, Requests(d)) + r0
        /\ Left(up', down', p, d) = Rest(up', 0, Requests(d)) + r3
    BY <1>4 DEF Left
  <2> HIDE DEF r0, r1, r2, r3
  <2>2. QED
    BY <1>5, <1>6, <1>7, <1>8, <2>1
<1>10. ASSUME NEW n \in Int, Behind(down, up, watched, p, n, d)
       PROVE  Behind(down', up', watched', p, n, d)
  <2>1. /\ Late(down, p, n, d)
        /\ d \in watched => r0 >= n
        /\ BeginsWithWatch(up, d) => r0 >= n - 1
    BY <1>10 DEF Behind
  <2> HIDE DEF q1, q2, q3, r0, r1, r2, r3
  <2>2. Late(q1, p, n, d)
    BY <1>1, <1>2, <1>3, <2>1, LateMore DEF q1
  <2>3. e = d => r1 >= n
    BY <1>5, <1>8, <2>1
  <2>4. Late(q2, p, n, d)
    BY <1>2, <1>3, <1>5, <2>2, <2>3, LateMore DEF q2, r1
  <2>5. Late(q3, p, n, d)
    BY <1>2, <1>3, <1>6, <2>4, LateMore DEF q3
  <2>6. d \in watched' => r3 >= n
    BY <1>1, <1>5, <1>6, <1>7, <2>1, <2>3
  <2>7. BeginsWithWatch(up', d) => r3 >= n - 1
    BY <1>5, <1>6, <1>7, <1>8, <2>1, <2>3
  <2>8. QED
    BY <1>4, <2>5, <2>6, <2>7 DEF Behind, r3
<1>11. QED
  BY <1>4, <1>7, <1>9, <1>10

LEMMA RemovesBehind ==
  ASSUME IInv, NEW d \in Docs, BackendRemoves, NEW p \in Nat, p <= Len(down)
  PROVE  /\ Left(up', down', p, d) = Left(up, down, p, d) /\ p <= Len(down')
         /\ \A n \in Int : Behind(down, up, watched, p, n, d) /\ n <= 2 =>
              Behind(down', up', watched', p, n, d)
<1> DEFINE e == Head(up).doc
           m == [change |-> "removed", doc |-> e]
           more == Append(down, m)
           r0 == Rest(down, p, Replies(d))
           r1 == Rest(more, p, Replies(d))
           one == IF e = d THEN 1 ELSE 0
<1>1. /\ up # <<>> /\ Head(up).op = "unwatch" /\ up' = Tail(up) /\ watched' = watched \ {e}
      /\ down' = more /\ up \in Seq(Request) /\ down \in Seq(Response) /\ e \in Docs
  BY PoppedRequest DEF BackendRemoves, IInv, StreamOk
<1>2. m \in Response /\ m.change = "removed" /\ m.doc = e
  BY <1>1 DEF Response
<1> HIDE DEF e, m
<1>3. (m \in Replies(d) <=> e = d) /\ m \notin Contents(d)
  BY <1>2, Kinds
<1>4. more \in Seq(Response) /\ p <= Len(more) /\ r0 \in Nat /\ r1 \in Nat
      /\ r1 = IF e = d THEN r0 + 1 ELSE r0
  BY <1>1, <1>2, <1>3, RestMore
<1>7. /\ Rest(up, 0, Requests(d)) \in Nat
      /\ Rest(up', 0, Requests(d)) = Rest(up, 0, Requests(d)) - one
      /\ e # d => (BeginsWithWatch(up', d) => BeginsWithWatch(up, d))
  BY <1>1, RequestLess DEF e
<1>8. Left(up', down', p, d) = Left(up, down, p, d)
  <2>1. Left(up, down, p, d) = Rest(up, 0, Requests(d)) + r0
        /\ Left(up', down', p, d) = Rest(up', 0, Requests(d)) + r1
    BY <1>1 DEF Left
  <2> HIDE DEF r0, r1
  <2>2. QED
    BY <1>4, <1>7, <2>1
<1>9. ASSUME NEW n \in Int, n <= 2, Behind(down, up, watched, p, n, d)
      PROVE  Behind(down', up', watched', p, n, d)
  <2>1. /\ Late(down, p, n, d)
        /\ d \in watched => r0 >= n
        /\ BeginsWithWatch(up, d) => r0 >= n - 1
    BY <1>9 DEF Behind
  <2> HIDE DEF more, r0, r1
  <2>2. Late(more, p, n, d)
    BY <1>1, <1>2, <1>3, <2>1, LateMore DEF more
  <2>3. d \in watched' => r1 >= n
    BY <1>1, <1>4, <2>1
  <2>4. BeginsWithWatch(up', d) => r1 >= n - 1
    BY <1>4, <1>7, <1>9, <2>1
  <2>5. QED
    BY <1>1, <2>2, <2>3, <2>4 DEF Behind, r1
<1>10. QED
  BY <1>1, <1>4, <1>8, <1>9

LEMMA ChangesBehind ==
  ASSUME IInv, NEW d \in Docs, NEW e \in Docs, DocumentChanges(e), NEW p \in Nat, p <= Len(down)
  PROVE  /\ Left(up', down', p, d) = Left(up, down, p, d) /\ p <= Len(down')
         /\ \A n \in Int : Behind(down, up, watched, p, n, d) =>
              Behind(down', up', watched', p, n, d)
<1> DEFINE m1 == [change |-> "document", doc |-> e, version |-> held[e] + 1]
           m2 == [change |-> "snapshot"]
           q1 == Append(down, m1)
           q2 == Append(q1, m2)
           r0 == Rest(down, p, Replies(d))
           r1 == Rest(q1, p, Replies(d))
           r2 == Rest(q2, p, Replies(d))
<1>1. /\ up' = up /\ watched' = watched /\ down \in Seq(Response) /\ held[e] + 1 \in Versions
      /\ down' = IF e \notin watched THEN down ELSE down \o <<m1, m2>>
  BY VersionsAreNat, ReadBounds DEF DocumentChanges, IInv, StreamOk, Versions
<1>2. /\ m1 \in Response /\ m2 \in Response
      /\ m1.change = "document" /\ m1.doc = e /\ m2.change = "snapshot"
  BY <1>1 DEF Response
<1>3. CASE e \notin watched
  BY <1>1, <1>3
<1>4. CASE e \in watched
  <2> HIDE DEF m1, m2
  <2>1. /\ m1 \notin Replies(d) /\ m2 \notin Replies(d) /\ m2 \notin Contents(d)
        /\ m1 \in Contents(d) => e = d
    BY <1>2, Kinds
  <2>2. down' = q2
    BY <1>1, <1>2, <1>4, OneByOne
  <2>4. q1 \in Seq(Response) /\ p <= Len(q1) /\ r0 \in Nat /\ r1 = r0
    BY <1>1, <1>2, <2>1, RestMore
  <2>5. q2 \in Seq(Response) /\ p <= Len(q2) /\ r2 = r1
    <3>1. m2 \in Response /\ m2 \notin Replies(d)
      BY <1>2, <2>1
    <3> HIDE DEF q1
    <3>2. QED
      BY <2>4, <3>1, RestMore
  <2>6. Left(up', down', p, d) = Left(up, down, p, d)
    BY <1>1, <2>2, <2>4, <2>5 DEF Left
  <2>7. ASSUME NEW n \in Int, Behind(down, up, watched, p, n, d)
        PROVE  Behind(down', up', watched', p, n, d)
    <3>1. /\ Late(down, p, n, d)
          /\ d \in watched => r0 >= n
          /\ BeginsWithWatch(up, d) => r0 >= n - 1
      BY <2>7 DEF Behind
    <3> HIDE DEF q1, q2, r0, r1, r2
    <3>2. Late(q1, p, n, d)
      BY <1>1, <1>2, <1>4, <2>1, <3>1, LateMore DEF q1, r0
    <3>3. Late(q2, p, n, d)
      BY <1>2, <2>1, <2>4, <3>2, LateMore DEF q2
    <3>4. r2 = r0
      BY <2>4, <2>5
    <3>5. QED
      BY <1>1, <2>2, <3>1, <3>3, <3>4 DEF Behind, r0, r2
  <2>8. QED
    BY <2>2, <2>5, <2>6, <2>7
<1>5. QED
  BY <1>3, <1>4

--------------------------------------------------------------------------------
(* FreshAnswers: what is counted *)

(* An ADDED and its CURRENT come together. *)
Paired(queue) ==
  \A i \in DOMAIN queue : queue[i].change = "added" =>
    /\ i + 1 \in DOMAIN queue
    /\ queue[i + 1].change = "current" /\ queue[i + 1].doc = queue[i].doc

NoneFor(requests, d) == \A i \in DOMAIN requests : requests[i].doc # d

(* What was sent of a document after the last reply for it. *)
NewestFresh(queue, d, floor) ==
  \A i \in DOMAIN queue :
    queue[i] \in Contents(d) /\ (\A j \in DOMAIN queue : queue[j] \in Replies(d) => j < i)
      => queue[i].version >= floor

BInv ==
  /\ Paired(down)
  /\ \A d \in net.targets : NoneFor(up, d) => NewestFresh(down, d, Floor(d))
  /\ ~IsOpen(net) => agg = NewAggregator

Exact(d) == agg.outstanding[d] = Left(up, down, 0, d)

(* A refusal was dropped uncounted: the target waits for one reply more.   *)
Over(d) == agg.outstanding[d] = Left(up, down, 0, d) + 1

(* A refusal that was meant for an earlier listen has ended this one, and  *)
(* with it the count: replies are still to come that no one waits for.     *)
(* What is sent of the document is behind those that would count it in.    *)
Gap(d) == agg.outstanding[d] + (IF d \in net.targets THEN 1 ELSE 2)
Under(d) ==
  /\ agg.outstanding[d] < Left(up, down, 0, d)
  /\ Gap(d) <= 2
  /\ Behind(down, up, watched, 0, Gap(d), d)
  /\ d \notin agg.current
  /\ net.online = "Online"
  /\ HasView(d) => ~views[d].current /\ views[d].raised = {}

(* The backend watches d, or will when it has handled request i. *)
Watching(requests, seen, i, d) ==
  \/ i = 0 /\ d \in seen
  \/ i \in DOMAIN requests /\ requests[i] = [op |-> "watch", doc |-> d]

(* An unwatch follows each watch but the one of a target there is. *)
Alternates(requests, seen, targets, d) ==
  /\ \A i, k \in {0} \cup DOMAIN requests :
       Watching(requests, seen, i, d) /\ Watching(requests, seen, k, d) /\ i < k =>
         \E j \in DOMAIN requests : i < j /\ j < k /\ requests[j] = [op |-> "unwatch", doc |-> d]
  /\ d \notin targets => \A i \in {0} \cup DOMAIN requests :
       Watching(requests, seen, i, d) =>
         \E j \in DOMAIN requests : i < j /\ requests[j] = [op |-> "unwatch", doc |-> d]

(* The refusal at position p of the replies will be one too many.          *)
RefusedOk(p, d) ==
  /\ Exact(d)
  /\ Behind(down, up, watched, p, 2, d)
  /\ Left(up, down, p, d) = 0 => d \in net.targets

(* What is counted of d is what is left to read, or it is Over or Under. *)
Counted(d) ==
  /\ refusals = 0 => Exact(d) /\ Alternates(up, watched, net.targets, d)
  /\ \A p \in DOMAIN down :
       down[p].change = "refused" /\ down[p].doc = d => RefusedOk(p, d)
  /\ Exact(d) \/ Over(d) \/ Under(d)

OneRefusal(queue) ==
  \A p, q \in DOMAIN queue : queue[p].change = "refused" /\ queue[q].change = "refused" => p = q

CInv == refusals <= 1 => OneRefusal(down) /\ \A d \in Docs : Counted(d)

(* What is not from the cache is as new as the listen that it answers. *)
Fresh(o, floor) == o.kind = "snapshot" /\ ~o.fromCache => o.version >= floor

FreshGiven == \A r \in Reads : answers[r] # <<>> => Fresh(Last(answers[r]), reads[r].floor)

FreshEvents == \A i \in DOMAIN events : Fresh(events[i].outcome, reads[events[i].read].floor)

FreshViews == \A d \in Docs : HasView(d) /\ views[d].current => views[d].version >= Floor(d)

(* What a snapshot would make current is as new as the listen, or the      *)
(* CURRENT that makes it so is the next to be read.                        *)
NextIsCurrent(queue, d) ==
  queue # <<>> /\ Head(queue).change = "current" /\ Head(queue).doc = d

FreshTargets ==
  \A d \in net.targets : agg.outstanding[d] = 0 /\ d \in agg.current =>
    agg.docs[d] >= Floor(d) \/ cached[d] >= Floor(d) \/ NextIsCurrent(down, d)

FInv == refusals <= 1 => FreshGiven /\ FreshEvents /\ FreshViews /\ FreshTargets

LEMMA PairedMore ==
  ASSUME NEW queue \in Seq(Response), Paired(queue), NEW m \in Response, NEW q \in Response
  PROVE  /\ m.change # "added" => Paired(Append(queue, m))
         /\ m.change = "added" /\ q.change = "current" /\ q.doc = m.doc =>
              Paired(Append(Append(queue, m), q))
<1> DEFINE n == Len(queue)
           one == Append(queue, m)
           two == Append(one, q)
<1>1. /\ n \in Nat /\ DOMAIN queue = 1..n /\ one \in Seq(Response) /\ Len(one) = n + 1
      /\ DOMAIN one = 1..(n + 1) /\ one[n + 1] = m /\ \A i \in DOMAIN queue : one[i] = queue[i]
  BY TailAndAppend
<1> HIDE DEF one
<1>2. /\ DOMAIN two = 1..(n + 1 + 1) /\ two[n + 1 + 1] = q
      /\ \A i \in DOMAIN one : two[i] = one[i]
  BY <1>1, TailAndAppend
<1> HIDE DEF two, n
<1>3. ASSUME m.change # "added"
      PROVE  Paired(one)
  <2> SUFFICES ASSUME NEW i \in DOMAIN one, one[i].change = "added"
               PROVE  /\ i + 1 \in DOMAIN one
                      /\ one[i + 1].change = "current" /\ one[i + 1].doc = one[i].doc
    BY DEF Paired
  <2>1. i \in DOMAIN queue /\ one[i] = queue[i]
    BY <1>1, <1>3
  <2>2. i + 1 \in DOMAIN queue /\ queue[i + 1].change = "current"
        /\ queue[i + 1].doc = queue[i].doc
    BY <2>1 DEF Paired
  <2>3. i + 1 \in DOMAIN one /\ one[i + 1] = queue[i + 1]
    BY <1>1, <2>2
  <2>4. QED
    BY <2>1, <2>2, <2>3
<1>4. ASSUME m.change = "added", q.change = "current", q.doc = m.doc
      PROVE  Paired(two)
  <2> SUFFICES ASSUME NEW i \in DOMAIN two, two[i].change = "added"
               PROVE  /\ i + 1 \in DOMAIN two
                      /\ two[i + 1].change = "current" /\ two[i + 1].doc = two[i].doc
    BY DEF Paired
  <2>1. CASE i \in DOMAIN queue
    <3>1. two[i] = queue[i] /\ i \in Nat
      BY <1>1, <1>2, <2>1
    <3>2. i + 1 \in DOMAIN queue /\ queue[i + 1].change = "current"
          /\ queue[i + 1].doc = queue[i].doc
      BY <2>1, <3>1 DEF Paired
    <3>3. i + 1 \in DOMAIN two /\ two[i + 1] = queue[i + 1]
      BY <1>1, <1>2, <3>2
    <3>4. QED
      BY <3>1, <3>2, <3>3
  <2>2. CASE i = n + 1
    <3>1. two[i] = m /\ i + 1 \in DOMAIN two /\ two[i + 1] = q
      BY <1>1, <1>2, <2>2
    <3>2. QED
      BY <1>4, <3>1
  <2>3. i # n + 1 + 1
    BY <1>2, <1>4
  <2>4. QED
    BY <1>1, <1>2, <2>1, <2>2, <2>3
<1>5. QED
  BY <1>3, <1>4 DEF one, two

LEMMA PairedLess ==
  ASSUME NEW queue \in Seq(Response), queue # <<>>, Paired(queue)
  PROVE  Paired(Tail(queue))
<1> DEFINE less == Tail(queue)
<1>1. /\ \A i \in DOMAIN less : i + 1 \in DOMAIN queue /\ less[i] = queue[i + 1] /\ i \in Nat
      /\ \A i \in DOMAIN queue : i # 1 => i - 1 \in DOMAIN less /\ less[i - 1] = queue[i]
  BY TailIndices
<1> HIDE DEF less
<1> SUFFICES ASSUME NEW i \in DOMAIN less, less[i].change = "added"
             PROVE  /\ i + 1 \in DOMAIN less
                    /\ less[i + 1].change = "current" /\ less[i + 1].doc = less[i].doc
  BY DEF Paired, less
<1>2. i + 1 \in DOMAIN queue /\ less[i] = queue[i + 1] /\ i \in Nat
  BY <1>1
<1>3. i + 1 + 1 \in DOMAIN queue /\ queue[i + 1 + 1].change = "current"
      /\ queue[i + 1 + 1].doc = queue[i + 1].doc
  BY <1>2 DEF Paired
<1>4. i + 1 + 1 - 1 \in DOMAIN less /\ less[i + 1 + 1 - 1] = queue[i + 1 + 1]
  BY <1>1, <1>2, <1>3
<1>5. i + 1 + 1 - 1 = i + 1
  BY <1>2
<1>6. QED
  BY <1>2, <1>3, <1>4, <1>5

(* A reply makes what was sent before it old. *)
LEMMA FreshMore ==
  ASSUME NEW d \in Docs, NEW queue \in Seq(Response), NEW m \in Response, NEW floor \in Nat
  PROVE  /\ m \in Replies(d) => NewestFresh(Append(queue, m), d, floor)
         /\ NewestFresh(queue, d, floor) /\ (m \in Contents(d) => m.version >= floor) =>
              NewestFresh(Append(queue, m), d, floor)
<1> DEFINE n == Len(queue)
           more == Append(queue, m)
<1>1. /\ n \in Nat /\ DOMAIN queue = 1..n /\ DOMAIN more = 1..(n + 1)
      /\ more[n + 1] = m /\ \A i \in DOMAIN queue : more[i] = queue[i]
  BY TailAndAppend
<1> HIDE DEF more, n
<1>2. ASSUME NEW i \in DOMAIN more, more[i] \in Contents(d),
             \A j \in DOMAIN more : more[j] \in Replies(d) => j < i
      PROVE  /\ m \notin Replies(d)
             /\ NewestFresh(queue, d, floor) /\ (m \in Contents(d) => m.version >= floor) =>
                  more[i].version >= floor
  <2>1. m \notin Replies(d)
    <3>1. SUFFICES ASSUME m \in Replies(d) PROVE FALSE
      OBVIOUS
    <3>2. n + 1 < i
      BY <1>1, <1>2, <3>1
    <3>3. QED
      BY <1>1, <3>2
  <2>2. CASE i \in DOMAIN queue
    <3>1. \A j \in DOMAIN queue : queue[j] \in Replies(d) => j < i
      BY <1>1, <1>2
    <3>2. QED
      BY <1>1, <1>2, <2>1, <2>2, <3>1 DEF NewestFresh
  <2>3. CASE i = n + 1
    BY <1>1, <1>2, <2>1, <2>3
  <2>4. QED
    BY <1>1, <2>2, <2>3
<1>3. QED
  BY <1>2 DEF NewestFresh, more

LEMMA FreshLess ==
  ASSUME NEW d \in Docs, NEW queue \in Seq(Response), queue # <<>>, NEW floor \in Nat,
         NewestFresh(queue, d, floor)
  PROVE  NewestFresh(Tail(queue), d, floor)
<1> DEFINE less == Tail(queue)
<1>1. /\ \A i \in DOMAIN less : i + 1 \in DOMAIN queue /\ less[i] = queue[i + 1] /\ i \in Nat
      /\ \A i \in DOMAIN queue : i # 1 => i - 1 \in DOMAIN less /\ less[i - 1] = queue[i]
      /\ DOMAIN queue \subseteq Nat
  BY TailIndices
<1> HIDE DEF less
<1> SUFFICES ASSUME NEW i \in DOMAIN less, less[i] \in Contents(d),
                    \A j \in DOMAIN less : less[j] \in Replies(d) => j < i
             PROVE  less[i].version >= floor
  BY DEF NewestFresh, less
<1>2. i + 1 \in DOMAIN queue /\ less[i] = queue[i + 1] /\ i \in Nat
  BY <1>1
<1>3. i > 0
  BY <1>2
<1>4. ASSUME NEW j \in DOMAIN queue, queue[j] \in Replies(d)
      PROVE  j < i + 1
  <2>1. CASE j = 1
    BY <1>3, <2>1
  <2>2. CASE j # 1
    <3>1. j - 1 \in DOMAIN less /\ less[j - 1] \in Replies(d) /\ j \in Nat
      BY <1>1, <1>4, <2>2
    <3>2. j - 1 < i
      BY <3>1
    <3>3. QED
      BY <1>2, <3>1, <3>2
  <2>3. QED
    BY <2>1, <2>2
<1>5. QED
  BY <1>2, <1>4 DEF NewestFresh

(* A request for d is left only where there was one. *)
LEMMA NoneForLess ==
  ASSUME NEW requests \in Seq(Request), requests # <<>>, NEW d, Head(requests).doc # d,
         NoneFor(Tail(requests), d)
  PROVE  NoneFor(requests, d)
<1>1. /\ Head(requests) = requests[1]
      /\ \A i \in DOMAIN requests : i # 1 =>
           i - 1 \in DOMAIN Tail(requests) /\ Tail(requests)[i - 1] = requests[i]
  BY TailIndices
<1>2. QED
  BY <1>1 DEF NoneFor

--------------------------------------------------------------------------------
(* What listens and their ends make of the stream *)

LEMMA ListenSends ==
  ASSUME IInv, AddQueryListener
  PROVE  LET r == Head(ops).read
             d == reads[r].doc
         IN /\ HasView(d) => UNCHANGED <<net, agg, up>>
            /\ ~HasView(d) =>
                 /\ d \notin net.targets /\ net'.targets = net.targets \cup {d}
                 /\ IsOpen(net) => /\ IsOpen(net') /\ net'.online = net.online
                                   /\ Send([op |-> "watch", doc |-> d])
                 /\ ~IsOpen(net) => /\ ~IsOpen(net') /\ up' = up
                                    /\ agg' = agg \/ agg' = NewAggregator
<1> DEFINE r == Head(ops).read
           d == reads[r].doc
           n == [net EXCEPT !.targets = @ \cup {d}, !.idle = FALSE]
           request == [op |-> "watch", doc |-> d]
<1>1. ops # <<>> /\ IF HasView(d) THEN JoinView(r, d) ELSE Listen(r, d)
  BY DEF AddQueryListener
<1>2. d \in Docs
  BY <1>1, PoppedOperation
<1> HIDE DEF d, r
<1>3. HasView(d) => UNCHANGED <<net, agg, up>>
  BY <1>1 DEF JoinView
<1>4. ASSUME ~HasView(d)
      PROVE  /\ d \notin net.targets /\ net'.targets = net.targets \cup {d}
             /\ IsOpen(net) => IsOpen(net') /\ net'.online = net.online /\ Send(request)
             /\ ~IsOpen(net) => /\ ~IsOpen(net') /\ up' = up
                                /\ agg' = agg \/ agg' = NewAggregator
  <2>1. IF ShouldStartWatchStream(n)
        THEN net' = StartWatchStream(n) /\ agg' = NewAggregator /\ UNCHANGED up
        ELSE IF IsOpen(n)
        THEN net' = n /\ Send(request)
        ELSE net' = n /\ UNCHANGED <<agg, up>>
    BY <1>1, <1>4 DEF Listen
  <2>2. d \notin net.targets /\ net \in NetType /\ NetOk(net)
    BY <1>2, <1>4 DEF IInv, NetOk, TargetsOk, HasView
  <2>3. /\ n \in NetType /\ n.targets = net.targets \cup {d} /\ n.stream = net.stream
        /\ n.online = net.online
    BY <1>2, <2>2, NetFields DEF NetType
  <2>4. \A m : m = n => net'.targets = net.targets \cup {d}
    BY <1>2, <2>1, <2>2, ListenStarts
  <2>5. net'.targets = net.targets \cup {d}
    BY <2>4
  <2> HIDE DEF n
  <2>6. CASE ShouldStartWatchStream(n)
    <3>1. n.stream \in {"Initial", "Error"}
      BY <2>3, <2>6, NetFields DEF ShouldStartWatchStream, IsStarted, StreamStates
    <3>2. net' = StartWatchStream(n) /\ agg' = NewAggregator /\ up' = up
      BY <2>1, <2>6
    <3>3. ~IsOpen(net') /\ ~IsOpen(net)
      BY <2>3, <3>1, <3>2, StartedIsNotOpen DEF IsOpen
    <3>4. QED
      BY <2>2, <2>5, <3>2, <3>3
  <2>7. CASE ~ShouldStartWatchStream(n)
    <3>1. net' = n
      BY <2>1, <2>7
    <3>2. (IsOpen(net') <=> IsOpen(net)) /\ (IsOpen(n) <=> IsOpen(net))
      BY <2>3, <3>1 DEF IsOpen
    <3>3. IsOpen(net) => Send(request)
      BY <2>1, <2>7, <3>2
    <3>4. ~IsOpen(net) => UNCHANGED <<agg, up>>
      BY <2>1, <2>7, <3>2
    <3>5. net'.online = net.online
      BY <2>3, <3>1
    <3>6. QED
      BY <2>2, <2>5, <3>2, <3>3, <3>4, <3>5
  <2>8. QED
    BY <2>6, <2>7
<1>5. QED
  BY <1>3, <1>4 DEF d, r

LEMMA StopSends ==
  ASSUME IInv, NEW d \in Docs, HasView(d), StopListening(d)
  PROVE  /\ d \in net.targets /\ net'.targets = net.targets \ {d}
         /\ IsOpen(net) => /\ IsOpen(net') /\ net'.online = net.online
                           /\ Send([op |-> "unwatch", doc |-> d])
         /\ ~IsOpen(net) => ~IsOpen(net') /\ UNCHANGED <<agg, up>>
<1>1. d \in net.targets /\ net \in NetType
  BY DEF IInv, NetOk, TargetsOk, HasView
<1>2. net'.targets = net.targets \ {d} /\ (IsOpen(net') <=> IsOpen(net))
  BY <1>1, StopKeeps
<1>3. ASSUME IsOpen(net)
      PROVE  net'.online = net.online
  <2> DEFINE h == HardAssert(net, d \in net.targets)
             n == [h EXCEPT !.targets = @ \ {d}, !.idle = FALSE]
  <2>1. net' = [n EXCEPT !.idle = n.targets = {}]
    BY <1>3 DEF StopListening
  <2>2. h = [net EXCEPT !.trapped = @ \/ ~(d \in net.targets)]
    BY DEF HardAssert
  <2>3. n.online = net.online /\ DOMAIN n = DOMAIN net
    BY <1>1, <2>2 DEF NetType
  <2> HIDE DEF n
  <2>4. QED
    BY <2>1, <2>3
<1>4. /\ IsOpen(net) => Send([op |-> "unwatch", doc |-> d])
      /\ ~IsOpen(net) => UNCHANGED <<agg, up>>
  BY DEF StopListening
<1>5. QED
  BY <1>1, <1>2, <1>3, <1>4

(* The steps that end the stream. *)
Ends == StreamDoesNotOpen \/ StreamBreaks \/ IdleTimeout \/ NetworkRestarts

LEMMA EndsAre ==
  ASSUME IInv, Ends
  PROVE  /\ ~IsOpen(net') /\ up' = <<>> /\ down' = <<>> /\ watched' = {} /\ agg' = NewAggregator
         /\ UNCHANGED <<reads, muted, answers, ops, held, refusals>>
         /\ net'.targets = net.targets
<1>1. NetOk(net)
  BY DEF IInv
<1>2. StreamEnds /\ UNCHANGED <<reads, muted, answers, ops, held, refusals>>
  BY DEF Ends, StreamDoesNotOpen, StreamBreaks, IdleTimeout, NetworkRestarts, app
<1>3. CASE StreamDoesNotOpen \/ StreamBreaks
  <2>1. net' = CloseWithError(net)
    BY <1>3 DEF StreamDoesNotOpen, StreamBreaks, Broadcast
  <2>2. IsStarted(net)
    BY <1>3 DEF StreamDoesNotOpen, StreamBreaks, IsOpen, IsStarted
  <2>3. QED
    BY <1>1, <1>2, <2>1, <2>2, ErrorCloses DEF StreamEnds
<1>4. CASE IdleTimeout
  <2>1. net' = CloseWhenIdle(net) /\ net.idle
    BY <1>4 DEF IdleTimeout
  <2>2. QED
    BY <1>1, <1>2, <2>1, IdleCloses DEF StreamEnds
<1>5. CASE NetworkRestarts
  <2>1. net' = RestartNetwork(net)
    BY <1>5 DEF NetworkRestarts
  <2>2. QED
    BY <1>1, <1>2, <2>1, RestartRestarts DEF StreamEnds
<1>6. QED
  BY <1>3, <1>4, <1>5 DEF Ends

(* The floor of a view stays while there is the view. *)
LEMMA FloorsStay ==
  ASSUME IInv, IInv', AInv, LInv, [Next]_vars
  PROVE  \A d \in Docs : HasView(d) /\ HasView(d)' => Floor(d)' = Floor(d)
<1> SUFFICES ASSUME NEW d \in Docs, HasView(d), HasView(d)'
             PROVE  Floor(d)' = Floor(d)
  OBVIOUS
<1>1. views[d].by \in DOMAIN reads
  BY FloorsAreNat
<1>2. views'[d].by = views[d].by /\ reads'[views[d].by] = reads[views[d].by] => Floor(d)' = Floor(d)
  BY DEF Floor
<1>3. ASSUME NEW e \in Docs, GetDocument(e)
      PROVE  Floor(d)' = Floor(d)
  <2>1. views' = views
    BY <1>3 DEF GetDocument
  <2>2. QED
    BY <1>1, <1>2, <1>3, <2>1, GetDocumentKeeps
<1>4. CASE AddQueryListener
  <2> DEFINE r == Head(ops).read
             e == reads[r].doc
  <2>1. /\ r \in DOMAIN reads /\ e \in Docs
        /\ \A q \in DOMAIN reads : q # r => reads'[q] = reads[q]
        /\ views[d].by # r
        /\ HasView(e) => JoinView(r, e)
    BY <1>4, ListenSetsFloor
  <2>2. \A f \in Docs : f # e => views'[f] = views[f]
    BY <1>4, AddQueryListenerKeeps
  <2> HIDE DEF r
  <2>3. e = d => views'[d].by = views[d].by
    BY <2>1, JoinKeeps
  <2>4. QED
    BY <1>1, <1>2, <2>1, <2>2, <2>3
<1>5. CASE RemoveQueryListener
  <2>1. views'[d].by = views[d].by
    BY <1>5, RemoveLeaves DEF HasView
  <2>2. reads' = reads
    BY <1>5 DEF RemoveQueryListener, app
  <2>3. QED
    BY <1>2, <2>1, <2>2
<1>6. CASE StreamDoesNotOpen \/ StreamBreaks \/ OnlineStateTimeout
  <2>1. ViewsKept
    BY <1>6, StreamDoesNotOpenKeeps, StreamBreaksKeeps, OnlineStateTimeoutKeeps
  <2>2. reads' = reads
    BY <1>6 DEF StreamDoesNotOpen, StreamBreaks, OnlineStateTimeout
  <2>3. QED
    BY <1>2, <2>1, <2>2 DEF ViewsKept, Stays, HasView
<1>7. CASE OnWatchStreamChange
  <2>1. Stays(d) /\ reads' = reads
    BY <1>7, OnWatchStreamChangeKeeps DEF HasView
  <2>2. QED
    BY <1>2, <2>1 DEF Stays
<1>8. ASSUME \/ RunEvent
             \/ StreamOpens \/ BackoffElapses \/ IdleTimeout \/ NetworkRestarts
             \/ BackendAdds \/ BackendRefuses \/ BackendRemoves
             \/ \E e \in Docs : DocumentChanges(e)
             \/ UNCHANGED vars
      PROVE  Floor(d)' = Floor(d)
  <2>1. UNCHANGED <<reads, views>>
    BY <1>8 DEF RunEvent, StreamOpens, BackoffElapses, IdleTimeout, NetworkRestarts, BackendAdds,
                BackendRefuses, BackendRemoves, DocumentChanges, app, vars
  <2>2. QED
    BY <1>2, <2>1
<1>9. QED
  BY <1>3, <1>4, <1>5, <1>6, <1>7, <1>8 DEF Next

LEMMA TargetsHaveViews ==
  ASSUME IInv
  PROVE  /\ \A d \in Docs : d \in net.targets <=> HasView(d)
         /\ net.targets \subseteq Docs
         /\ net \in NetType /\ NetOk(net) /\ StreamOk(net, up, down, watched)
BY NetFields DEF IInv, TargetsOk, HasView, NetOk

LEMMA TargetFloors ==
  ASSUME IInv, IInv', AInv, LInv, [Next]_vars
  PROVE  \A d \in net.targets : d \in net'.targets => Floor(d)' = Floor(d)
<1>1. \A d \in net.targets : d \in Docs /\ HasView(d)
  BY TargetsHaveViews
<1>2. \A d \in Docs : d \in net'.targets => HasView(d)'
  BY DEF IInv, TargetsOk, HasView
<1>3. QED
  BY <1>1, <1>2, FloorsStay

(* What reading a response is. *)
LEMMA ChangeIs ==
  ASSUME IInv, OnWatchStreamChange
  PROVE  LET m == Head(down) IN
         /\ down # <<>> /\ down \in Seq(Response) /\ m \in Response /\ down' = Tail(down)
         /\ IsOpen(net) /\ IsOpen(net') /\ net'.online = "Online" /\ agg \in AggType
         /\ UNCHANGED <<reads, muted, answers, ops, up, watched, held, refusals>>
         /\ m.change = "snapshot" => RaiseWatchSnapshot /\ net'.targets = net.targets
         /\ m.change = "refused" =>
              /\ m.doc \in Docs /\ cached' = cached
              /\ m.doc \notin net.targets =>
                   net'.targets = net.targets /\ UNCHANGED <<views, agg>>
              /\ m.doc \in net.targets =>
                   /\ net'.targets = net.targets \ {m.doc}
                   /\ agg' = RemoveTarget(agg, m.doc)
                   /\ views' = [views EXCEPT ![m.doc] = NoView]
         /\ m.change \notin {"snapshot", "refused"} =>
              /\ HandleTargetChange(m) /\ net'.targets = net.targets
              /\ UNCHANGED <<views, events, cached>>
<1> DEFINE m == Head(down)
<1>1. /\ NetOk(net) /\ net \in NetType /\ IsOpen(net) /\ down \in Seq(Response)
      /\ down # <<>> /\ m \in Response /\ agg \in AggType
  BY DEF OnWatchStreamChange, IInv, StreamOk, NetOk
<1>2. /\ down' = Tail(down)
      /\ UNCHANGED <<reads, muted, answers, ops, up, watched, held, refusals>>
      /\ \/ /\ m.change = "snapshot"
            /\ net' = UpdateState(net, "Online")
            /\ RaiseWatchSnapshot
         \/ /\ m.change = "refused"
            /\ ProcessTargetError(m)
            /\ UNCHANGED cached
         \/ /\ m.change \notin {"snapshot", "refused"}
            /\ net' = UpdateState(net, "Online")
            /\ HandleTargetChange(m)
            /\ UNCHANGED <<views, events, cached>>
  BY DEF OnWatchStreamChange, backend
<1>3. m.change = "refused" => m.doc \in Docs
  BY <1>1, ResponseFields
<1> HIDE DEF m
<1>4. \A targets \in SUBSET Docs :
        LET n == UpdateState([net EXCEPT !.targets = targets], "Online") IN
          n.targets = targets /\ n.online = "Online" /\ n.stream = net.stream
  <2> SUFFICES ASSUME NEW targets \in SUBSET Docs
               PROVE  LET n == UpdateState([net EXCEPT !.targets = targets], "Online") IN
                        n.targets = targets /\ n.online = "Online" /\ n.stream = net.stream
    OBVIOUS
  <2> DEFINE n == [net EXCEPT !.targets = targets]
  <2>1. n \in NetType /\ n.targets = targets /\ n.stream = net.stream
    BY <1>1 DEF NetType
  <2> HIDE DEF n
  <2>2. QED
    BY <2>1, StateUpdated DEF OnlineStates, n
<1>5. /\ net.targets \in SUBSET Docs /\ [net EXCEPT !.targets = net.targets] = net
      /\ net.targets \ {m.doc} \in SUBSET Docs
  BY <1>1, NetFields DEF NetType
<1>6. net' = UpdateState(net, "Online") =>
        net'.targets = net.targets /\ net'.online = "Online" /\ IsOpen(net')
  <2>1. LET n == UpdateState([net EXCEPT !.targets = net.targets], "Online") IN
          n.targets = net.targets /\ n.online = "Online" /\ n.stream = net.stream
    BY <1>4, <1>5
  <2>2. LET n == UpdateState(net, "Online") IN
          n.targets = net.targets /\ n.online = "Online" /\ n.stream = net.stream
    BY <1>5, <2>1
  <2>3. QED
    BY <1>1, <2>2 DEF IsOpen
<1>7. ASSUME m.change = "refused"
      PROVE  /\ IsOpen(net') /\ net'.online = "Online"
             /\ m.doc \notin net.targets =>
                   net'.targets = net.targets /\ UNCHANGED <<views, agg>>
             /\ m.doc \in net.targets =>
                   /\ net'.targets = net.targets \ {m.doc}
                   /\ agg' = RemoveTarget(agg, m.doc)
                   /\ views' = [views EXCEPT ![m.doc] = NoView]
  <2>1. ProcessTargetError(m)
    BY <1>2, <1>7
  <2>2. CASE m.doc \notin net.targets
    BY <1>6, <2>1, <2>2 DEF ProcessTargetError
  <2>3. CASE m.doc \in net.targets
    <3>1. /\ net' = UpdateState([net EXCEPT !.targets = net.targets \ {m.doc}], "Online")
          /\ agg' = RemoveTarget(agg, m.doc)
          /\ views' = [views EXCEPT ![m.doc] = NoView]
      BY <2>1, <2>3 DEF ProcessTargetError
    <3>2. net'.targets = net.targets \ {m.doc} /\ net'.online = "Online" /\ IsOpen(net')
      BY <1>1, <1>4, <1>5, <3>1 DEF IsOpen
    <3>3. QED
      BY <2>3, <3>1, <3>2
  <2>4. QED
    BY <2>2, <2>3
<1>8. QED
  BY <1>1, <1>2, <1>3, <1>6, <1>7 DEF m

--------------------------------------------------------------------------------
(* FreshAnswers: BInv *)

LEMMA FirstBInv == Init => BInv
BY DEF Init, BInv, Paired, IsOpen

LEMMA HeldIsFresh ==
  ASSUME IInv, LInv
  PROVE  \A d \in Docs : HasView(d) =>
           Floor(d) \in Nat /\ held[d] \in Nat /\ held[d] >= Floor(d)
BY FloorsAreNat DEF LInv, FloorsOk

(* Nothing new on the stream, and no new target. *)
LEMMA QuietKeepsBInv ==
  ASSUME IInv, IInv', AInv, LInv, BInv, [Next]_vars, UNCHANGED <<down, up, agg>>,
         net'.targets = net.targets, ~IsOpen(net') => ~IsOpen(net)
  PROVE  BInv'
<1>1. \A d \in net.targets : Floor(d)' = Floor(d)
  BY TargetFloors
<1>2. NewAggregator' = NewAggregator
  BY DEF NewAggregator
<1>3. QED
  BY <1>1 DEF BInv, NewAggregator

LEMMA EmptyKeepsBInv ==
  ASSUME down' = <<>>, ~IsOpen(net') => agg' = NewAggregator
  PROVE  BInv'
BY DEF BInv, Paired, NewestFresh, NewAggregator

LEMMA ListenKeepsBInv ==
  ASSUME IInv, IInv', AInv, LInv, BInv, AddQueryListener
  PROVE  BInv'
<1> DEFINE r == Head(ops).read
           d == reads[r].doc
           request == [op |-> "watch", doc |-> d]
<1>1. d \in Docs /\ down' = down
  BY PoppedOperation DEF AddQueryListener
<1>2. /\ HasView(d) => UNCHANGED <<net, agg, up>>
      /\ ~HasView(d) =>
                 /\ d \notin net.targets /\ net'.targets = net.targets \cup {d}
                 /\ IsOpen(net) => IsOpen(net') /\ Send(request)
                 /\ ~IsOpen(net) => /\ ~IsOpen(net') /\ up' = up
                                    /\ agg' = agg \/ agg' = NewAggregator
  BY ListenSends
<1>3. [Next]_vars
  BY DEF Next
<1> HIDE DEF d, r
<1>4. CASE HasView(d)
  BY <1>1, <1>2, <1>3, <1>4, QuietKeepsBInv
<1>5. CASE ~HasView(d) /\ IsOpen(net)
  <2>1. request \in Request /\ request.doc = d
    BY <1>1 DEF Request
  <2> HIDE DEF request
  <2>2. up' = Append(up, request) /\ up \in Seq(Request)
    BY <1>2, <1>5, TargetsHaveViews DEF Send, StreamOk
  <2>3. ~NoneFor(up', d)
    <3>1. Len(up) + 1 \in DOMAIN up' /\ up'[Len(up) + 1] = request
      BY <2>1, <2>2, TailAndAppend
    <3>2. QED
      BY <2>1, <3>1 DEF NoneFor
  <2>4. ASSUME NEW e \in net'.targets, NoneFor(up', e)
        PROVE  NewestFresh(down', e, Floor(e)')
    <3>1. e # d /\ e \in net.targets
      BY <1>2, <1>5, <2>3, <2>4
    <3>2. NoneFor(up, e)
      <4>1. \A i \in DOMAIN up : i \in DOMAIN up' /\ up'[i] = up[i]
        BY <2>1, <2>2, TailAndAppend
      <4>2. QED
        BY <2>4, <4>1 DEF NoneFor
    <3>3. Floor(e)' = Floor(e)
      BY <1>3, <2>4, <3>1, TargetFloors
    <3>4. QED
      BY <1>1, <3>1, <3>2, <3>3 DEF BInv
  <2>5. QED
    BY <1>1, <1>2, <1>5, <2>4 DEF BInv
<1>6. CASE ~HasView(d) /\ ~IsOpen(net)
  <2>1. down' = <<>>
    BY <1>1, <1>6, TargetsHaveViews DEF StreamOk
  <2>2. agg' = NewAggregator
    BY <1>2, <1>6 DEF BInv
  <2>3. QED
    BY <2>1, <2>2, EmptyKeepsBInv
<1>7. QED
  BY <1>4, <1>5, <1>6

LEMMA RemoveKeepsBInv ==
  ASSUME IInv, IInv', AInv, LInv, BInv, RemoveQueryListener
  PROVE  BInv'
<1> DEFINE r == Head(ops).read
           d == reads[r].doc
           request == [op |-> "unwatch", doc |-> d]
<1>1. /\ d \in Docs /\ down' = down
      /\ HasView(d) /\ views[d].listeners = {r} => StopListening(d)
      /\ ~(HasView(d) /\ views[d].listeners = {r}) => UNCHANGED <<net, agg, up>>
  BY RemoveLeaves DEF RemoveQueryListener
<1>2. [Next]_vars
  BY DEF Next
<1> HIDE DEF d, r
<1>3. CASE ~(HasView(d) /\ views[d].listeners = {r})
  BY <1>1, <1>2, <1>3, QuietKeepsBInv
<1>4. CASE HasView(d) /\ views[d].listeners = {r}
  <2>1. /\ d \in net.targets /\ net'.targets = net.targets \ {d}
        /\ IsOpen(net) => IsOpen(net') /\ Send(request)
        /\ ~IsOpen(net) => ~IsOpen(net') /\ UNCHANGED <<agg, up>>
    BY <1>1, <1>4, StopSends
  <2>2. CASE IsOpen(net)
    <3>1. request \in Request
      BY <1>1 DEF Request
    <3> HIDE DEF request
    <3>2. up' = Append(up, request) /\ up \in Seq(Request)
      BY <2>1, <2>2, TargetsHaveViews DEF Send, StreamOk
    <3>3. ASSUME NEW e \in net'.targets, NoneFor(up', e)
          PROVE  NewestFresh(down', e, Floor(e)')
      <4>1. \A i \in DOMAIN up : i \in DOMAIN up' /\ up'[i] = up[i]
        BY <3>1, <3>2, TailAndAppend
      <4>2. NoneFor(up, e) /\ e \in net.targets
        BY <2>1, <3>3, <4>1 DEF NoneFor
      <4>3. Floor(e)' = Floor(e)
        BY <1>2, <3>3, <4>2, TargetFloors
      <4>4. QED
        BY <1>1, <4>2, <4>3 DEF BInv
    <3>4. QED
      BY <1>1, <2>1, <2>2, <3>3 DEF BInv
  <2>3. CASE ~IsOpen(net)
    <3>1. down' = <<>>
      BY <1>1, <2>3, TargetsHaveViews DEF StreamOk
    <3>2. agg' = NewAggregator
      BY <2>1, <2>3 DEF BInv
    <3>3. QED
      BY <3>1, <3>2, EmptyKeepsBInv
  <2>4. QED
    BY <2>2, <2>3
<1>5. QED
  BY <1>3, <1>4

LEMMA AddsKeepBInv ==
  ASSUME IInv, IInv', AInv, LInv, BInv, BackendAdds
  PROVE  BInv'
<1> DEFINE e == Head(up).doc
           m1 == [change |-> "added", doc |-> e]
           m2 == [change |-> "current", doc |-> e, version |-> held[e]]
           m3 == [change |-> "snapshot"]
           q1 == Append(down, m1)
           q2 == Append(q1, m2)
           q3 == Append(q2, m3)
<1>1. /\ up # <<>> /\ up' = Tail(up) /\ down' = down \o <<m1, m2, m3>>
      /\ up \in Seq(Request) /\ down \in Seq(Response) /\ e \in Docs /\ held[e] \in Versions
      /\ UNCHANGED <<net, agg>> /\ IsOpen(net)
  BY PoppedRequest DEF BackendAdds, IInv, StreamOk
<1>2. /\ m1 \in Response /\ m2 \in Response /\ m3 \in Response
      /\ m1.change = "added" /\ m1.doc = e /\ m2.change = "current" /\ m2.doc = e
      /\ m2.version = held[e] /\ m3.change = "snapshot"
  BY <1>1 DEF Response
<1>3. [Next]_vars
  BY DEF Next
<1>4. Head(up).doc = e
  OBVIOUS
<1> HIDE DEF e, m1, m2, m3
<1>5. down' = q3 /\ q1 \in Seq(Response) /\ q2 \in Seq(Response)
  BY <1>1, <1>2, OneByOne
<1> HIDE DEF q1, q2
<1>6. Paired(down')
  <2>1. Paired(q2)
    BY <1>1, <1>2, PairedMore DEF BInv, q1, q2
  <2>2. Paired(q3)
    BY <1>2, <1>5, <2>1, PairedMore
  <2>3. QED
    BY <1>5, <2>2
<1>7. ASSUME NEW d \in net'.targets, NoneFor(up', d)
      PROVE  NewestFresh(down', d, Floor(d)')
  <2>1. d \in net.targets /\ d \in Docs /\ Floor(d)' = Floor(d)
    BY <1>1, <1>3, <1>7, TargetFloors, TargetsHaveViews
  <2> DEFINE floor == Floor(d)
  <2>2. floor \in Nat /\ held[d] \in Nat /\ held[d] >= floor
    BY <2>1, HeldIsFresh, TargetsHaveViews
  <2> HIDE DEF floor
  <2>3. /\ m1 \in Replies(d) <=> e = d
        /\ m1 \notin Contents(d) /\ m3 \notin Contents(d)
        /\ m2 \in Contents(d) => e = d
    BY <1>2, <2>1, Kinds
  <2>4. NewestFresh(q1, d, floor)
    <3>1. CASE e = d
      BY <1>1, <1>2, <2>1, <2>2, <2>3, <3>1, FreshMore DEF q1
    <3>2. CASE e # d
      <4>1. NoneFor(up, d)
        BY <1>1, <1>4, <1>7, <3>2, NoneForLess
      <4>2. NewestFresh(down, d, floor)
        BY <2>1, <4>1 DEF BInv, floor
      <4>3. QED
        BY <1>1, <1>2, <2>1, <2>2, <2>3, <4>2, FreshMore DEF q1
    <3>3. QED
      BY <3>1, <3>2
  <2>5. m2 \in Contents(d) => m2.version >= floor
    BY <1>2, <2>2, <2>3
  <2>6. NewestFresh(q2, d, floor)
    BY <1>2, <1>5, <2>1, <2>2, <2>4, <2>5, FreshMore DEF q2
  <2>7. NewestFresh(q3, d, floor)
    BY <1>2, <1>5, <2>1, <2>2, <2>3, <2>6, FreshMore
  <2>8. QED
    BY <1>5, <2>1, <2>7 DEF floor
<1>8. QED
  BY <1>1, <1>6, <1>7 DEF BInv

(* A request is answered with a single reply. *)
LEMMA ReplyKeepsBInv ==
  ASSUME IInv, IInv', AInv, LInv, BInv, BackendRefuses \/ BackendRemoves
  PROVE  BInv'
<1> DEFINE e == Head(up).doc
<1>1. PICK change \in {"refused", "removed"} : down' = Append(down, [change |-> change, doc |-> e])
  BY DEF BackendRefuses, BackendRemoves
<1> DEFINE m == [change |-> change, doc |-> e]
<1>2. /\ up # <<>> /\ up' = Tail(up)
      /\ up \in Seq(Request) /\ down \in Seq(Response) /\ e \in Docs
      /\ UNCHANGED <<net, agg>> /\ IsOpen(net)
  BY PoppedRequest DEF BackendRefuses, BackendRemoves, IInv, StreamOk
<1>3. m \in Response /\ m.change \in {"refused", "removed"} /\ m.doc = e
  BY <1>2 DEF Response
<1>4. [Next]_vars
  BY DEF Next
<1>5. Head(up).doc = e /\ down' = Append(down, m)
  BY <1>1
<1> HIDE DEF e, m
<1>6. Paired(down')
  <2>1. m.change # "added"
    BY <1>3
  <2>2. QED
    BY <1>2, <1>3, <1>5, <2>1, PairedMore DEF BInv
<1>7. ASSUME NEW d \in net'.targets, NoneFor(up', d)
      PROVE  NewestFresh(down', d, Floor(d)')
  <2>1. d \in net.targets /\ d \in Docs /\ Floor(d)' = Floor(d) /\ Floor(d) \in Nat
    BY <1>2, <1>4, <1>7, TargetFloors, TargetsHaveViews, HeldIsFresh
  <2>2. (m \in Replies(d) <=> e = d) /\ m \notin Contents(d)
    BY <1>3, <2>1, Kinds
  <2>3. CASE e = d
    BY <1>2, <1>3, <1>5, <2>1, <2>2, <2>3, FreshMore
  <2>4. CASE e # d
    <3>1. NoneFor(up, d)
      BY <1>2, <1>5, <1>7, <2>4, NoneForLess
    <3>2. NewestFresh(down, d, Floor(d))
      BY <2>1, <3>1 DEF BInv
    <3>3. QED
      BY <1>2, <1>3, <1>5, <2>1, <2>2, <3>2, FreshMore
  <2>5. QED
    BY <2>3, <2>4
<1>8. QED
  BY <1>2, <1>6, <1>7 DEF BInv

LEMMA ChangeKeepsBInv ==
  ASSUME IInv, IInv', AInv, LInv, BInv, NEW e \in Docs, DocumentChanges(e)
  PROVE  BInv'
<1> DEFINE m1 == [change |-> "document", doc |-> e, version |-> held[e] + 1]
           m2 == [change |-> "snapshot"]
           q1 == Append(down, m1)
           q2 == Append(q1, m2)
<1>1. /\ UNCHANGED <<up, net, agg>> /\ down \in Seq(Response) /\ held[e] + 1 \in Versions
      /\ down' = IF e \notin watched THEN down ELSE down \o <<m1, m2>>
  BY VersionsAreNat, ReadBounds DEF DocumentChanges, IInv, StreamOk, Versions
<1>2. /\ m1 \in Response /\ m2 \in Response
      /\ m1.change = "document" /\ m1.doc = e /\ m1.version = held[e] + 1
      /\ m2.change = "snapshot"
  BY <1>1 DEF Response
<1>3. [Next]_vars
  BY DEF Next
<1> HIDE DEF m1, m2
<1>4. CASE e \notin watched
  BY <1>1, <1>3, <1>4, QuietKeepsBInv
<1>5. CASE e \in watched
  <2>1. down' = q2 /\ q1 \in Seq(Response) /\ IsOpen(net)
    BY <1>1, <1>2, <1>5, OneByOne, TargetsHaveViews DEF StreamOk
  <2> HIDE DEF q1
  <2>2. Paired(down')
    <3>1. m1.change # "added" /\ m2.change # "added"
      BY <1>2
    <3>2. Paired(q1)
      BY <1>1, <1>2, <3>1, PairedMore DEF BInv, q1
    <3>3. QED
      BY <1>2, <2>1, <3>1, <3>2, PairedMore
  <2>3. ASSUME NEW d \in net'.targets, NoneFor(up', d)
        PROVE  NewestFresh(down', d, Floor(d)')
    <3>1. d \in net.targets /\ d \in Docs /\ Floor(d)' = Floor(d)
      BY <1>1, <1>3, <2>3, TargetFloors, TargetsHaveViews
    <3> DEFINE floor == Floor(d)
    <3>2. floor \in Nat /\ held[d] \in Nat /\ held[d] >= floor
      BY <3>1, HeldIsFresh, TargetsHaveViews
    <3>3. NewestFresh(down, d, floor)
      BY <1>1, <2>3, <3>1 DEF BInv
    <3> HIDE DEF floor
    <3>4. m2 \notin Contents(d) /\ (m1 \in Contents(d) => e = d)
      BY <1>2, <3>1, Kinds
    <3>5. m1 \in Contents(d) => m1.version >= floor
      BY <1>2, <3>2, <3>4
    <3>6. NewestFresh(q1, d, floor)
      BY <1>1, <1>2, <3>1, <3>2, <3>3, <3>5, FreshMore DEF q1
    <3>7. NewestFresh(q2, d, floor)
      BY <1>2, <2>1, <3>1, <3>2, <3>4, <3>6, FreshMore
    <3>8. QED
      BY <2>1, <3>1, <3>7 DEF floor
  <2>4. QED
    BY <1>1, <2>1, <2>2, <2>3 DEF BInv
<1>6. QED
  BY <1>4, <1>5

LEMMA ReadingKeepsBInv ==
  ASSUME IInv, IInv', AInv, LInv, BInv, OnWatchStreamChange
  PROVE  BInv'
<1>1. /\ down # <<>> /\ down \in Seq(Response) /\ down' = Tail(down) /\ up' = up
      /\ IsOpen(net')
  BY ChangeIs
<1>2. net'.targets \subseteq net.targets
  <2>1. Head(down).change = "snapshot" => net'.targets = net.targets
    BY ChangeIs
  <2>2. Head(down).change = "refused" => net'.targets \subseteq net.targets
    BY ChangeIs
  <2>3. Head(down).change \notin {"snapshot", "refused"} => net'.targets = net.targets
    BY ChangeIs
  <2>4. QED
    BY <2>1, <2>2, <2>3
<1>3. [Next]_vars
  BY DEF Next
<1>4. Paired(down')
  BY <1>1, PairedLess DEF BInv
<1>5. ASSUME NEW d \in net'.targets, NoneFor(up', d)
      PROVE  NewestFresh(down', d, Floor(d)')
  <2>1. d \in net.targets /\ d \in Docs /\ Floor(d)' = Floor(d) /\ Floor(d) \in Nat
    BY <1>2, <1>3, <1>5, TargetFloors, TargetsHaveViews, HeldIsFresh
  <2>2. NewestFresh(down, d, Floor(d))
    BY <1>1, <1>5, <2>1 DEF BInv
  <2>3. QED
    BY <1>1, <2>1, <2>2, FreshLess
<1>6. QED
  BY <1>1, <1>4, <1>5 DEF BInv

LEMMA NextKeepsBInv ==
  ASSUME IInv, IInv', AInv, LInv, BInv, [Next]_vars
  PROVE  BInv'
<1>1. CASE AddQueryListener
  BY <1>1, ListenKeepsBInv
<1>2. CASE RemoveQueryListener
  BY <1>2, RemoveKeepsBInv
<1>3. CASE Ends
  <2>1. down' = <<>> /\ agg' = NewAggregator
    BY <1>3, EndsAre
  <2>2. QED
    BY <2>1, EmptyKeepsBInv
<1>4. CASE StreamOpens
  <2>1. down' = <<>>
    BY <1>4, TargetsHaveViews DEF StreamOpens, StreamOk, IsOpen
  <2>2. IsOpen(net')
    BY <1>4, TargetsHaveViews DEF StreamOpens, IsOpen, NetType
  <2>3. QED
    BY <2>1, <2>2, EmptyKeepsBInv
<1>5. CASE OnWatchStreamChange
  BY <1>5, ReadingKeepsBInv
<1>6. CASE BackendAdds
  BY <1>6, AddsKeepBInv
<1>7. CASE BackendRefuses \/ BackendRemoves
  BY <1>7, ReplyKeepsBInv
<1>8. ASSUME NEW d \in Docs, DocumentChanges(d)
      PROVE  BInv'
  BY <1>8, ChangeKeepsBInv
<1>9. ASSUME (\E d \in Docs : GetDocument(d)) \/ RunEvent \/ UNCHANGED vars
      PROVE  BInv'
  <2>1. UNCHANGED <<down, up, agg, net>>
    BY <1>9 DEF GetDocument, RunEvent, vars
  <2>2. QED
    BY <2>1, QuietKeepsBInv
<1>10. CASE BackoffElapses
  <2>1. UNCHANGED <<down, up, agg>> /\ net'.targets = net.targets /\ ~IsOpen(net)
    BY <1>10, TargetsHaveViews DEF BackoffElapses, IsOpen, NetType
  <2>2. QED
    BY <2>1, QuietKeepsBInv
<1>11. CASE OnlineStateTimeout
  <2>1. UNCHANGED <<down, up, agg>>
        /\ net' = [HardAssert(net, net.online = "Unknown")
                     EXCEPT !.timer = FALSE, !.online = "Offline"]
    BY <1>11 DEF OnlineStateTimeout, Broadcast
  <2>2. net'.targets = net.targets /\ net'.stream = net.stream
    BY <2>1, TargetsHaveViews DEF HardAssert, NetType
  <2>3. QED
    BY <2>1, <2>2, QuietKeepsBInv DEF IsOpen
<1>12. QED
  BY <1>1, <1>2, <1>3, <1>4, <1>5, <1>6, <1>7, <1>8, <1>9, <1>10, <1>11 DEF Next, Ends

LEMMA BInvAlways == Spec => []BInv
<1>1. IInv /\ IInv' /\ AInv /\ LInv /\ BInv /\ [Next]_vars => BInv'
  BY NextKeepsBInv
<1>2. QED
  BY FirstBInv, IInvAlways, AInvAlways, LInvAlways, <1>1, PTL DEF Spec

--------------------------------------------------------------------------------
(* FreshAnswers: requests alternate *)

LEMMA RequestIs ==
  ASSUME NEW q \in Request, NEW d
  PROVE  /\ q = [op |-> "watch", doc |-> d] <=> q.op = "watch" /\ q.doc = d
         /\ q = [op |-> "unwatch", doc |-> d] <=> q.op = "unwatch" /\ q.doc = d
         /\ q.op \in {"watch", "unwatch"}
BY DEF Request

LEMMA AlternatesMore ==
  ASSUME NEW requests \in Seq(Request), NEW request \in Request, NEW seen, NEW d \in Docs,
         NEW targets, NEW wanted, Alternates(requests, seen, targets, d),
         request.doc # d => (d \in wanted <=> d \in targets),
         request.doc = d => /\ request.op = "watch" <=> d \notin targets
                            /\ request.op = "watch" <=> d \in wanted
  PROVE  Alternates(Append(requests, request), seen, wanted, d)
<1> DEFINE n == Len(requests)
           more == Append(requests, request)
           Unwatch(queue, j) == j \in DOMAIN queue /\ queue[j] = [op |-> "unwatch", doc |-> d]
<1>1. /\ n \in Nat /\ DOMAIN requests = 1..n /\ DOMAIN more = 1..(n + 1)
      /\ more[n + 1] = request /\ \A i \in DOMAIN requests : more[i] = requests[i]
  BY TailAndAppend
<1> HIDE DEF more, n
<1>2. \A j : Unwatch(requests, j) => Unwatch(more, j)
  BY <1>1
<1>3. \A i \in {0} \cup DOMAIN more : Watching(more, seen, i, d) =>
        \/ i \in {0} \cup DOMAIN requests /\ Watching(requests, seen, i, d)
        \/ i = n + 1 /\ request.doc = d /\ request.op = "watch"
  BY <1>1, RequestIs DEF Watching
<1>4. ASSUME NEW i \in {0} \cup DOMAIN requests, Watching(requests, seen, i, d), d \notin targets
      PROVE  \E j : Unwatch(requests, j) /\ i < j /\ j < n + 1
  <2>1. PICK j \in DOMAIN requests : i < j /\ Unwatch(requests, j)
    BY <1>4 DEF Alternates
  <2>2. QED
    BY <1>1, <2>1
<1>5. ASSUME NEW i \in {0} \cup DOMAIN more, NEW k \in {0} \cup DOMAIN more,
             Watching(more, seen, i, d), Watching(more, seen, k, d), i < k
      PROVE  \E j : Unwatch(more, j) /\ i < j /\ j < k
  <2>1. i \in {0} \cup DOMAIN requests /\ Watching(requests, seen, i, d)
    BY <1>1, <1>3, <1>5
  <2>2. CASE k \in {0} \cup DOMAIN requests /\ Watching(requests, seen, k, d)
    <3>1. PICK j \in DOMAIN requests : i < j /\ j < k /\ Unwatch(requests, j)
      BY <1>5, <2>1, <2>2 DEF Alternates
    <3>2. QED
      BY <1>2, <3>1
  <2>3. CASE k = n + 1 /\ request.doc = d /\ request.op = "watch"
    BY <1>2, <1>4, <2>1, <2>3
  <2>4. QED
    BY <1>3, <1>5, <2>2, <2>3
<1>6. ASSUME d \notin wanted, NEW i \in {0} \cup DOMAIN more, Watching(more, seen, i, d)
      PROVE  \E j : Unwatch(more, j) /\ i < j
  <2>1. ~(request.doc = d /\ request.op = "watch")
    BY <1>6
  <2>2. i \in {0} \cup DOMAIN requests /\ Watching(requests, seen, i, d)
    BY <1>3, <1>6, <2>1
  <2>3. CASE request.doc = d
    <3>1. Unwatch(more, n + 1) /\ i < n + 1
      BY <1>1, <2>1, <2>2, <2>3, RequestIs
    <3>2. QED
      BY <3>1
  <2>4. CASE request.doc # d
    BY <1>2, <1>4, <1>6, <2>2, <2>4
  <2>5. QED
    BY <2>3, <2>4
<1>7. Alternates(more, seen, wanted, d)
  BY <1>5, <1>6 DEF Alternates
<1>8. QED
  BY <1>7 DEF more

(* The backend has handled the request at the head. *)
LEMMA AlternatesLess ==
  ASSUME NEW requests \in Seq(Request), requests # <<>>, NEW seen, NEW now, NEW d \in Docs,
         NEW targets, Alternates(requests, seen, targets, d),
         Head(requests).doc # d => (d \in now <=> d \in seen),
         Head(requests).doc = d => (d \in now <=> Head(requests).op = "watch")
  PROVE  Alternates(Tail(requests), now, targets, d)
<1> DEFINE less == Tail(requests)
           Unwatch(queue, j) == j \in DOMAIN queue /\ queue[j] = [op |-> "unwatch", doc |-> d]
           old(i) == IF i = 0 THEN IF Head(requests).doc = d THEN 1 ELSE 0 ELSE i + 1
<1>1. /\ 1 \in DOMAIN requests /\ Head(requests) = requests[1] /\ Head(requests) \in Request
      /\ \A i \in DOMAIN less : i + 1 \in DOMAIN requests /\ i + 1 # 1
                                /\ less[i] = requests[i + 1] /\ i \in Nat
      /\ \A i \in DOMAIN requests : i # 1 =>
           i - 1 \in DOMAIN less /\ less[i - 1] = requests[i]
      /\ DOMAIN requests \subseteq Nat \ {0} /\ DOMAIN less \subseteq Nat \ {0}
  BY TailIndices
<1> HIDE DEF less
<1>2. ASSUME NEW i \in {0} \cup DOMAIN less, Watching(less, now, i, d)
      PROVE  /\ old(i) \in {0} \cup DOMAIN requests /\ Watching(requests, seen, old(i), d)
             /\ i \in Nat /\ i <= old(i) /\ old(i) <= i + 1
  <2>1. CASE i = 0
    <3>1. d \in now
      BY <1>1, <1>2, <2>1 DEF Watching
    <3>2. CASE Head(requests).doc = d
      <4>1. requests[1] = [op |-> "watch", doc |-> d]
        BY <1>1, <3>1, <3>2, RequestIs
      <4>2. QED
        BY <1>1, <2>1, <3>2, <4>1 DEF Watching
    <3>3. CASE Head(requests).doc # d
      BY <2>1, <3>1, <3>3 DEF Watching
    <3>4. QED
      BY <3>2, <3>3
  <2>2. CASE i # 0
    <3>1. i \in DOMAIN less /\ less[i] = [op |-> "watch", doc |-> d] /\ old(i) = i + 1
      BY <1>2, <2>2 DEF Watching
    <3>2. QED
      BY <1>1, <3>1 DEF Watching
  <2>3. QED
    BY <2>1, <2>2
<1>3. ASSUME NEW i \in {0} \cup DOMAIN less, Watching(less, now, i, d),
             NEW j, Unwatch(requests, j), old(i) < j
      PROVE  Unwatch(less, j - 1) /\ i < j - 1 /\ j \in Nat
  <2>1. j \in DOMAIN requests /\ j \in Nat /\ j # 0
    BY <1>1, <1>3
  <2>2. j # 1
    <3>1. SUFFICES ASSUME j = 1 PROVE FALSE
      OBVIOUS
    <3>2. i = 0 /\ Head(requests).doc # d
      BY <1>1, <1>3, <3>1
    <3>3. Head(requests).doc = d
      BY <1>1, <1>3, <3>1, RequestIs
    <3>4. QED
      BY <3>2, <3>3
  <2>3. j - 1 \in DOMAIN less /\ less[j - 1] = requests[j]
    BY <1>1, <2>1, <2>2
  <2>4. i < j - 1
    <3>1. CASE i = 0
      BY <2>1, <2>2, <3>1
    <3>2. CASE i # 0
      BY <1>2, <1>3, <2>1, <3>2
    <3>3. QED
      BY <3>1, <3>2
  <2>5. QED
    BY <1>3, <2>1, <2>3, <2>4
<1>4. ASSUME NEW i \in {0} \cup DOMAIN less, NEW k \in {0} \cup DOMAIN less,
             Watching(less, now, i, d), Watching(less, now, k, d), i < k
      PROVE  \E j \in DOMAIN less : i < j /\ j < k /\ less[j] = [op |-> "unwatch", doc |-> d]
  <2>1. k # 0 /\ old(k) = k + 1 /\ k \in Nat /\ i \in Nat /\ old(i) <= i + 1
    BY <1>1, <1>2, <1>4
  <2>2. old(i) \in {0} \cup DOMAIN requests /\ Watching(requests, seen, old(i), d)
        /\ old(k) \in {0} \cup DOMAIN requests /\ Watching(requests, seen, old(k), d)
        /\ old(i) < old(k)
    BY <1>2, <1>4, <2>1
  <2> HIDE DEF old
  <2>3. PICK j \in DOMAIN requests : old(i) < j /\ j < old(k) /\ Unwatch(requests, j)
    BY <2>2 DEF Alternates
  <2>4. Unwatch(less, j - 1) /\ i < j - 1 /\ j \in Nat
    BY <1>3, <1>4, <2>3
  <2>5. j - 1 < k
    BY <2>1, <2>3, <2>4
  <2>6. QED
    BY <2>4, <2>5
<1>5. ASSUME d \notin targets, NEW i \in {0} \cup DOMAIN less, Watching(less, now, i, d)
      PROVE  \E j \in DOMAIN less : i < j /\ less[j] = [op |-> "unwatch", doc |-> d]
  <2>1. old(i) \in {0} \cup DOMAIN requests /\ Watching(requests, seen, old(i), d)
    BY <1>2, <1>5
  <2> HIDE DEF old
  <2>2. PICK j \in DOMAIN requests : old(i) < j /\ Unwatch(requests, j)
    BY <1>5, <2>1 DEF Alternates
  <2>3. Unwatch(less, j - 1) /\ i < j - 1
    BY <1>3, <1>5, <2>2
  <2>4. QED
    BY <2>3
<1>6. QED
  BY <1>4, <1>5 DEF Alternates, less

(* The watch at the head is the only one up to an unwatch. *)
LEMMA AlternatesHead ==
  ASSUME NEW requests \in Seq(Request), requests # <<>>, NEW seen, NEW d \in Docs,
         NEW targets, Alternates(requests, seen, targets, d),
         Head(requests).doc = d, Head(requests).op = "watch"
  PROVE  /\ d \notin seen /\ ~BeginsWithWatch(Tail(requests), d)
         /\ d \notin targets => Rest(Tail(requests), 0, Requests(d)) # 0
<1> DEFINE less == Tail(requests)
<1>1. /\ 1 \in DOMAIN requests /\ Head(requests) = requests[1] /\ Head(requests) \in Request
      /\ \A i \in DOMAIN less : i + 1 \in DOMAIN requests /\ i + 1 # 1
                                /\ less[i] = requests[i + 1] /\ i \in Nat /\ less[i] \in Request
      /\ \A i \in DOMAIN requests : i # 1 =>
           i - 1 \in DOMAIN less /\ less[i - 1] = requests[i]
      /\ DOMAIN requests \subseteq Nat \ {0} /\ DOMAIN less \subseteq Nat \ {0}
      /\ less \in Seq(Request)
  BY TailIndices
<1> HIDE DEF less
<1>2. Watching(requests, seen, 1, d) /\ 1 \in {0} \cup DOMAIN requests
  BY <1>1, RequestIs DEF Watching
<1>3. d \notin seen
  <2>1. SUFFICES ASSUME d \in seen PROVE FALSE
    OBVIOUS
  <2>2. Watching(requests, seen, 0, d) /\ 0 \in {0} \cup DOMAIN requests /\ 0 < 1
    BY <2>1 DEF Watching
  <2>3. PICK j \in DOMAIN requests : 0 < j /\ j < 1
    BY <1>2, <2>2 DEF Alternates
  <2>4. QED
    BY <1>1, <2>3
<1>4. ~BeginsWithWatch(less, d)
  <2>1. SUFFICES ASSUME NEW i \in DOMAIN less, less[i].op = "watch", less[i].doc = d,
                        \A j \in DOMAIN less : j < i => less[j].doc # d
                 PROVE  FALSE
    BY DEF BeginsWithWatch
  <2>2. i + 1 \in DOMAIN requests /\ i \in Nat /\ i # 0 /\ requests[i + 1] = less[i]
        /\ less[i] \in Request
    BY <1>1
  <2>3. Watching(requests, seen, i + 1, d) /\ i + 1 \in {0} \cup DOMAIN requests /\ 1 < i + 1
    BY <2>1, <2>2, RequestIs DEF Watching
  <2>4. PICK j \in DOMAIN requests : /\ 1 < j /\ j < i + 1
                                     /\ requests[j] = [op |-> "unwatch", doc |-> d]
    BY <1>2, <2>3 DEF Alternates
  <2>5. j \in Nat /\ j - 1 \in DOMAIN less /\ less[j - 1] = requests[j] /\ requests[j].doc = d
    <3>1. j \in Nat \ {0} /\ j # 1
      BY <1>1, <2>4
    <3>2. j - 1 \in DOMAIN less /\ less[j - 1] = requests[j]
      BY <1>1, <2>4, <3>1
    <3>3. requests[j].doc = d
      BY <2>4
    <3>4. QED
      BY <3>1, <3>2, <3>3
  <2>6. j - 1 < i
    BY <2>2, <2>4, <2>5
  <2>7. QED
    BY <2>1, <2>5, <2>6
<1>5. ASSUME d \notin targets
      PROVE  Rest(less, 0, Requests(d)) # 0
  <2>1. PICK j \in DOMAIN requests : 1 < j /\ requests[j] = [op |-> "unwatch", doc |-> d]
    BY <1>2, <1>5 DEF Alternates
  <2>2. j - 1 \in DOMAIN less /\ less[j - 1] = requests[j] /\ less[j - 1] \in Request /\ 0 < j - 1
    BY <1>1, <2>1
  <2>3. less[j - 1] \in Requests(d)
    BY <2>1, <2>2, RequestsOf
  <2>4. QED
    BY <1>1, <2>2, <2>3, RestOfNone
<1>6. QED
  BY <1>3, <1>4, <1>5 DEF less

--------------------------------------------------------------------------------
(* FreshAnswers: CInv *)

LEMMA LeftIsNat ==
  ASSUME NEW requests \in Seq(Request), NEW queue \in Seq(Response)
  PROVE  \A p, d : /\ Rest(requests, 0, Requests(d)) \in Nat
                   /\ Rest(queue, p, Replies(d)) \in Nat
                   /\ Left(requests, queue, p, d) \in Nat
                   /\ Left(requests, queue, p, d) =
                        Rest(requests, 0, Requests(d)) + Rest(queue, p, Replies(d))
BY RestOfNone DEF Left

(* What a step that counts nothing of d, and takes nothing of it away, may *)
(* do to the stream and to the view.                                       *)
LEMMA StillCounted ==
  ASSUME IInv, IInv', refusals' = refusals, refusals <= 1, CInv, NEW d \in Docs,
         agg'.outstanding[d] = agg.outstanding[d],
         d \in net'.targets <=> d \in net.targets,
         Left(up', down', 0, d) = Left(up, down, 0, d),
         \A n \in Int : n <= 2 /\ Behind(down, up, watched, 0, n, d) =>
           Behind(down', up', watched', 0, n, d),
         \A p \in DOMAIN down' : down'[p].change = "refused" /\ down'[p].doc = d =>
           \E q \in DOMAIN down :
             /\ down[q] = down'[p] /\ Left(up', down', p, d) = Left(up, down, q, d)
             /\ Behind(down, up, watched, q, 2, d) => Behind(down', up', watched', p, 2, d),
         refusals = 0 /\ Alternates(up, watched, net.targets, d) =>
           Alternates(up', watched', net'.targets, d),
         Under(d) => /\ d \notin agg'.current /\ net'.online = "Online"
                     /\ HasView(d)' => ~views'[d].current /\ views'[d].raised = {}
  PROVE  Counted(d)'
<1>1. Counted(d)
  BY DEF CInv
<1>2. Exact(d)' <=> Exact(d)
  BY DEF Exact
<1>3. Over(d)' <=> Over(d)
  BY DEF Over
<1>4. Gap(d)' = Gap(d) /\ Gap(d) \in Int
  BY DEF Gap, IInv, AggType
<1>5. Under(d) => Under(d)'
  <2>1. SUFFICES ASSUME Under(d) PROVE Under(d)'
    OBVIOUS
  <2>2. Behind(down', up', watched', 0, Gap(d), d)
    BY <1>4, <2>1 DEF Under
  <2>3. agg'.outstanding[d] < Left(up', down', 0, d)
    BY <2>1 DEF Under
  <2>4. QED
    BY <1>4, <2>1, <2>2, <2>3 DEF Under
<1>6. ASSUME NEW p \in DOMAIN down', down'[p].change = "refused", down'[p].doc = d
      PROVE  RefusedOk(p, d)'
  <2>1. PICK q \in DOMAIN down :
             /\ down[q] = down'[p] /\ Left(up', down', p, d) = Left(up, down, q, d)
             /\ Behind(down, up, watched, q, 2, d) => Behind(down', up', watched', p, 2, d)
    BY <1>6
  <2>2. RefusedOk(q, d)
    BY <1>1, <1>6, <2>1 DEF Counted
  <2>3. QED
    BY <1>2, <2>1, <2>2 DEF RefusedOk
<1>7. QED
  BY <1>1, <1>2, <1>3, <1>5, <1>6 DEF Counted

LEMMA NothingCounted ==
  ASSUME up' = <<>>, down' = <<>>, watched' = {}, agg' = NewAggregator
  PROVE  OneRefusal(down') /\ \A d \in Docs : Counted(d)'
<1>1. DOMAIN down' = {} /\ DOMAIN up' = {}
  OBVIOUS
<1> SUFFICES ASSUME NEW d \in Docs
             PROVE  Counted(d)'
  BY <1>1 DEF OneRefusal
<1>2. Exact(d)'
  <2>1. agg'.outstanding[d] = 0
    BY DEF NewAggregator
  <2>2. Left(<<>>, <<>>, 0, d) = 0
    BY BetweenNothing DEF Left
  <2>3. QED
    BY <2>1, <2>2 DEF Exact
<1>3. Alternates(up', watched', net'.targets, d)
  BY <1>1 DEF Alternates, Watching
<1>4. QED
  BY <1>1, <1>2, <1>3 DEF Counted

LEMMA FirstCInv == Init => CInv
<1> SUFFICES ASSUME Init PROVE CInv
  OBVIOUS
<1>1. up = <<>> /\ down = <<>> /\ watched = {} /\ agg = NewAggregator
      /\ DOMAIN down = {} /\ DOMAIN up = {}
  BY DEF Init
<1>2. ASSUME NEW d \in Docs
      PROVE  Counted(d)
  <2>1. Left(<<>>, <<>>, 0, d) = 0 /\ agg.outstanding[d] = 0
    BY <1>1, BetweenNothing DEF Left, NewAggregator
  <2>2. Exact(d)
    BY <1>1, <2>1 DEF Exact
  <2>3. Alternates(up, watched, net.targets, d)
    BY <1>1 DEF Alternates, Watching
  <2>4. QED
    BY <1>1, <2>2, <2>3 DEF Counted
<1>3. QED
  BY <1>1, <1>2 DEF CInv, OneRefusal

(* Steps that leave the stream alone. *)
LEMMA QuietKeepsCInv ==
  ASSUME IInv, IInv', CInv, UNCHANGED <<up, down, watched, agg, refusals>>,
         net'.targets = net.targets,
         net.online = "Online" => net'.online = "Online",
         \A d \in Docs : Under(d) /\ HasView(d)' => ~views'[d].current /\ views'[d].raised = {}
  PROVE  CInv'
<1> SUFFICES ASSUME refusals <= 1 PROVE OneRefusal(down') /\ \A d \in Docs : Counted(d)'
  BY DEF CInv
<1>1. ASSUME NEW d \in Docs
      PROVE  Counted(d)'
  <2>1. Under(d) => d \notin agg'.current /\ net'.online = "Online"
    BY DEF Under
  <2>2. \A p, n : /\ Left(up', down', p, d) = Left(up, down, p, d)
                  /\ Behind(down, up, watched, p, n, d) => Behind(down', up', watched', p, n, d)
    OBVIOUS
  <2>3. QED
    BY <2>1, <2>2, StillCounted
<1>2. QED
  BY <1>1 DEF CInv

(* A request for e is sent. *)
LEMMA SendCounts ==
  ASSUME IInv, IInv', CInv, UNCHANGED <<down, watched, refusals>>, refusals <= 1,
         NEW e \in Docs, NEW op \in {"watch", "unwatch"}, Send([op |-> op, doc |-> e]),
         op = "watch" => e \notin net.targets /\ net'.targets = net.targets \cup {e},
         op = "unwatch" => e \in net.targets /\ net'.targets = net.targets \ {e},
         net'.online = net.online,
         \A d \in Docs : d # e => views'[d] = views[d],
         Under(e) => op = "watch" /\ ~views'[e].current /\ views'[e].raised = {}
  PROVE  \A d \in Docs : Counted(d)'
<1> DEFINE request == [op |-> op, doc |-> e]
<1>1. /\ up \in Seq(Request) /\ down \in Seq(Response) /\ agg \in AggType /\ request \in Request
      /\ up' = Append(up, request)
      /\ agg' = [agg EXCEPT !.outstanding[e] = @ + 1]
      /\ request.doc = e /\ request.op = op /\ up' \in Seq(Request)
  BY DEF Send, IInv, StreamOk, Request
<1> HIDE DEF request
<1>2. /\ agg.outstanding[e] \in Int /\ agg'.outstanding[e] = agg.outstanding[e] + 1
      /\ \A d \in Docs : d # e => agg'.outstanding[d] = agg.outstanding[d]
      /\ agg'.current = agg.current
  BY <1>1 DEF AggType
<1> SUFFICES ASSUME NEW d \in Docs
             PROVE  Counted(d)'
  OBVIOUS
<1>3. Counted(d)
  BY DEF CInv
<1>4. Rest(up', 0, Requests(d)) = Rest(up, 0, Requests(d)) + (IF e = d THEN 1 ELSE 0)
  BY <1>1, RequestMore
<1>5. BeginsWithWatch(up', d) =>
        BeginsWithWatch(up, d) \/ (op = "watch" /\ e = d /\ Rest(up, 0, Requests(d)) = 0)
  BY <1>1, RequestMore
<1>6. refusals = 0 => Alternates(up', watched', net'.targets, d)
  <2>1. SUFFICES ASSUME refusals = 0 PROVE Alternates(up', watched', net'.targets, d)
    OBVIOUS
  <2>2. Alternates(up, watched, net.targets, d)
    BY <1>3, <2>1 DEF Counted
  <2>3. e # d => (d \in net'.targets <=> d \in net.targets)
    OBVIOUS
  <2>4. e = d => (op = "watch" <=> d \notin net.targets) /\ (op = "watch" <=> d \in net'.targets)
    OBVIOUS
  <2>5. QED
    BY <1>1, <2>2, <2>3, <2>4, AlternatesMore
<1>7. CASE e # d
  <2>1. \A p : Left(up', down', p, d) = Left(up, down, p, d)
    BY <1>1, <1>4, <1>7, LeftIsNat DEF Left
  <2>2. \A p, n : Behind(down, up, watched, p, n, d) => Behind(down', up', watched', p, n, d)
    BY <1>5, <1>7 DEF Behind
  <2>3. d \in net'.targets <=> d \in net.targets
    BY <1>7
  <2>4. Under(d) => /\ d \notin agg'.current /\ net'.online = "Online"
                    /\ HasView(d)' => ~views'[d].current /\ views'[d].raised = {}
    BY <1>2, <1>7 DEF Under, HasView
  <2>5. QED
    BY <1>2, <1>6, <1>7, <2>1, <2>2, <2>3, <2>4, StillCounted
<1>8. CASE e = d
  <2>1. \A p : /\ Left(up', down', p, d) = Left(up, down, p, d) + 1
               /\ Left(up, down, p, d) \in Nat
               /\ Rest(down, p, Replies(d)) \in Nat /\ Rest(up, 0, Requests(d)) \in Nat
    <3>1. \A p : Left(up', down', p, d) = Rest(up', 0, Requests(d)) + Rest(down, p, Replies(d))
      BY DEF Left
    <3>2. QED
      BY <1>1, <1>4, <1>8, <3>1, LeftIsNat
  <2>2. Exact(d) => Exact(d)'
    BY <1>2, <1>8, <2>1 DEF Exact
  <2>3. Over(d) => Over(d)'
    BY <1>2, <1>8, <2>1 DEF Over
  <2>4. ASSUME NEW p, NEW n \in Int, Behind(down, up, watched, p, n, d),
               op = "watch" /\ Rest(up, 0, Requests(d)) = 0 => Rest(down, p, Replies(d)) >= n - 1
        PROVE  Behind(down', up', watched', p, n, d)
    BY <1>5, <1>8, <2>4 DEF Behind
  <2>5. ASSUME NEW p \in DOMAIN down', down'[p].change = "refused", down'[p].doc = d
        PROVE  RefusedOk(p, d)'
    <3>1. RefusedOk(p, d)
      BY <1>3, <2>5 DEF Counted
    <3>2. op = "watch" /\ Rest(up, 0, Requests(d)) = 0 => Rest(down, p, Replies(d)) >= 2 - 1
      <4>1. SUFFICES ASSUME op = "watch", Rest(up, 0, Requests(d)) = 0
                     PROVE  Rest(down, p, Replies(d)) >= 2 - 1
        OBVIOUS
      <4>2. Left(up, down, p, d) # 0
        BY <1>8, <3>1, <4>1 DEF RefusedOk
      <4>3. QED
        BY <2>1, <4>1, <4>2 DEF Left
    <3>3. Behind(down', up', watched', p, 2, d)
      BY <2>4, <3>1, <3>2 DEF RefusedOk
    <3>4. Left(up', down', p, d) # 0
      BY <2>1
    <3>5. QED
      BY <2>2, <3>1, <3>3, <3>4 DEF RefusedOk
  <2>6. ASSUME Under(d)
        PROVE  Under(d)'
    <3>1. op = "watch" /\ ~views'[d].current /\ views'[d].raised = {}
      BY <1>8, <2>6
    <3>2. d \notin net.targets /\ d \in net'.targets
      BY <1>8, <3>1
    <3> DEFINE n == Gap(d)
    <3>3. n = agg.outstanding[d] + 2 /\ Gap(d)' = agg'.outstanding[d] + 1
      BY <3>2 DEF Gap
    <3>4. n \in Int /\ Gap(d)' = n
      BY <1>2, <1>8, <3>3
    <3>5. n <= 2 /\ Behind(down, up, watched, 0, n, d) /\ agg.outstanding[d] < Left(up, down, 0, d)
      BY <2>6 DEF Under
    <3>6. Rest(up, 0, Requests(d)) = 0 => Rest(down, 0, Replies(d)) >= n - 1
      <4>1. SUFFICES ASSUME Rest(up, 0, Requests(d)) = 0
                     PROVE  Rest(down, 0, Replies(d)) >= n - 1
        OBVIOUS
      <4>2. Left(up, down, 0, d) = Rest(down, 0, Replies(d))
        BY <2>1, <4>1 DEF Left
      <4> HIDE DEF n
      <4>3. QED
        BY <1>2, <1>8, <2>1, <3>3, <3>4, <3>5, <4>2
    <3> HIDE DEF n
    <3>7. Behind(down', up', watched', 0, n, d)
      BY <2>4, <3>4, <3>5, <3>6
    <3>8. agg'.outstanding[d] < Left(up', down', 0, d)
      BY <1>2, <1>8, <2>1, <3>5
    <3>9. d \notin agg'.current /\ net'.online = "Online"
      BY <1>2, <2>6 DEF Under
    <3>10. QED
      BY <3>1, <3>4, <3>5, <3>7, <3>8, <3>9 DEF Under
  <2>7. QED
    BY <1>3, <1>6, <2>2, <2>3, <2>5, <2>6 DEF Counted
<1>9. QED
  BY <1>7, <1>8

LEMMA ListenKeepsCInv ==
  ASSUME IInv, IInv', BInv, CInv, AddQueryListener
  PROVE  CInv'
<1> DEFINE r == Head(ops).read
           e == reads[r].doc
<1>1. /\ ops # <<>> /\ Head(ops).op = "listen" /\ UNCHANGED <<down, watched, refusals>>
      /\ IF HasView(e) THEN JoinView(r, e) ELSE Listen(r, e)
  BY DEF AddQueryListener, backend
<1>2. r \in DOMAIN reads /\ e \in Docs
  BY <1>1, PoppedOperation
<1>3. /\ HasView(e) => UNCHANGED <<net, agg, up>>
      /\ ~HasView(e) =>
           /\ e \notin net.targets /\ net'.targets = net.targets \cup {e}
           /\ IsOpen(net) => net'.online = net.online /\ Send([op |-> "watch", doc |-> e])
           /\ ~IsOpen(net) => up' = up /\ (agg' = agg \/ agg' = NewAggregator)
  BY ListenSends
<1>4. \A d \in Docs : d # e => views'[d] = views[d]
  BY AddQueryListenerKeeps
<1>5. refusals <= 1 => OneRefusal(down)
  BY DEF CInv
<1>6. reads[r].doc = e
  OBVIOUS
<1> HIDE DEF e, r
<1>7. CASE HasView(e)
  <2>1. /\ views'[e].current = views[e].current
        /\ views'[e].raised = IF views[e].current \/ net.online = "Offline"
                              THEN views[e].raised \cup {r} ELSE views[e].raised
    BY <1>1, <1>2, <1>6, <1>7, JoinKeeps
  <2>2. ASSUME NEW d \in Docs, Under(d), HasView(d)'
        PROVE  ~views'[d].current /\ views'[d].raised = {}
    <3>1. net.online = "Online" /\ (HasView(d) => ~views[d].current /\ views[d].raised = {})
      BY <2>2 DEF Under
    <3>2. CASE d = e
      BY <1>7, <2>1, <3>1, <3>2
    <3>3. CASE d # e
      <4>1. views'[d] = views[d]
        BY <1>4, <3>3
      <4>2. HasView(d)
        BY <2>2, <4>1 DEF HasView
      <4>3. QED
        BY <3>1, <4>1, <4>2
    <3>4. QED
      BY <3>2, <3>3
  <2>3. UNCHANGED <<net, agg, up>>
    BY <1>3, <1>7
  <2>4. QED
    BY <1>1, <2>2, <2>3, QuietKeepsCInv
<1>8. CASE ~HasView(e) /\ IsOpen(net)
  <2>1. ~views'[e].current /\ (net.online # "Offline" => views'[e].raised = {})
    BY <1>1, <1>2, <1>6, <1>8, ListenKeeps
  <2>2. Under(e) => ~views'[e].current /\ views'[e].raised = {}
    BY <2>1 DEF Under
  <2>3. refusals <= 1 => \A d \in Docs : Counted(d)'
    BY <1>1, <1>2, <1>3, <1>4, <1>8, <2>2, SendCounts
  <2>4. QED
    BY <1>1, <1>5, <2>3 DEF CInv
<1>9. CASE ~HasView(e) /\ ~IsOpen(net)
  <2>1. up = <<>> /\ down = <<>> /\ watched = {} /\ agg = NewAggregator
    BY <1>9, TargetsHaveViews DEF StreamOk, BInv
  <2>2. up' = <<>> /\ down' = <<>> /\ watched' = {} /\ agg' = NewAggregator
    BY <1>1, <1>3, <1>9, <2>1
  <2>3. QED
    BY <2>2, NothingCounted DEF CInv
<1>10. QED
  BY <1>7, <1>8, <1>9

(* A view whose count is behind told nobody, and so none of its listeners  *)
(* can be on its way out.                                                  *)
LEMMA RemoveKeepsCInv ==
  ASSUME IInv, IInv', LInv, BInv, CInv, RemoveQueryListener
  PROVE  CInv'
<1> DEFINE r == Head(ops).read
           e == reads[r].doc
<1>1. /\ ops # <<>> /\ Head(ops).op = "remove" /\ UNCHANGED <<down, watched, refusals>>
      /\ ops \in Seq(Operation)
  BY DEF RemoveQueryListener, backend, IInv
<1>2. /\ r \in DOMAIN reads /\ e \in Docs
      /\ \A d \in Docs : d # e => views'[d] = views[d]
      /\ HasView(e) /\ views[e].listeners = {r} => views'[e] = NoView /\ StopListening(e)
      /\ ~(HasView(e) /\ views[e].listeners = {r}) =>
           /\ UNCHANGED <<net, agg, up>>
           /\ views'[e] # NoView => HasView(e)
           /\ HasView(e) => /\ views'[e].raised = views[e].raised \ {r}
                            /\ views'[e].current = views[e].current
  BY RemoveLeaves
<1>3. r \in muted
  <2>1. 1 \in DOMAIN ops /\ Head(ops) = ops[1]
    BY <1>1, TailIndices
  <2>2. QED
    BY <1>1, <2>1 DEF LInv, RemovedAreMuted
<1>4. refusals <= 1 => OneRefusal(down)
  BY DEF CInv
<1> HIDE DEF e, r
<1>5. CASE ~(HasView(e) /\ views[e].listeners = {r})
  <2>1. UNCHANGED <<net, agg, up>>
    BY <1>2, <1>5
  <2>2. ASSUME NEW d \in Docs, Under(d), HasView(d)'
        PROVE  ~views'[d].current /\ views'[d].raised = {}
    <3>1. HasView(d) => ~views[d].current /\ views[d].raised = {}
      BY <2>2 DEF Under
    <3>2. CASE d = e
      BY <1>2, <1>5, <2>2, <3>1, <3>2 DEF HasView
    <3>3. CASE d # e
      <4>1. views'[d] = views[d]
        BY <1>2, <3>3
      <4>2. HasView(d)
        BY <2>2, <4>1 DEF HasView
      <4>3. QED
        BY <3>1, <4>1, <4>2
    <3>4. QED
      BY <3>2, <3>3
  <2>3. QED
    BY <1>1, <2>1, <2>2, QuietKeepsCInv
<1>6. CASE HasView(e) /\ views[e].listeners = {r}
  <2>1. /\ e \in net.targets /\ net'.targets = net.targets \ {e}
        /\ IsOpen(net) => net'.online = net.online /\ Send([op |-> "unwatch", doc |-> e])
        /\ ~IsOpen(net) => UNCHANGED <<agg, up>>
    BY <1>2, <1>6, StopSends
  <2>2. CASE IsOpen(net)
    <3>1. ~Under(e)
      <4>1. SUFFICES ASSUME Under(e) PROVE FALSE
        OBVIOUS
      <4>2. r \in views[e].listeners /\ r \notin views[e].raised
        BY <1>6, <4>1 DEF Under
      <4>3. QED
        BY <1>2, <1>3, <4>2 DEF LInv, RaisedAreTold
    <3>2. refusals <= 1 => \A d \in Docs : Counted(d)'
      BY <1>1, <1>2, <2>1, <2>2, <3>1, SendCounts
    <3>3. QED
      BY <1>1, <1>4, <3>2 DEF CInv
  <2>3. CASE ~IsOpen(net)
    <3>1. up = <<>> /\ down = <<>> /\ watched = {} /\ agg = NewAggregator
      BY <2>3, TargetsHaveViews DEF StreamOk, BInv
    <3>2. up' = <<>> /\ down' = <<>> /\ watched' = {} /\ agg' = NewAggregator
      BY <1>1, <2>1, <2>3, <3>1
    <3>3. QED
      BY <3>2, NothingCounted DEF CInv
  <2>4. QED
    BY <2>2, <2>3
<1>7. QED
  BY <1>5, <1>6

(* Each target is asked for once. *)
LEMMA OpenKeepsCInv ==
  ASSUME IInv, IInv', BInv, CInv, StreamOpens
  PROVE  CInv'
<1>1. /\ ~IsOpen(net) /\ net'.targets = net.targets /\ IsFiniteSet(net.targets)
      /\ net.targets \subseteq Docs
  BY TargetsHaveViews DEF StreamOpens, IsOpen, NetType, NetOk
<1>2. /\ down' = <<>> /\ watched' = {} /\ refusals' = refusals /\ agg = NewAggregator
      /\ agg' = [agg EXCEPT !.outstanding = [d \in Docs |-> IF d \in net.targets THEN 1 ELSE @[d]]]
  BY <1>1, TargetsHaveViews DEF StreamOpens, StreamOk, BInv, backend
<1>3. PICK order \in SetToSeqs(net.targets) :
        up' = [i \in DOMAIN order |-> [op |-> "watch", doc |-> order[i]]]
  BY DEF StreamOpens
<1> DEFINE k == Cardinality(net.targets)
<1>4. /\ k \in Nat /\ DOMAIN order = 1..k /\ order \in [1..k -> net.targets]
      /\ \A i, j \in DOMAIN order : i # j => order[i] # order[j]
      /\ \A d \in net.targets : \E i \in DOMAIN order : order[i] = d
  BY <1>1, OrderOf, OrderIsAll
<1> HIDE DEF k
<1>5. /\ DOMAIN up' = 1..k /\ up' \in Seq(Request) /\ Len(up') = k
      /\ \A i \in DOMAIN up' : up'[i] = [op |-> "watch", doc |-> order[i]] /\ up'[i] \in Request
  <2>1. DOMAIN up' = 1..k /\ up' \in Seq(Request)
    BY <1>3, <1>4 DEF IInv, StreamOk
  <2>2. Len(up') = k
    BY <1>4, <2>1
  <2>3. \A i \in DOMAIN up' : up'[i] = [op |-> "watch", doc |-> order[i]]
    BY <1>3, <1>4, <2>1
  <2>4. \A i \in DOMAIN up' : up'[i] \in Request
    BY <1>1, <1>4, <2>1, <2>3 DEF Request
  <2>5. QED
    BY <2>1, <2>2, <2>3, <2>4
<1>6. \A d \in Docs : agg'.outstanding[d] = IF d \in net.targets THEN 1 ELSE 0
  BY <1>2 DEF NewAggregator
<1>7. ASSUME NEW d \in Docs
      PROVE  Counted(d)'
  <2>1. Rest(<<>>, 0, Replies(d)) = 0
    BY BetweenNothing
  <2>2. Rest(up', 0, Requests(d)) = IF d \in net.targets THEN 1 ELSE 0
    <3>1. CASE d \in net.targets
      <4>1. PICK i \in DOMAIN order : order[i] = d
        BY <1>4, <3>1
      <4>2. Found(up', 0, Len(up') + 1, Requests(d)) = {i}
        <5>1. ASSUME NEW j \in DOMAIN up'
              PROVE  up'[j] \in Requests(d) <=> j = i
          <6>1. up'[j] \in Requests(d) <=> order[j] = d
            BY <1>5, <5>1 DEF Requests
          <6>2. QED
            BY <1>4, <1>5, <4>1, <6>1
        <5>2. i \in DOMAIN up' /\ \A j \in DOMAIN up' : 0 < j /\ j < Len(up') + 1
          BY <1>4, <1>5
        <5>3. QED
          BY <5>1, <5>2 DEF Found
      <4>3. QED
        BY <3>1, <4>2, FS_Singleton DEF Rest, Between
    <3>2. CASE d \notin net.targets
      <4>1. \A i \in DOMAIN up' : up'[i] \notin Requests(d)
        BY <1>4, <1>5, <3>2 DEF Requests
      <4>2. QED
        BY <1>5, <3>2, <4>1, RestOfNone
    <3>3. QED
      BY <3>1, <3>2
  <2>3. Exact(d)'
    BY <1>2, <1>6, <2>1, <2>2 DEF Exact, Left
  <2>4. Alternates(up', watched', net'.targets, d)
    <3>1. \A i : Watching(up', watched', i, d) => i \in DOMAIN order /\ order[i] = d
      BY <1>2, <1>4, <1>5 DEF Watching
    <3>2. ASSUME NEW i, NEW j, Watching(up', watched', i, d), Watching(up', watched', j, d), i < j
          PROVE  FALSE
      <4>1. i \in 1..k /\ i = j
        BY <1>4, <3>1, <3>2
      <4>2. QED
        BY <1>4, <3>2, <4>1
    <3>3. d \in net.targets \/ \A i : ~Watching(up', watched', i, d)
      BY <1>4, <3>1
    <3>4. QED
      BY <1>1, <3>2, <3>3 DEF Alternates
  <2>5. DOMAIN down' = {}
    BY <1>2
  <2>6. QED
    BY <2>3, <2>4, <2>5 DEF Counted
<1>8. OneRefusal(down')
  BY <1>2 DEF OneRefusal
<1>9. QED
  BY <1>7, <1>8 DEF CInv

(* What is added to the queue is no refusal. *)
LEMMA RefusalsStay ==
  ASSUME NEW queue \in Seq(Response), NEW m \in Response, m.change # "refused"
  PROVE  /\ \A p \in DOMAIN Append(queue, m) : Append(queue, m)[p].change = "refused" =>
              p \in DOMAIN queue /\ queue[p] = Append(queue, m)[p]
         /\ OneRefusal(queue) => OneRefusal(Append(queue, m))
<1> DEFINE n == Len(queue)
           more == Append(queue, m)
<1>1. /\ n \in Nat /\ DOMAIN queue = 1..n /\ DOMAIN more = 1..(n + 1)
      /\ more[n + 1] = m /\ \A i \in DOMAIN queue : more[i] = queue[i]
  BY TailAndAppend
<1> HIDE DEF more, n
<1>2. \A p \in DOMAIN more : more[p].change = "refused" => p \in DOMAIN queue /\ queue[p] = more[p]
  BY <1>1
<1>3. OneRefusal(queue) => OneRefusal(more)
  BY <1>2 DEF OneRefusal
<1>4. QED
  BY <1>2, <1>3 DEF more

LEMMA BackendKeepsCInv ==
  ASSUME IInv, IInv', CInv, UNCHANGED <<net, agg, views, refusals>>,
         OneRefusal(down) => OneRefusal(down'),
         \A p \in DOMAIN down' : down'[p].change = "refused" =>
           p \in DOMAIN down /\ down[p] = down'[p],
         \A d \in Docs, p \in Nat : p <= Len(down) =>
           /\ Left(up', down', p, d) = Left(up, down, p, d)
           /\ \A n \in Int : Behind(down, up, watched, p, n, d) /\ n <= 2 =>
                Behind(down', up', watched', p, n, d),
         \A d \in Docs : Alternates(up, watched, net.targets, d) =>
           Alternates(up', watched', net.targets, d)
  PROVE  CInv'
<1> SUFFICES ASSUME refusals <= 1 PROVE OneRefusal(down') /\ \A d \in Docs : Counted(d)'
  BY DEF CInv
<1>1. OneRefusal(down')
  BY DEF CInv
<1>2. DOMAIN down = 1..Len(down) /\ Len(down) \in Nat /\ 0 \in Nat /\ 2 \in Int /\ 2 <= 2
  BY DEF IInv, StreamOk
<1>3. ASSUME NEW d \in Docs
      PROVE  Counted(d)'
  <2>1. /\ Left(up', down', 0, d) = Left(up, down, 0, d)
        /\ \A n \in Int : n <= 2 /\ Behind(down, up, watched, 0, n, d) =>
             Behind(down', up', watched', 0, n, d)
    <3>1. 0 <= Len(down)
      BY <1>2
    <3>2. QED
      BY <1>2, <3>1
  <2>2. ASSUME NEW p \in DOMAIN down', down'[p].change = "refused"
        PROVE  \E q \in DOMAIN down :
                 /\ down[q] = down'[p] /\ Left(up', down', p, d) = Left(up, down, q, d)
                 /\ Behind(down, up, watched, q, 2, d) => Behind(down', up', watched', p, 2, d)
    <3>1. p \in DOMAIN down /\ down[p] = down'[p]
      BY <2>2
    <3>2. p \in Nat /\ p <= Len(down)
      BY <1>2, <3>1
    <3>3. /\ Left(up', down', p, d) = Left(up, down, p, d)
          /\ Behind(down, up, watched, p, 2, d) => Behind(down', up', watched', p, 2, d)
      BY <1>2, <3>2
    <3>4. QED
      BY <3>1, <3>3
  <2>3. Under(d) => /\ d \notin agg'.current /\ net'.online = "Online"
                    /\ HasView(d)' => ~views'[d].current /\ views'[d].raised = {}
    BY DEF Under, HasView
  <2>4. QED
    BY <2>1, <2>2, <2>3, StillCounted
<1>4. QED
  BY <1>1, <1>3

LEMMA AddsKeepCInv ==
  ASSUME IInv, IInv', CInv, BackendAdds
  PROVE  CInv'
<1> DEFINE e == Head(up).doc
           m1 == [change |-> "added", doc |-> e]
           m2 == [change |-> "current", doc |-> e, version |-> held[e]]
           m3 == [change |-> "snapshot"]
           q1 == Append(down, m1)
           q2 == Append(q1, m2)
           q3 == Append(q2, m3)
<1>1. /\ up # <<>> /\ up' = Tail(up) /\ down' = down \o <<m1, m2, m3>>
      /\ Head(up).op = "watch" /\ watched' = watched \cup {e}
      /\ up \in Seq(Request) /\ down \in Seq(Response) /\ e \in Docs /\ held[e] \in Versions
      /\ UNCHANGED <<net, agg, views, refusals>>
  BY PoppedRequest DEF BackendAdds, IInv, StreamOk
<1>2. /\ m1 \in Response /\ m2 \in Response /\ m3 \in Response
      /\ m1.change # "refused" /\ m2.change # "refused" /\ m3.change # "refused"
  BY <1>1 DEF Response
<1>3. Head(up).doc = e
  OBVIOUS
<1> HIDE DEF e, m1, m2, m3
<1>4. down' = q3 /\ q1 \in Seq(Response) /\ q2 \in Seq(Response)
  BY <1>1, <1>2, OneByOne
<1>5. OneRefusal(down) => OneRefusal(down')
  BY <1>1, <1>2, <1>4, RefusalsStay
<1>6. \A p \in DOMAIN down' : down'[p].change = "refused" =>
        p \in DOMAIN down /\ down[p] = down'[p]
  <2> HIDE DEF q2
  <2>1. \A p \in DOMAIN q3 : q3[p].change = "refused" => p \in DOMAIN q2 /\ q2[p] = q3[p]
    BY <1>2, <1>4, RefusalsStay
  <2> HIDE DEF q1, q3
  <2>2. \A p \in DOMAIN q2 : q2[p].change = "refused" => p \in DOMAIN q1 /\ q1[p] = q2[p]
    BY <1>2, <1>4, RefusalsStay DEF q2
  <2>3. \A p \in DOMAIN q1 : q1[p].change = "refused" => p \in DOMAIN down /\ down[p] = q1[p]
    BY <1>1, <1>2, RefusalsStay DEF q1
  <2>4. QED
    BY <1>4, <2>1, <2>2, <2>3
<1>7. \A d \in Docs : Alternates(up, watched, net.targets, d) =>
        Alternates(up', watched', net.targets, d)
  BY <1>1, <1>3, AlternatesLess
<1>8. QED
  BY <1>1, <1>5, <1>6, <1>7, AddsBehind, BackendKeepsCInv

LEMMA RemovesKeepCInv ==
  ASSUME IInv, IInv', CInv, BackendRemoves
  PROVE  CInv'
<1> DEFINE e == Head(up).doc
           m == [change |-> "removed", doc |-> e]
<1>1. /\ up # <<>> /\ up' = Tail(up) /\ down' = Append(down, m)
      /\ Head(up).op = "unwatch" /\ watched' = watched \ {e}
      /\ up \in Seq(Request) /\ down \in Seq(Response) /\ e \in Docs
      /\ UNCHANGED <<net, agg, views, refusals>>
  BY PoppedRequest DEF BackendRemoves, IInv, StreamOk, app
<1>2. m \in Response /\ m.change # "refused"
  BY <1>1 DEF Response
<1>3. Head(up).doc = e
  OBVIOUS
<1> HIDE DEF e, m
<1>4. OneRefusal(down) => OneRefusal(down')
  BY <1>1, <1>2, RefusalsStay
<1>5. \A p \in DOMAIN down' : down'[p].change = "refused" =>
        p \in DOMAIN down /\ down[p] = down'[p]
  BY <1>1, <1>2, RefusalsStay
<1>6. \A d \in Docs : Alternates(up, watched, net.targets, d) =>
        Alternates(up', watched', net.targets, d)
  BY <1>1, <1>3, AlternatesLess
<1>7. QED
  BY <1>1, <1>4, <1>5, <1>6, RemovesBehind, BackendKeepsCInv

LEMMA ChangeKeepsCInv ==
  ASSUME IInv, IInv', CInv, NEW e \in Docs, DocumentChanges(e)
  PROVE  CInv'
<1> DEFINE m1 == [change |-> "document", doc |-> e, version |-> held[e] + 1]
           m2 == [change |-> "snapshot"]
           q1 == Append(down, m1)
<1>1. /\ UNCHANGED <<up, watched, net, agg, views, refusals>>
      /\ down \in Seq(Response) /\ held[e] + 1 \in Versions
      /\ down' = IF e \notin watched THEN down ELSE down \o <<m1, m2>>
  BY VersionsAreNat, ReadBounds DEF DocumentChanges, IInv, StreamOk, Versions
<1>2. m1 \in Response /\ m2 \in Response /\ m1.change # "refused" /\ m2.change # "refused"
  BY <1>1 DEF Response
<1> HIDE DEF m1, m2
<1>3. /\ OneRefusal(down) => OneRefusal(down')
      /\ \A p \in DOMAIN down' : down'[p].change = "refused" =>
           p \in DOMAIN down /\ down[p] = down'[p]
  <2>1. CASE e \notin watched
    BY <1>1, <2>1
  <2>2. CASE e \in watched
    <3>1. down' = Append(q1, m2) /\ q1 \in Seq(Response)
      BY <1>1, <1>2, <2>2, OneByOne
    <3>2. /\ OneRefusal(down) => OneRefusal(q1)
          /\ \A p \in DOMAIN q1 : q1[p].change = "refused" => p \in DOMAIN down /\ down[p] = q1[p]
      BY <1>1, <1>2, RefusalsStay
    <3> HIDE DEF q1
    <3>3. /\ OneRefusal(q1) => OneRefusal(down')
          /\ \A p \in DOMAIN down' : down'[p].change = "refused" =>
               p \in DOMAIN q1 /\ q1[p] = down'[p]
      BY <1>2, <3>1, RefusalsStay
    <3>4. QED
      BY <3>2, <3>3
  <2>3. QED
    BY <2>1, <2>2
<1>4. QED
  BY <1>1, <1>3, ChangesBehind, BackendKeepsCInv

(* The first refusal: it will be one too many, or end the listen it is     *)
(* meant for.                                                              *)
LEMMA RefusesKeepsCInv ==
  ASSUME IInv, IInv', WInv, CInv, BackendRefuses
  PROVE  CInv'
<1> DEFINE e == Head(up).doc
           m == [change |-> "refused", doc |-> e]
           n == Len(down)
<1>1. /\ up # <<>> /\ up' = Tail(up) /\ down' = Append(down, m) /\ refusals' = refusals + 1
      /\ Head(up).op = "watch" /\ refusals \in Nat /\ IsOpen(net)
      /\ up \in Seq(Request) /\ down \in Seq(Response) /\ e \in Docs
      /\ UNCHANGED <<net, agg, views, watched>>
  BY PoppedRequest DEF BackendRefuses, IInv, StreamOk, app, backend
<1>2. m \in Response /\ m.change = "refused" /\ m.doc = e
  BY <1>1 DEF Response
<1>3. Head(up).doc = e
  OBVIOUS
<1> HIDE DEF e, m
<1> SUFFICES ASSUME refusals' <= 1 PROVE OneRefusal(down') /\ \A d \in Docs : Counted(d)'
  BY DEF CInv
<1>4. refusals = 0 /\ refusals' # 0 /\ refusals <= 1
  BY <1>1
<1>5. Unrefused(down)
  BY <1>1, <1>4 DEF WInv
<1>6. /\ n \in Nat /\ DOMAIN down = 1..n /\ DOMAIN down' = 1..(n + 1)
      /\ down'[n + 1] = m /\ \A i \in DOMAIN down : down'[i] = down[i]
  BY <1>1, <1>2, TailAndAppend
<1> HIDE DEF n
<1>7. \A p \in DOMAIN down' : down'[p].change = "refused" => p = n + 1
  BY <1>5, <1>6 DEF Unrefused
<1>8. ASSUME NEW d \in Docs
      PROVE  Counted(d)'
  <2>1. Exact(d) /\ Alternates(up, watched, net.targets, d)
    BY <1>4, <1>8 DEF CInv, Counted
  <2>2. /\ Rest(up, 0, Requests(d)) \in Nat /\ Rest(down, 0, Replies(d)) \in Nat
        /\ Rest(up', 0, Requests(d)) = Rest(up, 0, Requests(d)) - (IF e = d THEN 1 ELSE 0)
    BY <1>1, <1>3, <1>8, RequestLess, RestOfNone
  <2>3. Rest(down', 0, Replies(d)) = Rest(down, 0, Replies(d)) + (IF e = d THEN 1 ELSE 0)
    <3>1. m \in Replies(d) <=> e = d
      BY <1>2, <1>8, Kinds
    <3>2. 0 \in Nat /\ 0 <= Len(down)
      BY <1>1
    <3>3. QED
      BY <1>1, <1>2, <1>8, <2>2, <3>1, <3>2, RestMore
  <2>4. Left(up', down', 0, d) = Left(up, down, 0, d)
    BY <2>2, <2>3 DEF Left
  <2>5. Exact(d)'
    BY <1>1, <2>1, <2>4 DEF Exact
  <2>6. ASSUME NEW p \in DOMAIN down', down'[p].change = "refused", down'[p].doc = d
        PROVE  RefusedOk(p, d)'
    <3>1. p = n + 1 /\ e = d
      BY <1>2, <1>6, <1>7, <2>6
    <3>2. /\ d \notin watched /\ ~BeginsWithWatch(up', d)
          /\ d \notin net.targets => Rest(up', 0, Requests(d)) # 0
      BY <1>1, <1>3, <2>1, <3>1, AlternatesHead
    <3>3. Late(down', p, 2, d)
      BY <1>6, <3>1 DEF Late
    <3>4. Behind(down', up', watched', p, 2, d)
      BY <1>1, <3>2, <3>3 DEF Behind
    <3>5. Left(up', down', p, d) = 0 => Rest(up', 0, Requests(d)) = 0
      <4>1. up' \in Seq(Request) /\ down' \in Seq(Response)
        BY DEF IInv, StreamOk
      <4>2. QED
        BY <4>1, LeftIsNat
    <3>6. QED
      BY <1>1, <2>5, <3>2, <3>4, <3>5 DEF RefusedOk
  <2>7. QED
    BY <1>4, <2>5, <2>6 DEF Counted
<1>9. QED
  BY <1>7, <1>8 DEF OneRefusal

(* The responses move up by one, and the head may have been counted. *)
LEMMA ReadingCounts ==
  ASSUME IInv, OnWatchStreamChange, NEW d \in Docs
  PROVE  LET one == IF Head(down) \in Replies(d) THEN 1 ELSE 0 IN
         /\ \A p \in Nat :
              /\ Left(up', down', p, d) = Left(up, down, p + 1, d)
              /\ \A n \in Int : Behind(down, up, watched, p + 1, n, d) =>
                   Behind(down', up', watched', p, n, d)
         /\ Left(up', down', 0, d) = Left(up, down, 0, d) - one
         /\ \A n \in Int : Behind(down, up, watched, 0, n, d) =>
              /\ Behind(down', up', watched', 0, n - one, d)
              /\ Head(down) \in Contents(d) => 0 >= n
<1>1. /\ down # <<>> /\ down \in Seq(Response) /\ down' = Tail(down) /\ UNCHANGED <<up, watched>>
  BY ChangeIs
<1>2. up \in Seq(Request)
  BY DEF IInv, StreamOk
<1>3. ASSUME NEW p \in Nat
      PROVE  /\ Left(up', down', p, d) = Left(up, down, p + 1, d)
             /\ \A n \in Int : Behind(down, up, watched, p + 1, n, d) =>
                  Behind(down', up', watched', p, n, d)
  <2>1. Rest(down', p, Replies(d)) = Rest(down, p + 1, Replies(d))
    BY <1>1, <1>3, BetweenLess
  <2>2. \A n \in Int : Late(down, p + 1, n, d) => Late(down', p, n, d)
    BY <1>1, <1>3, LateLess
  <2>3. QED
    BY <1>1, <2>1, <2>2 DEF Left, Behind
<1> DEFINE one == IF Head(down) \in Replies(d) THEN 1 ELSE 0
<1>4. /\ Rest(down', 0, Replies(d)) = Rest(down, 0, Replies(d)) - one
      /\ Rest(down, 0, Replies(d)) \in Nat /\ Rest(up, 0, Requests(d)) \in Nat /\ one \in {0, 1}
      /\ Rest(down', 0, Replies(d)) \in Nat
  <2>1. Rest(down, 0, Replies(d)) = Rest(down', 0, Replies(d)) + one
    BY <1>1, BetweenHead
  <2>2. Rest(down, 0, Replies(d)) \in Nat /\ Rest(up, 0, Requests(d)) \in Nat
    BY <1>1, <1>2, RestOfNone
  <2>3. down' \in Seq(Response)
    BY <1>1, TailAndAppend
  <2>4. Rest(down', 0, Replies(d)) \in Nat
    BY <2>3, RestOfNone
  <2>5. one \in {0, 1}
    OBVIOUS
  <2> HIDE DEF one
  <2>6. QED
    BY <2>1, <2>2, <2>4, <2>5
<1>5. ASSUME NEW n \in Int, Behind(down, up, watched, 0, n, d)
      PROVE  /\ Behind(down', up', watched', 0, n - one, d)
             /\ Head(down) \in Contents(d) => 0 >= n
  <2>1. Late(down, 0, n, d)
    BY <1>5 DEF Behind
  <2>2. Late(down', 0, n - one, d) /\ (Head(down) \in Contents(d) => 0 >= n)
    BY <1>1, <1>5, <2>1, LateHead
  <2> HIDE DEF one
  <2>3. /\ d \in watched => Rest(down, 0, Replies(d)) >= n
        /\ BeginsWithWatch(up, d) => Rest(down, 0, Replies(d)) >= n - 1
    BY <1>5 DEF Behind
  <2>4. Rest(down, 0, Replies(d)) >= n => Rest(down', 0, Replies(d)) >= n - one
    BY <1>4, <1>5
  <2>5. Rest(down, 0, Replies(d)) >= n - 1 => Rest(down', 0, Replies(d)) >= n - one - 1
    BY <1>4, <1>5
  <2>6. QED
    BY <1>1, <2>2, <2>3, <2>4, <2>5 DEF Behind
<1>6. Left(up', down', 0, d) = Left(up, down, 0, d) - one
  <2> HIDE DEF one
  <2>1. QED
    BY <1>1, <1>4 DEF Left
<1>7. QED
  BY <1>3, <1>5, <1>6

(* A snapshot makes current only what is current to the aggregator. *)
LEMMA SnapshotMakesCurrent ==
  ASSUME IInv, RaiseWatchSnapshot
  PROVE  /\ agg'.outstanding = agg.outstanding /\ agg'.current = agg.current
         /\ \A d \in Docs :
              /\ HasView(d)' <=> HasView(d)
              /\ HasView(d) => \/ views'[d].current = views[d].current
                               \/ views'[d].current = (d \in agg.current) /\ IsActiveTarget(d)
              /\ HasView(d) /\ d \notin agg.current /\ ~views[d].current /\ views[d].raised = {}
                   => ~views'[d].current /\ views'[d].raised = {}
<1> DEFINE touched == {d \in {t \in Docs : IsActiveTarget(t)} :
                    \/ d \in agg.dirty
                    \/ (d \in agg.current /\ agg.docs[d] = 0 /\ views[d].version = 0)}
           newer(d)   == IF agg.docs[d] > cached[d] THEN agg.docs[d] ELSE cached[d]
           current(d) == IF d \in touched THEN d \in agg.current ELSE views[d].current
           told(d) == IF ~HasView(d) THEN {}
                      ELSE IF newer(d) = views[d].version /\ current(d) = views[d].current THEN {}
                      ELSE IF current(d) THEN views[d].listeners ELSE views[d].raised
<1>1. /\ views' = [d \in Docs |->
           IF ~HasView(d) THEN NoView
           ELSE [views[d] EXCEPT !.version = newer(d), !.current = current(d),
                                 !.raised = @ \cup told(d)]]
      /\ agg' = [agg EXCEPT !.dirty = {d \in @ : ~IsActiveTarget(d)},
                            !.docs = [d \in Docs |-> 0]]
  BY DEF RaiseWatchSnapshot
<1>2. agg'.outstanding = agg.outstanding /\ agg'.current = agg.current
  BY <1>1 DEF IInv, AggType
<1> SUFFICES ASSUME NEW d \in Docs
             PROVE  /\ HasView(d)' <=> HasView(d)
                    /\ HasView(d) =>
                         \/ views'[d].current = views[d].current
                         \/ views'[d].current = (d \in agg.current) /\ IsActiveTarget(d)
                    /\ HasView(d) /\ d \notin agg.current /\ ~views[d].current /\ views[d].raised = {}
                         => ~views'[d].current /\ views'[d].raised = {}
  BY <1>2
<1>3. HasView(d)' <=> HasView(d)
  BY SnapshotTells DEF ViewsKept, HasView
<1>4. ASSUME HasView(d)
      PROVE  views'[d].current = current(d) /\ views'[d].raised = views[d].raised \cup told(d)
  <2>1. views[d] \in View
    BY <1>4 DEF IInv, ViewsOk, HasView
  <2>2. views'[d] = [views[d] EXCEPT !.version = newer(d), !.current = current(d),
                                     !.raised = @ \cup told(d)]
    BY <1>1, <1>4
  <2> HIDE DEF current, newer, told
  <2>3. QED
    BY <2>1, <2>2 DEF View
<1>5. d \in touched => IsActiveTarget(d)
  OBVIOUS
<1> HIDE DEF touched, newer
<1>6. \/ current(d) = views[d].current
      \/ current(d) = (d \in agg.current) /\ IsActiveTarget(d)
  BY <1>5
<1>7. ASSUME HasView(d), d \notin agg.current, ~views[d].current, views[d].raised = {}
      PROVE  ~current(d) /\ told(d) = {}
  BY <1>7
<1> HIDE DEF current, told
<1>8. QED
  BY <1>3, <1>4, <1>6, <1>7

(* What reading makes of the aggregator where d is concerned. *)
LEMMA ReadingLeaves ==
  ASSUME IInv, OnWatchStreamChange, NEW d \in Docs, Head(down) \notin Replies(d)
  PROVE  /\ agg'.outstanding[d] = agg.outstanding[d]
         /\ d \in net'.targets <=> d \in net.targets
         /\ d \in agg'.current => \/ d \in agg.current
                                  \/ Head(down) \in Contents(d) /\ IsActiveTarget(d)
         /\ d \notin agg.current /\ (HasView(d) => ~views[d].current /\ views[d].raised = {})
              => (HasView(d)' => ~views'[d].current /\ views'[d].raised = {})
<1> DEFINE m == Head(down)
<1>1. /\ m \in Response /\ agg \in AggType
      /\ m.change = "snapshot" => RaiseWatchSnapshot /\ net'.targets = net.targets
      /\ m.change = "refused" =>
           /\ m.doc \in Docs
           /\ m.doc \notin net.targets => net'.targets = net.targets /\ UNCHANGED <<views, agg>>
           /\ m.doc \in net.targets =>
                /\ net'.targets = net.targets \ {m.doc}
                /\ agg' = RemoveTarget(agg, m.doc)
                /\ views' = [views EXCEPT ![m.doc] = NoView]
      /\ m.change \notin {"snapshot", "refused"} =>
           HandleTargetChange(m) /\ net'.targets = net.targets /\ UNCHANGED views
  BY ChangeIs
<1> HIDE DEF m
<1>2. /\ m \notin Replies(d)
      /\ m \in Replies(d) <=> m.change \in {"added", "removed", "refused"} /\ m.doc = d
      /\ m \in Contents(d) <=> m.change \in {"current", "document"} /\ m.doc = d
  BY <1>1, Kinds DEF m
<1>3. CASE m.change = "snapshot"
  BY <1>1, <1>3, SnapshotMakesCurrent
<1>4. CASE m.change = "refused"
  <2>1. m.doc # d
    BY <1>2, <1>4
  <2>2. CASE m.doc \notin net.targets
    BY <1>1, <1>4, <2>2 DEF HasView
  <2>3. CASE m.doc \in net.targets
    <3>1. agg'.outstanding = [agg.outstanding EXCEPT ![m.doc] = 0]
          /\ agg'.current = agg.current \ {m.doc}
      <4>1. agg' = RemoveTarget(agg, m.doc) /\ m.doc \in Docs /\ agg \in AggType
        BY <1>1, <1>4, <2>3
      <4>2. QED
        BY <4>1, TargetRemoved
    <3>2. agg'.outstanding[d] = agg.outstanding[d]
      BY <1>1, <2>1, <3>1 DEF AggType
    <3>3. views'[d] = views[d]
      BY <1>1, <1>4, <2>1, <2>3 DEF IInv, ViewsOk
    <3>4. QED
      BY <1>1, <1>4, <2>1, <2>3, <3>1, <3>2, <3>3 DEF HasView
  <2>4. QED
    BY <2>2, <2>3
<1>5. CASE m.change \notin {"snapshot", "refused"}
  <2> DEFINE left == [agg.outstanding EXCEPT ![m.doc] = @ - 1]
  <2>1. /\ HandleTargetChange(m) /\ net'.targets = net.targets /\ views' = views
    BY <1>1, <1>5
  <2>2. /\ m.doc \in Docs
        /\ \/ /\ m.change \in {"added", "removed"}
              /\ agg'.outstanding = left /\ agg'.current \subseteq agg.current
           \/ /\ m.change \in {"current", "document"}
              /\ agg'.outstanding = agg.outstanding
              /\ \/ agg'.current = agg.current
                 \/ IsActiveTarget(m.doc) /\ agg'.current \subseteq agg.current \cup {m.doc}
    BY <1>1, <1>5, <2>1, TargetChanges
  <2>3. CASE m.change \in {"added", "removed"}
    <3>1. m.doc # d
      BY <1>2, <2>3
    <3>2. agg'.outstanding[d] = agg.outstanding[d]
      BY <1>1, <2>2, <2>3, <3>1 DEF AggType
    <3>3. QED
      BY <2>1, <2>2, <2>3, <3>2 DEF HasView
  <2>4. CASE m.change \in {"current", "document"}
    BY <1>2, <2>1, <2>2, <2>4 DEF HasView, m
  <2>5. QED
    BY <2>2, <2>3, <2>4
<1>6. QED
  BY <1>3, <1>4, <1>5

LEMMA ReadingKeepsCounted ==
  ASSUME IInv, IInv', WInv, CInv, OnWatchStreamChange, NEW d \in Docs, refusals <= 1
  PROVE  Counted(d)'
<1> DEFINE m == Head(down)
           one == IF m \in Replies(d) THEN 1 ELSE 0
<1>1. /\ down # <<>> /\ down \in Seq(Response) /\ m \in Response /\ down' = Tail(down)
      /\ IsOpen(net) /\ net'.online = "Online" /\ agg \in AggType
      /\ UNCHANGED <<up, watched, refusals>>
  BY ChangeIs
<1>2. /\ \A p \in Nat :
           /\ Left(up', down', p, d) = Left(up, down, p + 1, d)
           /\ \A n \in Int : Behind(down, up, watched, p + 1, n, d) =>
                Behind(down', up', watched', p, n, d)
      /\ Left(up', down', 0, d) = Left(up, down, 0, d) - one
      /\ \A n \in Int : Behind(down, up, watched, 0, n, d) =>
           /\ Behind(down', up', watched', 0, n - one, d)
           /\ m \in Contents(d) => 0 >= n
  BY ReadingCounts
<1>3. /\ 1 \in DOMAIN down /\ m = down[1]
      /\ \A p \in DOMAIN down' : p + 1 \in DOMAIN down /\ p + 1 # 1
                                 /\ down'[p] = down[p + 1] /\ p \in Nat
  BY <1>1, TailIndices
<1>4. /\ m \in Replies(d) <=> m.change \in {"added", "removed", "refused"} /\ m.doc = d
      /\ m \in Contents(d) <=> m.change \in {"current", "document"} /\ m.doc = d
  BY <1>1, Kinds
<1>5. Counted(d) /\ agg.outstanding[d] \in Int
  BY <1>1 DEF CInv, AggType
<1>6. Left(up, down, 0, d) \in Nat /\ Left(up', down', 0, d) \in Nat
  BY LeftIsNat DEF IInv, StreamOk
<1>7. CASE m \notin Replies(d)
  <2>1. one = 0
    BY <1>7
  <2>2. /\ agg'.outstanding[d] = agg.outstanding[d]
        /\ d \in net'.targets <=> d \in net.targets
        /\ d \in agg'.current => d \in agg.current \/ (m \in Contents(d) /\ IsActiveTarget(d))
        /\ d \notin agg.current /\ (HasView(d) => ~views[d].current /\ views[d].raised = {})
             => (HasView(d)' => ~views'[d].current /\ views'[d].raised = {})
    BY <1>7, ReadingLeaves
  <2> HIDE DEF m, one
  <2>3. Left(up', down', 0, d) = Left(up, down, 0, d)
    BY <1>2, <1>6, <2>1
  <2>4. \A n \in Int : n <= 2 /\ Behind(down, up, watched, 0, n, d) =>
          Behind(down', up', watched', 0, n, d)
    <3>1. \A n \in Int : n - one = n
      BY <2>1
    <3>2. QED
      BY <1>2, <3>1
  <2>5. \A p \in DOMAIN down' : down'[p].change = "refused" /\ down'[p].doc = d =>
          \E q \in DOMAIN down :
            /\ down[q] = down'[p] /\ Left(up', down', p, d) = Left(up, down, q, d)
            /\ Behind(down, up, watched, q, 2, d) => Behind(down', up', watched', p, 2, d)
    BY <1>2, <1>3
  <2>6. refusals = 0 /\ Alternates(up, watched, net.targets, d) =>
          Alternates(up', watched', net'.targets, d)
    BY <1>1, <2>2 DEF Alternates
  <2>7. ASSUME Under(d)
        PROVE  /\ d \notin agg'.current /\ net'.online = "Online"
               /\ HasView(d)' => ~views'[d].current /\ views'[d].raised = {}
    <3>1. /\ Gap(d) \in Int /\ Behind(down, up, watched, 0, Gap(d), d) /\ d \notin agg.current
          /\ HasView(d) => ~views[d].current /\ views[d].raised = {}
      BY <1>5, <2>7 DEF Under, Gap
    <3>2. ~(m \in Contents(d) /\ IsActiveTarget(d))
      <4>1. SUFFICES ASSUME m \in Contents(d), IsActiveTarget(d) PROVE FALSE
        OBVIOUS
      <4>2. 0 >= Gap(d)
        BY <1>2, <3>1, <4>1
      <4>3. QED
        BY <4>1, <4>2 DEF IsActiveTarget, Gap
    <3>3. QED
      BY <1>1, <2>2, <3>1, <3>2
  <2>8. QED
    BY <1>1, <2>2, <2>3, <2>4, <2>5, <2>6, <2>7, StillCounted
<1>8. CASE m \in Replies(d) /\ m.change # "refused"
  <2>1. m.change \in {"added", "removed"} /\ m.doc = d /\ one = 1
    BY <1>4, <1>8
  <2>2. HandleTargetChange(m) /\ net'.targets = net.targets /\ views' = views
    BY <2>1, ChangeIs
  <2> HIDE DEF m, one
  <2>3. agg'.outstanding = [agg.outstanding EXCEPT ![d] = @ - 1]
        /\ agg'.current \subseteq agg.current
    BY <1>1, <2>1, <2>2, TargetChanges
  <2>4. agg'.outstanding[d] = agg.outstanding[d] - 1
    BY <1>1, <2>3 DEF AggType
  <2>5. Left(up', down', 0, d) = Left(up, down, 0, d) - 1
    BY <1>2, <2>1
  <2>6. Exact(d) => Exact(d)'
    BY <1>5, <1>6, <2>4, <2>5 DEF Exact
  <2>7. Over(d) => Over(d)'
    BY <1>5, <1>6, <2>4, <2>5 DEF Over
  <2>8. ASSUME Under(d)
        PROVE  Under(d)'
    <3>1. Gap(d) \in Int /\ Gap(d)' = Gap(d) - 1
      BY <1>5, <2>2, <2>4 DEF Gap
    <3>2. /\ Gap(d) <= 2 /\ Behind(down, up, watched, 0, Gap(d), d) /\ d \notin agg.current
          /\ agg.outstanding[d] < Left(up, down, 0, d)
          /\ HasView(d) => ~views[d].current /\ views[d].raised = {}
      BY <2>8 DEF Under
    <3>3. Behind(down', up', watched', 0, Gap(d)', d)
      BY <1>2, <2>1, <3>1, <3>2
    <3>4. Gap(d)' <= 2
      BY <3>1, <3>2
    <3>5. agg'.outstanding[d] < Left(up', down', 0, d)
      BY <1>5, <1>6, <2>4, <2>5, <3>2
    <3>6. QED
      BY <1>1, <2>2, <2>3, <3>2, <3>3, <3>4, <3>5 DEF Under, HasView
  <2>9. ASSUME NEW p \in DOMAIN down', down'[p].change = "refused", down'[p].doc = d
        PROVE  RefusedOk(p, d)'
    <3>1. RefusedOk(p + 1, d) /\ p \in Nat
      BY <1>3, <1>5, <2>9 DEF Counted
    <3>2. /\ Left(up', down', p, d) = Left(up, down, p + 1, d)
          /\ Behind(down', up', watched', p, 2, d)
      BY <1>2, <3>1 DEF RefusedOk
    <3>3. QED
      BY <2>2, <2>6, <3>1, <3>2 DEF RefusedOk
  <2>10. QED
    BY <1>1, <1>5, <2>2, <2>6, <2>7, <2>8, <2>9 DEF Counted
<1>9. CASE m \in Replies(d) /\ m.change = "refused"
  <2>1. m.doc = d /\ one = 1
    BY <1>4, <1>9
  <2>2. refusals # 0
    <3>1. SUFFICES ASSUME refusals = 0 PROVE FALSE
      OBVIOUS
    <3>2. Unrefused(down)
      BY <1>1, <3>1 DEF WInv
    <3>3. QED
      BY <1>3, <1>9, <3>2 DEF Unrefused
  <2>3. RefusedOk(1, d)
    BY <1>3, <1>5, <1>9, <2>1 DEF Counted
  <2>4. Left(up', down', 0, d) = Left(up, down, 1, d)
        /\ Behind(down', up', watched', 0, 2, d)
    <3>1. 0 \in Nat /\ 0 + 1 = 1 /\ 2 \in Int
      OBVIOUS
    <3>2. QED
      BY <1>2, <2>3, <3>1 DEF RefusedOk
  <2>5. \A p \in DOMAIN down' : down'[p].change # "refused"
    BY <1>3, <1>9 DEF CInv, OneRefusal
  <2>6. Exact(d)' \/ Over(d)' \/ Under(d)'
    <3>1. CASE d \notin net.targets
      <4>1. agg' = agg
        BY <1>9, <2>1, <3>1, ChangeIs
      <4> HIDE DEF m, one
      <4>2. agg.outstanding[d] = Left(up, down, 0, d)
        BY <2>3 DEF RefusedOk, Exact
      <4>3. Left(up, down, 0, d) = Left(up', down', 0, d) + 1
        BY <1>2, <1>6, <2>1
      <4>4. QED
        BY <4>1, <4>2, <4>3 DEF Over
    <3>2. CASE d \in net.targets
      <4>1. /\ net'.targets = net.targets \ {d} /\ agg' = RemoveTarget(agg, d)
            /\ views' = [views EXCEPT ![d] = NoView]
        BY <1>9, <2>1, <3>2, ChangeIs
      <4>2. agg'.outstanding = [agg.outstanding EXCEPT ![d] = 0]
            /\ agg'.current = agg.current \ {d}
        BY <1>1, <4>1, TargetRemoved
      <4>3. agg'.outstanding[d] = 0 /\ d \notin agg'.current
        BY <1>1, <4>2 DEF AggType
      <4>4. ~HasView(d)'
        BY <4>1 DEF IInv, ViewsOk, HasView
      <4>5. Gap(d)' = 2
        BY <4>1, <4>3 DEF Gap
      <4>6. CASE Left(up', down', 0, d) = 0
        BY <4>3, <4>6 DEF Exact
      <4>7. CASE Left(up', down', 0, d) # 0
        <5>1. agg'.outstanding[d] < Left(up', down', 0, d) /\ 2 <= 2
          BY <1>6, <4>3, <4>7
        <5>2. QED
          BY <1>1, <2>4, <4>3, <4>4, <4>5, <5>1 DEF Under
      <4>8. QED
        BY <4>6, <4>7
    <3>3. QED
      BY <3>1, <3>2
  <2>7. QED
    BY <1>1, <2>2, <2>5, <2>6 DEF Counted
<1>10. QED
  BY <1>7, <1>8, <1>9

LEMMA NextKeepsCInv ==
  ASSUME IInv, IInv', LInv, WInv, BInv, CInv, [Next]_vars
  PROVE  CInv'
<1>1. CASE AddQueryListener
  BY <1>1, ListenKeepsCInv
<1>2. CASE RemoveQueryListener
  BY <1>2, RemoveKeepsCInv
<1>3. CASE Ends
  BY <1>3, EndsAre, NothingCounted DEF CInv
<1>4. CASE StreamOpens
  BY <1>4, OpenKeepsCInv
<1>5. CASE OnWatchStreamChange
  <2>1. down # <<>> /\ down \in Seq(Response) /\ down' = Tail(down) /\ refusals' = refusals
    BY <1>5, ChangeIs
  <2>2. OneRefusal(down) => OneRefusal(down')
    <3>1. \A p \in DOMAIN down' : p + 1 \in DOMAIN down /\ down'[p] = down[p + 1] /\ p \in Nat
      BY <2>1, TailIndices
    <3>2. QED
      BY <3>1 DEF OneRefusal
  <2>3. QED
    BY <1>5, <2>1, <2>2, ReadingKeepsCounted DEF CInv
<1>6. CASE BackendAdds
  BY <1>6, AddsKeepCInv
<1>7. CASE BackendRefuses
  BY <1>7, RefusesKeepsCInv
<1>8. CASE BackendRemoves
  BY <1>8, RemovesKeepCInv
<1>9. ASSUME NEW d \in Docs, DocumentChanges(d)
      PROVE  CInv'
  BY <1>9, ChangeKeepsCInv
<1>10. ASSUME \/ \E d \in Docs : GetDocument(d)
              \/ RunEvent \/ BackoffElapses \/ UNCHANGED vars
       PROVE  CInv'
  <2>1. UNCHANGED <<up, down, watched, agg, refusals, views>>
    BY <1>10 DEF GetDocument, RunEvent, BackoffElapses, vars, backend, app
  <2>2. net'.targets = net.targets /\ net'.online = net.online
    BY <1>10, TargetsHaveViews DEF GetDocument, RunEvent, BackoffElapses, vars, NetType
  <2>3. \A d \in Docs : Under(d) /\ HasView(d)' => ~views'[d].current /\ views'[d].raised = {}
    BY <2>1 DEF Under, HasView
  <2>4. QED
    BY <2>1, <2>2, <2>3, QuietKeepsCInv
<1>11. CASE OnlineStateTimeout
  <2>1. /\ UNCHANGED <<up, down, watched, agg, refusals>> /\ net.timer
        /\ net' = [HardAssert(net, net.online = "Unknown")
                     EXCEPT !.timer = FALSE, !.online = "Offline"]
    BY <1>11 DEF OnlineStateTimeout, Broadcast, backend
  <2>2. net'.targets = net.targets /\ net.online = "Unknown"
    BY <2>1, TargetsHaveViews DEF HardAssert, NetType, NetOk
  <2>3. \A d \in Docs : ~Under(d)
    BY <2>2 DEF Under
  <2>4. QED
    BY <2>1, <2>2, <2>3, QuietKeepsCInv
<1>12. QED
  BY <1>1, <1>2, <1>3, <1>4, <1>5, <1>6, <1>7, <1>8, <1>9, <1>10, <1>11 DEF Next, Ends

LEMMA CInvAlways == Spec => []CInv
<1>1. IInv /\ IInv' /\ LInv /\ WInv /\ BInv /\ CInv /\ [Next]_vars => CInv'
  BY NextKeepsCInv
<1>2. Spec => []IInv /\ []LInv /\ []WInv /\ []BInv
  BY IInvAlways, LInvAlways, WInvAlways, BInvAlways
<1>3. QED
  BY <1>1, <1>2, FirstCInv, PTL DEF Spec

--------------------------------------------------------------------------------
(* FreshAnswers: FInv *)

LEMMA FirstFInv == Init => FInv
<1> SUFFICES ASSUME Init PROVE FInv
  OBVIOUS
<1>1. /\ events = <<>> /\ \A r \in Reads : answers[r] = <<>>
      /\ net.targets = {} /\ \A d \in Docs : ~HasView(d)
  BY DEF Init, HasView
<1>2. DOMAIN events = {}
  BY <1>1
<1>3. QED
  BY <1>1, <1>2 DEF FInv, FreshGiven, FreshEvents, FreshViews, FreshTargets

LEMMA FloorsOfAnswered ==
  ASSUME IInv, AInv, LInv, [Next]_vars
  PROVE  \A r \in DOMAIN reads :
           reads'[r].floor = reads[r].floor \/ New(answers, muted, views, events, r)
<1>1. ASSUME NEW d \in Docs, GetDocument(d)
      PROVE  \A r \in DOMAIN reads : reads'[r].floor = reads[r].floor
  BY <1>1, GetDocumentKeeps
<1>2. CASE AddQueryListener
  BY <1>2, ListenSetsFloor
<1>3. ASSUME \/ RunEvent \/ RemoveQueryListener
             \/ StreamOpens \/ StreamDoesNotOpen \/ StreamBreaks
             \/ BackoffElapses \/ IdleTimeout \/ NetworkRestarts \/ OnlineStateTimeout
             \/ OnWatchStreamChange \/ BackendAdds \/ BackendRefuses \/ BackendRemoves
             \/ \E d \in Docs : DocumentChanges(d)
             \/ UNCHANGED vars
      PROVE  reads' = reads
  BY <1>3 DEF RunEvent, RemoveQueryListener, StreamOpens, StreamDoesNotOpen, StreamBreaks,
              BackoffElapses, IdleTimeout, NetworkRestarts, OnlineStateTimeout,
              OnWatchStreamChange, BackendAdds, BackendRefuses, BackendRemoves,
              DocumentChanges, app, vars
<1>4. QED
  BY <1>1, <1>2, <1>3 DEF Next

LEMMA NextKeepsFreshGiven ==
  ASSUME IInv, AInv, LInv, FreshGiven, FreshEvents, [Next]_vars
  PROVE  FreshGiven'
<1> SUFFICES ASSUME NEW r \in Reads, answers'[r] # <<>>
             PROVE  Fresh(Last(answers'[r]), reads'[r].floor)
  BY DEF FreshGiven
<1>1. CASE answers'[r] = answers[r]
  <2>1. answers[r] # <<>>
    BY <1>1
  <2>2. r \in DOMAIN reads /\ ~New(answers, muted, views, events, r)
    BY <2>1 DEF AInv, New
  <2>3. reads'[r].floor = reads[r].floor
    BY <2>2, FloorsOfAnswered
  <2>4. Fresh(Last(answers[r]), reads[r].floor)
    BY <2>1 DEF FreshGiven
  <2>5. QED
    BY <1>1, <2>3, <2>4
<1>2. CASE answers'[r] # answers[r]
  <2>1. RunEvent
    BY <1>2, AnswersRun
  <2> DEFINE o == events[1].outcome
             q == events[1].read
  <2>2. /\ 1 \in DOMAIN events /\ q \in Reads /\ o \in Outcome
        /\ \A p \in Reads : p # q => answers'[p] = answers[p]
        /\ answers' = answers \/ answers'[q] = <<AnswerOf(o)>>
    BY <2>1, RunEventAnswers
  <2>3. Fresh(o, reads[q].floor)
    BY <2>2 DEF FreshEvents
  <2> HIDE DEF o, q
  <2>4. r = q /\ answers'[r] = <<AnswerOf(o)>>
    BY <1>2, <2>2
  <2>5. Last(answers'[r]) = AnswerOf(o)
    BY <2>4 DEF Last
  <2>6. AnswerOf(o) = o \/ AnswerOf(o) = Unavailable
    BY DEF AnswerOf
  <2>7. Fresh(AnswerOf(o), reads[q].floor)
    BY <2>3, <2>6 DEF Fresh, Unavailable
  <2>8. reads' = reads
    BY <2>1 DEF RunEvent
  <2>9. QED
    BY <2>4, <2>5, <2>7, <2>8
<1>3. QED
  BY <1>1, <1>2

(* A handler tells what a view is after it. *)
LEMMA WorkerTellsFresh ==
  ASSUME IInv, IInv', AInv, LInv, LInv', FreshEvents, FreshViews', SameReads, Telling, [Next]_vars
  PROVE  FreshEvents'
<1>1. PICK toRead \in SUBSET DOMAIN reads : \E said :
        Tells(events, events', toRead, said) /\ TellsViews(toRead, said)
  BY DEF Telling
<1>2. PICK said : Tells(events, events', toRead, said) /\ TellsViews(toRead, said)
  BY <1>1
<1> SUFFICES ASSUME NEW i \in DOMAIN events'
             PROVE  Fresh(events'[i].outcome, reads'[events'[i].read].floor)
  BY DEF FreshEvents
<1>3. \/ i \in DOMAIN events /\ events'[i] = events[i]
      \/ i > Len(events)
  <2>1. events \in Seq(EventType) /\ events' \in Seq(EventType)
    BY DEF IInv
  <2>2. QED
    BY <1>2, <2>1 DEF Tells
<1>4. CASE i \in DOMAIN events /\ events'[i] = events[i]
  <2>1. events[i].read \in DOMAIN reads
    BY <1>4, EventFields
  <2>2. ~New(answers, muted, views, events, events[i].read)
    BY <1>4 DEF New, Silent
  <2>3. reads'[events[i].read].floor = reads[events[i].read].floor
    BY <2>1, <2>2, FloorsOfAnswered
  <2>4. Fresh(events[i].outcome, reads[events[i].read].floor)
    BY <1>4 DEF FreshEvents
  <2>5. QED
    BY <1>4, <2>3, <2>4
<1>5. CASE i > Len(events)
  <2> DEFINE r == events'[i].read
             o == events'[i].outcome
  <2>1. r \in toRead /\ o = said[r] /\ r \in DOMAIN reads
    BY <1>2, <1>5 DEF Tells
  <2>2. PICK d \in Docs : reads[r].doc = d
    BY <2>1, FloorsAreNat
  <2>3. \/ said[r] = Failure
        \/ said[r] = Snapshot(views'[d].version, ~views'[d].current) /\ r \in views'[d].listeners
    BY <1>2, <2>1, <2>2 DEF TellsViews
  <2> HIDE DEF r, o
  <2>4. CASE said[r] = Failure
    BY <2>1, <2>4 DEF Fresh, Failure, r, o
  <2>5. CASE said[r] = Snapshot(views'[d].version, ~views'[d].current) /\ r \in views'[d].listeners
    <3>1. o.kind = "snapshot" /\ o.version = views'[d].version /\ o.fromCache = ~views'[d].current
      BY <2>1, <2>5 DEF Snapshot
    <3>2. HasView(d)'
      BY <2>5, ViewFields DEF HasView
    <3>3. reads'[r].floor = Floor(d)'
      BY <2>5, <3>2 DEF LInv, FloorsOk
    <3>4. views'[d].current => views'[d].version >= Floor(d)'
      BY <3>2 DEF FreshViews
    <3>5. Fresh(o, reads'[r].floor)
      BY <3>1, <3>3, <3>4 DEF Fresh
    <3>6. QED
      BY <3>5 DEF r, o
  <2>6. QED
    BY <2>3, <2>4, <2>5
<1>6. QED
  BY <1>3, <1>4, <1>5

LEMMA NextKeepsFreshEvents ==
  ASSUME IInv, IInv', AInv, LInv, LInv', FreshEvents, FreshViews', [Next]_vars
  PROVE  FreshEvents'
<1>1. ASSUME NEW d \in Docs, GetDocument(d)
      PROVE  FreshEvents'
  <2>1. events' = events
    BY <1>1 DEF GetDocument
  <2>2. QED
    BY <1>1, <2>1, GetDocumentKeeps, EventFields DEF FreshEvents
<1>2. CASE RunEvent
  <2>1. events \in Seq(EventType) /\ events # <<>> /\ events' = Tail(events) /\ reads' = reads
    BY <1>2 DEF RunEvent, IInv
  <2>2. QED
    BY <2>1, TailIndices DEF FreshEvents
<1>3. CASE AddQueryListener
  BY <1>3, AddQueryListenerKeeps, WorkerTellsFresh
<1>4. ASSUME \/ RemoveQueryListener
             \/ StreamOpens \/ BackoffElapses \/ IdleTimeout \/ NetworkRestarts
             \/ BackendAdds \/ BackendRefuses \/ BackendRemoves
             \/ \E d \in Docs : DocumentChanges(d)
             \/ UNCHANGED vars
      PROVE  FreshEvents'
  <2>1. UNCHANGED <<events, reads>>
    BY <1>4 DEF RemoveQueryListener, StreamOpens, BackoffElapses, IdleTimeout, NetworkRestarts,
                BackendAdds, BackendRefuses, BackendRemoves, DocumentChanges, app, vars
  <2>2. QED
    BY <2>1 DEF FreshEvents
<1>5. CASE StreamDoesNotOpen \/ StreamBreaks \/ OnlineStateTimeout \/ OnWatchStreamChange
  <2>1. Telling /\ reads' = reads
    BY <1>5, StreamDoesNotOpenKeeps, StreamBreaksKeeps, OnlineStateTimeoutKeeps,
       OnWatchStreamChangeKeeps
       DEF StreamDoesNotOpen, StreamBreaks, OnlineStateTimeout
  <2>2. SameReads
    BY <2>1 DEF SameReads
  <2>3. QED
    BY <2>1, <2>2, WorkerTellsFresh
<1>6. QED
  BY <1>1, <1>2, <1>3, <1>4, <1>5 DEF Next

LEMMA SnapshotIsNewer ==
  ASSUME IInv, RaiseWatchSnapshot
  PROVE  \A d \in Docs : cached'[d] >= agg.docs[d] /\ cached'[d] >= cached[d]
<1> SUFFICES ASSUME NEW d \in Docs
             PROVE  cached'[d] >= agg.docs[d] /\ cached'[d] >= cached[d]
  OBVIOUS
<1>1. cached'[d] = IF agg.docs[d] > cached[d] THEN agg.docs[d] ELSE cached[d]
  BY DEF RaiseWatchSnapshot
<1>2. agg.docs[d] \in Nat /\ cached[d] \in Nat
  BY VersionsAreNat DEF IInv, AggType
<1>3. QED
  BY <1>1, <1>2

LEMMA OfflineIsNotCurrent ==
  ASSUME IInv, NEW offline, GoOfflineIf(offline), NEW d \in Docs, HasView(d)', views'[d].current
  PROVE  HasView(d) /\ views[d].current
<1>1. CASE ~offline
  BY <1>1 DEF GoOfflineIf, HasView
<1>2. CASE offline
  <2>1. views' = [e \in Docs |->
              IF ~HasView(e) THEN NoView
              ELSE [views[e] EXCEPT !.current = FALSE, !.raised = views[e].listeners]]
    BY <1>2 DEF GoOfflineIf
  <2>2. HasView(d) /\ views'[d] = [views[d] EXCEPT !.current = FALSE, !.raised = views[d].listeners]
    BY <2>1 DEF HasView
  <2>3. views[d] \in View
    BY <2>2 DEF IInv, ViewsOk, HasView
  <2>4. ~views'[d].current
    BY <2>2, <2>3 DEF View
  <2>5. QED
    BY <2>4
<1>3. QED
  BY <1>1, <1>2

(* Nothing but a snapshot makes a view current. *)
LEMMA CurrentStays ==
  ASSUME IInv, IInv', [Next]_vars, ~(OnWatchStreamChange /\ Head(down).change = "snapshot"),
         NEW d \in Docs, HasView(d)', views'[d].current
  PROVE  HasView(d) /\ views[d].current
<1>1. CASE AddQueryListener
  <2> DEFINE r == Head(ops).read
             e == reads[r].doc
  <2>1. /\ ops # <<>> /\ (IF HasView(e) THEN JoinView(r, e) ELSE Listen(r, e))
        /\ UNCHANGED <<down, watched>>
    BY <1>1 DEF AddQueryListener, backend
  <2>2. r \in DOMAIN reads /\ e \in Docs
    BY <2>1, PoppedOperation
  <2>3. reads[r].doc = e /\ \A f \in Docs : f # e => views'[f] = views[f]
    BY <1>1, AddQueryListenerKeeps
  <2> HIDE DEF e, r
  <2>4. CASE d # e
    BY <2>3, <2>4 DEF HasView
  <2>5. CASE d = e /\ HasView(e)
    <3>1. views'[e].current = views[e].current
      BY <2>1, <2>2, <2>3, <2>5, JoinKeeps
    <3>2. QED
      BY <2>5, <3>1
  <2>6. CASE d = e /\ ~HasView(e)
    BY <2>1, <2>2, <2>3, <2>6, ListenKeeps
  <2>7. QED
    BY <2>4, <2>5, <2>6
<1>2. CASE RemoveQueryListener
  BY <1>2, RemoveLeaves DEF HasView
<1>3. CASE StreamDoesNotOpen \/ StreamBreaks \/ OnlineStateTimeout
  <2>1. PICK n : Broadcast(n)
    BY <1>3 DEF StreamDoesNotOpen, StreamBreaks, OnlineStateTimeout
  <2>2. QED
    BY <2>1, OfflineIsNotCurrent DEF Broadcast
<1>4. CASE OnWatchStreamChange
  <2> DEFINE m == Head(down)
  <2>1. /\ m.change = "refused" =>
             /\ m.doc \notin net.targets => views' = views
             /\ m.doc \in net.targets => views' = [views EXCEPT ![m.doc] = NoView]
        /\ m.change \notin {"snapshot", "refused"} => views' = views
        /\ m.change # "snapshot"
    BY <1>4, ChangeIs
  <2> HIDE DEF m
  <2>2. views' = views \/ views' = [views EXCEPT ![m.doc] = NoView]
    BY <2>1
  <2>3. views'[d] = views[d] \/ views'[d] = NoView
    BY <2>2 DEF IInv, ViewsOk
  <2>4. QED
    BY <2>3 DEF HasView
<1>5. ASSUME \/ \E e \in Docs : GetDocument(e) \/ DocumentChanges(e)
             \/ RunEvent
             \/ StreamOpens \/ BackoffElapses \/ IdleTimeout \/ NetworkRestarts
             \/ BackendAdds \/ BackendRefuses \/ BackendRemoves
             \/ UNCHANGED vars
      PROVE  views' = views
  BY <1>5 DEF GetDocument, DocumentChanges, RunEvent, StreamOpens, BackoffElapses, IdleTimeout,
              NetworkRestarts, BackendAdds, BackendRefuses, BackendRemoves, app, vars
<1>6. QED
  BY <1>1, <1>2, <1>3, <1>4, <1>5 DEF Next, HasView

LEMMA CacheIsNewer ==
  ASSUME IInv, [Next]_vars
  PROVE  \A d \in Docs : cached'[d] >= cached[d]
<1>1. CASE OnWatchStreamChange
  BY <1>1, OnWatchStreamChangeKeeps
<1>2. CASE ~OnWatchStreamChange
  <2>1. cached' = cached
    BY <1>2 DEF Next, GetDocument, DocumentChanges, RunEvent, AddQueryListener,
                RemoveQueryListener, StreamOpens, StreamDoesNotOpen, StreamBreaks,
                BackoffElapses, IdleTimeout, NetworkRestarts, OnlineStateTimeout,
                BackendAdds, BackendRefuses, BackendRemoves, vars
  <2>2. QED
    BY <2>1, FloorsAreNat
<1>3. QED
  BY <1>1, <1>2

LEMMA NextKeepsFreshViews ==
  ASSUME IInv, IInv', AInv, LInv, FreshViews, FreshTargets, [Next]_vars
  PROVE  FreshViews'
<1> SUFFICES ASSUME NEW d \in Docs, HasView(d)', views'[d].current
             PROVE  views'[d].version >= Floor(d)'
  BY DEF FreshViews
<1>1. views'[d].version = cached'[d] /\ cached'[d] \in Nat
  BY VersionsAreNat DEF IInv, ViewsShow, HasView
<1>2. cached'[d] >= cached[d] /\ cached[d] \in Nat
  BY CacheIsNewer, FloorsAreNat
<1>3. HasView(d) => Floor(d)' = Floor(d) /\ Floor(d) \in Nat
  BY FloorsStay, FloorsAreNat
<1>4. HasView(d) /\ views[d].current => cached[d] >= Floor(d)
  BY DEF FreshViews, IInv, ViewsShow, HasView
<1>5. CASE HasView(d) /\ views[d].current
  BY <1>1, <1>2, <1>3, <1>4, <1>5
<1>6. CASE ~(HasView(d) /\ views[d].current)
  <2>1. OnWatchStreamChange /\ Head(down).change = "snapshot"
    BY <1>6, CurrentStays
  <2>2. RaiseWatchSnapshot
    BY <2>1, ChangeIs
  <2>3. HasView(d)
    BY <2>2, SnapshotMakesCurrent
  <2>4. \/ views'[d].current = views[d].current
        \/ views'[d].current = (d \in agg.current) /\ IsActiveTarget(d)
    BY <2>2, <2>3, SnapshotMakesCurrent
  <2>5. d \in agg.current /\ IsActiveTarget(d)
    BY <1>6, <2>3, <2>4
  <2>6. agg.docs[d] >= Floor(d) \/ cached[d] >= Floor(d)
    BY <2>1, <2>5 DEF FreshTargets, IsActiveTarget, NextIsCurrent
  <2>7. cached'[d] >= agg.docs[d] /\ cached'[d] >= cached[d]
    BY <2>2, SnapshotIsNewer
  <2>8. agg.docs[d] \in Nat
    BY VersionsAreNat DEF IInv, AggType
  <2>9. QED
    BY <1>1, <1>2, <1>3, <2>3, <2>6, <2>7, <2>8
<1>7. QED
  BY <1>5, <1>6

(* What d shows when its replies are counted and it is current. *)
FreshTarget(d) == agg.docs[d] >= Floor(d) \/ cached[d] >= Floor(d) \/ NextIsCurrent(down, d)

LEMMA StaysFresh ==
  ASSUME IInv, IInv', AInv, LInv, FreshTargets, [Next]_vars,
         NEW d \in net'.targets, d \in net.targets, agg.outstanding[d] = 0, d \in agg.current,
         agg'.docs[d] = agg.docs[d], NextIsCurrent(down, d) => NextIsCurrent(down', d)
  PROVE  FreshTarget(d)'
<1>1. d \in Docs /\ HasView(d) /\ Floor(d)' = Floor(d) /\ Floor(d) \in Nat
  BY TargetsHaveViews, TargetFloors, FloorsAreNat
<1>2. FreshTarget(d)
  BY DEF FreshTargets, FreshTarget
<1>3. cached'[d] >= cached[d] /\ cached[d] \in Nat /\ cached'[d] \in Nat
  BY <1>1, CacheIsNewer, FloorsAreNat, VersionsAreNat DEF IInv
<1>4. cached[d] >= Floor(d) => cached'[d] >= Floor(d)
  BY <1>1, <1>3
<1>5. QED
  BY <1>1, <1>2, <1>4 DEF FreshTarget

LEMMA SendsKeepFresh ==
  ASSUME IInv, IInv', AInv, LInv, BInv, CInv, refusals <= 1, FreshTargets,
         AddQueryListener \/ RemoveQueryListener
  PROVE  FreshTargets'
<1>1. [Next]_vars /\ down' = down
  BY DEF Next, AddQueryListener, RemoveQueryListener
<1> SUFFICES ASSUME NEW d \in net'.targets, agg'.outstanding[d] = 0, d \in agg'.current
             PROVE  FreshTarget(d)'
  BY DEF FreshTargets, FreshTarget
<1>2. agg # NewAggregator /\ agg' # NewAggregator => IsOpen(net)
  BY DEF BInv
<1>3. agg' # NewAggregator
  BY DEF NewAggregator
<1>4. agg \in AggType /\ d \in Docs
  BY TargetsHaveViews DEF IInv, NetOk, NetType
<1>5. ASSUME UNCHANGED <<net, agg>>
      PROVE  FreshTarget(d)'
  BY <1>1, <1>5, StaysFresh
<1>6. ASSUME NEW e \in Docs, NEW op \in {"watch", "unwatch"}, Send([op |-> op, doc |-> e]),
             op = "watch" => e \notin net.targets /\ net'.targets = net.targets \cup {e},
             op = "unwatch" => net'.targets = net.targets \ {e}
      PROVE  FreshTarget(d)'
  <2>1. agg' = [agg EXCEPT !.outstanding[e] = @ + 1]
    BY <1>6 DEF Send
  <2>2. /\ agg'.current = agg.current /\ agg'.docs = agg.docs
        /\ agg.outstanding[e] \in Int /\ agg'.outstanding[e] = agg.outstanding[e] + 1
        /\ d # e => agg'.outstanding[d] = agg.outstanding[d]
    BY <1>4, <1>6, <2>1 DEF AggType
  <2>3. CASE d # e
    <3>1. d \in net.targets
      BY <1>6, <2>3
    <3>2. QED
      BY <1>1, <2>2, <2>3, <3>1, StaysFresh
  <2>4. CASE d = e
    <3>1. Left(up, down, 0, d) \in Nat
      BY LeftIsNat DEF IInv, StreamOk
    <3>2. agg.outstanding[d] < 0
      BY <2>2, <2>4
    <3>3. ~Exact(d) /\ ~Over(d)
      BY <2>2, <2>4, <3>1, <3>2 DEF Exact, Over
    <3>4. Under(d)
      BY <1>4, <3>3 DEF CInv, Counted
    <3>5. QED
      BY <2>2, <3>4 DEF Under
  <2>5. QED
    BY <2>3, <2>4
<1>7. CASE AddQueryListener
  <2> DEFINE e == reads[Head(ops).read].doc
  <2>1. e \in Docs
    BY <1>7, PoppedOperation DEF AddQueryListener
  <2>2. /\ HasView(e) => UNCHANGED <<net, agg>>
        /\ ~HasView(e) =>
             /\ e \notin net.targets /\ net'.targets = net.targets \cup {e}
             /\ IsOpen(net) => Send([op |-> "watch", doc |-> e])
             /\ ~IsOpen(net) => agg' = agg \/ agg' = NewAggregator
    BY <1>7, ListenSends
  <2> HIDE DEF e
  <2>3. CASE HasView(e)
    BY <1>5, <2>2, <2>3
  <2>4. CASE ~HasView(e)
    <3>1. IsOpen(net)
      BY <1>2, <1>3, <2>2, <2>4
    <3>2. Send([op |-> "watch", doc |-> e])
      BY <2>2, <2>4, <3>1
    <3>3. QED
      BY <1>6, <2>1, <2>2, <2>4, <3>2
  <2>5. QED
    BY <2>3, <2>4
<1>8. CASE RemoveQueryListener
  <2> DEFINE r == Head(ops).read
             e == reads[r].doc
  <2>1. /\ e \in Docs
        /\ HasView(e) /\ views[e].listeners = {r} => StopListening(e)
        /\ ~(HasView(e) /\ views[e].listeners = {r}) => UNCHANGED <<net, agg>>
    BY <1>8, RemoveLeaves
  <2> HIDE DEF e, r
  <2>2. CASE ~(HasView(e) /\ views[e].listeners = {r})
    BY <1>5, <2>1, <2>2
  <2>3. CASE HasView(e) /\ views[e].listeners = {r}
    <3>1. /\ net'.targets = net.targets \ {e}
          /\ IsOpen(net) => Send([op |-> "unwatch", doc |-> e])
          /\ ~IsOpen(net) => agg' = agg
      BY <2>1, <2>3, StopSends
    <3>2. IsOpen(net)
      BY <1>2, <1>3, <3>1
    <3>3. Send([op |-> "unwatch", doc |-> e])
      BY <3>1, <3>2
    <3>4. QED
      BY <1>6, <2>1, <3>1, <3>3
  <2>4. QED
    BY <2>2, <2>3
<1>9. QED
  BY <1>7, <1>8

(* What is sent of d is as new as its listen once d is active: nothing is  *)
(* left to be counted then, and what is sent is of the last listen.        *)
LEMMA ActiveIsFresh ==
  ASSUME IInv, BInv, CInv, refusals <= 1, NEW d \in net.targets, agg.outstanding[d] = 0,
         down # <<>>, Head(down) \in Contents(d)
  PROVE  Head(down).version >= Floor(d)
<1>1. /\ d \in Docs /\ up \in Seq(Request) /\ down \in Seq(Response)
      /\ 1 \in DOMAIN down /\ Head(down) = down[1] /\ 0 \in Nat
  BY TargetsHaveViews, TailIndices DEF IInv, StreamOk
<1>2. /\ Rest(up, 0, Requests(d)) \in Nat /\ Rest(down, 0, Replies(d)) \in Nat
      /\ Left(up, down, 0, d) \in Nat
      /\ Left(up, down, 0, d) = Rest(up, 0, Requests(d)) + Rest(down, 0, Replies(d))
  BY <1>1, LeftIsNat
<1>3. ~Under(d)
  <2>1. SUFFICES ASSUME Under(d) PROVE FALSE
    OBVIOUS
  <2>2. Gap(d) = 1
    BY DEF Gap
  <2>3. Late(down, 0, 1, d)
    BY <2>1, <2>2 DEF Under, Behind
  <2>4. 0 >= 1
    BY <1>1, <2>3, LateHead
  <2>5. QED
    BY <2>4
<1>4. ~Over(d)
  BY <1>2 DEF Over
<1>5. Exact(d)
  BY <1>1, <1>3, <1>4 DEF CInv, Counted
<1>6. Rest(up, 0, Requests(d)) = 0 /\ Rest(down, 0, Replies(d)) = 0
  BY <1>2, <1>5 DEF Exact
<1>7. NoneFor(up, d)
  <2>1. \A i \in DOMAIN up : 0 < i /\ up[i] \in Request
    BY <1>1
  <2>2. \A i \in DOMAIN up : up[i] \notin Requests(d)
    BY <1>1, <1>6, <2>1, RestOfNone
  <2>3. QED
    BY <2>1, <2>2, RequestsOf DEF NoneFor
<1>8. \A j \in DOMAIN down : down[j] \notin Replies(d)
  <2>1. \A j \in DOMAIN down : 0 < j
    BY <1>1
  <2>2. QED
    BY <1>1, <1>6, <2>1, RestOfNone
<1>9. NewestFresh(down, d, Floor(d))
  BY <1>7 DEF BInv
<1>10. QED
  BY <1>1, <1>8, <1>9 DEF NewestFresh

LEMMA ReadingKeepsFresh ==
  ASSUME IInv, IInv', AInv, LInv, BInv, CInv, refusals <= 1, FreshTargets, OnWatchStreamChange
  PROVE  FreshTargets'
<1> DEFINE m == Head(down)
<1>1. /\ down # <<>> /\ down \in Seq(Response) /\ m \in Response /\ down' = Tail(down)
      /\ agg \in AggType
      /\ m.change = "snapshot" => RaiseWatchSnapshot /\ net'.targets = net.targets
      /\ m.change = "refused" =>
           /\ m.doc \in Docs
           /\ m.doc \notin net.targets => net'.targets = net.targets /\ UNCHANGED <<views, agg>>
           /\ m.doc \in net.targets =>
                net'.targets = net.targets \ {m.doc} /\ agg' = RemoveTarget(agg, m.doc)
      /\ m.change \notin {"snapshot", "refused"} =>
           HandleTargetChange(m) /\ net'.targets = net.targets
  BY ChangeIs
<1>2. [Next]_vars
  BY DEF Next
<1> SUFFICES ASSUME NEW d \in net'.targets, agg'.outstanding[d] = 0, d \in agg'.current
             PROVE  FreshTarget(d)'
  BY DEF FreshTargets, FreshTarget
<1>3. d \in net.targets /\ d \in Docs
  <2>1. m.change = "snapshot" \/ m.change = "refused" \/ m.change \notin {"snapshot", "refused"}
    OBVIOUS
  <2> HIDE DEF m
  <2>2. net'.targets \subseteq net.targets
    BY <1>1, <2>1
  <2>3. QED
    BY <2>2, TargetsHaveViews
<1>4. Floor(d)' = Floor(d) /\ Floor(d) \in Nat
  BY <1>2, <1>3, TargetFloors, TargetsHaveViews, FloorsAreNat
<1>5. ASSUME agg.outstanding[d] = 0, d \in agg.current, agg'.docs[d] = agg.docs[d],
             m.change # "current" \/ m.doc # d
      PROVE  FreshTarget(d)'
  <2>1. ~NextIsCurrent(down, d)
    BY <1>5 DEF NextIsCurrent
  <2>2. QED
    BY <1>2, <1>3, <1>5, <2>1, StaysFresh
<1>6. CASE m.change = "snapshot"
  <2>1. RaiseWatchSnapshot
    BY <1>1, <1>6
  <2>2. agg.outstanding[d] = 0 /\ d \in agg.current
    BY <2>1, SnapshotMakesCurrent
  <2>3. agg.docs[d] >= Floor(d) \/ cached[d] >= Floor(d)
    BY <1>3, <1>6, <2>2 DEF FreshTargets, NextIsCurrent
  <2>4. cached'[d] >= agg.docs[d] /\ cached'[d] >= cached[d]
    BY <1>3, <2>1, SnapshotIsNewer
  <2>5. agg.docs[d] \in Nat /\ cached[d] \in Nat /\ cached'[d] \in Nat
    BY <1>3, VersionsAreNat DEF IInv, AggType
  <2>6. QED
    BY <1>4, <2>3, <2>4, <2>5 DEF FreshTarget
<1>7. CASE m.change = "refused"
  <2>1. CASE m.doc \notin net.targets
    BY <1>1, <1>5, <1>7, <2>1
  <2>2. CASE m.doc \in net.targets
    <3>1. agg' = RemoveTarget(agg, m.doc) /\ m.doc \in Docs /\ agg \in AggType /\ d # m.doc
      BY <1>1, <1>7, <2>2
    <3> HIDE DEF m
    <3>2. /\ agg'.outstanding = [agg.outstanding EXCEPT ![m.doc] = 0]
          /\ agg'.current = agg.current \ {m.doc} /\ agg'.docs = agg.docs
      BY <3>1, TargetRemoved
    <3>3. agg.outstanding[d] = 0
      BY <3>1, <3>2 DEF AggType
    <3>4. QED
      BY <1>5, <3>1, <3>2, <3>3
  <2>3. QED
    BY <2>1, <2>2
<1>8. CASE m.change \notin {"snapshot", "refused"}
  <2>1. HandleTargetChange(m)
    BY <1>1, <1>8
  <2> DEFINE left == [agg.outstanding EXCEPT ![m.doc] = @ - 1]
  <2>2. /\ m.doc \in Docs
        /\ \/ /\ m.change = "added"
              /\ agg'.outstanding = left /\ agg'.current = agg.current /\ agg'.docs = agg.docs
           \/ /\ m.change = "removed"
              /\ agg'.outstanding = left /\ agg'.docs = agg.docs
              /\ agg'.current = IF left[m.doc] = 0 THEN agg.current \ {m.doc} ELSE agg.current
           \/ /\ m.change \in {"current", "document"} /\ ~IsActiveTarget(m.doc)
              /\ agg' = agg
           \/ /\ m.change \in {"current", "document"} /\ IsActiveTarget(m.doc)
              /\ agg'.outstanding = agg.outstanding
              /\ agg'.current \subseteq agg.current \cup {m.doc}
              /\ agg'.docs = [agg.docs EXCEPT ![m.doc] = m.version]
    BY <1>1, <1>8, <2>1, TargetChanges
  <2>3. m.doc # d => left[d] = agg.outstanding[d]
    BY <1>1, <2>2 DEF AggType
  <2>4. m.doc = d => left[m.doc] = left[d]
    OBVIOUS
  <2> HIDE DEF left
  <2>5. CASE m.doc # d
    <3>1. agg.outstanding[d] = 0 /\ d \in agg.current
      BY <2>2, <2>3, <2>5
    <3>2. agg'.docs[d] = agg.docs[d]
      BY <1>1, <2>2, <2>5 DEF AggType
    <3>3. QED
      BY <1>5, <2>5, <3>1, <3>2
  <2>6. CASE m.doc = d /\ m.change = "added"
    <3>1. 2 \in DOMAIN down /\ down[2].change = "current" /\ down[2].doc = d
      <4>1. 1 \in DOMAIN down /\ m = down[1]
        BY <1>1, TailIndices
      <4>2. 1 + 1 \in DOMAIN down /\ down[1 + 1].change = "current" /\ down[1 + 1].doc = d
        BY <2>6, <4>1 DEF BInv, Paired
      <4>3. QED
        BY <4>2
    <3>2. 1 \in DOMAIN down' /\ down'[1] = down[2]
      <4>1. 2 # 1 => 2 - 1 \in DOMAIN Tail(down) /\ Tail(down)[2 - 1] = down[2]
        BY <1>1, <3>1, TailIndices
      <4>2. QED
        BY <1>1, <4>1
    <3>3. down' # <<>> /\ Head(down') = down'[1]
      BY <3>2
    <3>4. NextIsCurrent(down', d)
      BY <3>1, <3>2, <3>3 DEF NextIsCurrent
    <3>5. QED
      BY <3>4 DEF FreshTarget
  <2>7. CASE m.doc = d /\ m.change = "removed"
    <3>1. agg'.outstanding[d] = left[m.doc] /\ d \notin agg'.current
      BY <2>2, <2>4, <2>7
    <3>2. QED
      BY <3>1
  <2>8. CASE m.doc = d /\ m.change \in {"current", "document"}
    <3>1. agg.outstanding[d] = 0
      BY <2>2, <2>8
    <3>2. IsActiveTarget(m.doc)
      BY <1>3, <2>8, <3>1 DEF IsActiveTarget
    <3>3. agg'.docs = [agg.docs EXCEPT ![m.doc] = m.version]
      BY <2>2, <2>8, <3>2
    <3>4. agg'.docs[d] = m.version
      BY <1>1, <1>3, <2>8, <3>3 DEF AggType
    <3>5. m \in Contents(d)
      BY <1>1, <1>3, <2>8, Kinds
    <3>6. m.version >= Floor(d)
      BY <1>1, <1>3, <3>1, <3>5, ActiveIsFresh
    <3>7. QED
      BY <1>4, <3>4, <3>6 DEF FreshTarget
  <2>9. QED
    BY <1>8, <2>2, <2>5, <2>6, <2>7, <2>8
<1>9. QED
  BY <1>6, <1>7, <1>8

LEMMA NextKeepsFreshTargets ==
  ASSUME IInv, IInv', AInv, LInv, BInv, CInv, refusals <= 1, FreshTargets, [Next]_vars
  PROVE  FreshTargets'
<1>1. CASE AddQueryListener \/ RemoveQueryListener
  BY <1>1, SendsKeepFresh
<1>2. CASE OnWatchStreamChange
  BY <1>2, ReadingKeepsFresh
<1>3. CASE Ends \/ StreamOpens
  <2>1. agg'.current = {}
    <3>1. CASE Ends
      BY <3>1, EndsAre DEF NewAggregator
    <3>2. CASE StreamOpens
      <4>1. ~IsOpen(net)
        BY <3>2 DEF StreamOpens, IsOpen
      <4>2. agg'.current = NewAggregator.current
        BY <3>2, <4>1 DEF StreamOpens, BInv, IInv, AggType
      <4>3. QED
        BY <4>2 DEF NewAggregator
    <3>3. QED
      BY <1>3, <3>1, <3>2
  <2>2. QED
    BY <2>1 DEF FreshTargets
<1>4. ASSUME UNCHANGED agg, net'.targets = net.targets,
             \A d : NextIsCurrent(down, d) => NextIsCurrent(down', d)
      PROVE  FreshTargets'
  <2>1. \A d \in net'.targets : agg'.outstanding[d] = 0 /\ d \in agg'.current => FreshTarget(d)'
    BY <1>4, StaysFresh
  <2>2. QED
    BY <2>1 DEF FreshTargets, FreshTarget
<1>5. CASE BackendAdds \/ BackendRefuses \/ BackendRemoves
  <2>1. UNCHANGED <<agg, net>>
    BY <1>5 DEF BackendAdds, BackendRefuses, BackendRemoves
  <2>2. down \in Seq(Response)
    BY DEF IInv, StreamOk
  <2>3. down # <<>> => down' # <<>> /\ Head(down') = Head(down)
    <3>1. CASE BackendAdds
      <4>1. \E m, p, q : down' = down \o <<m, p, q>>
        BY <3>1 DEF BackendAdds
      <4>2. QED
        BY <2>2, <4>1
    <3>2. CASE BackendRefuses \/ BackendRemoves
      <4>1. \E m : down' = Append(down, m)
        BY <3>2 DEF BackendRefuses, BackendRemoves
      <4>2. QED
        BY <2>2, <4>1
    <3>3. QED
      BY <1>5, <3>1, <3>2
  <2>4. \A d : NextIsCurrent(down, d) => NextIsCurrent(down', d)
    BY <2>3 DEF NextIsCurrent
  <2>5. QED
    BY <1>4, <2>1, <2>4
<1>6. ASSUME NEW e \in Docs, DocumentChanges(e)
      PROVE  FreshTargets'
  <2>1. UNCHANGED <<agg, net>>
    BY <1>6 DEF DocumentChanges
  <2>2. down # <<>> => down' # <<>> /\ Head(down') = Head(down)
    BY <1>6 DEF DocumentChanges, IInv, StreamOk
  <2>3. \A d : NextIsCurrent(down, d) => NextIsCurrent(down', d)
    BY <2>2 DEF NextIsCurrent
  <2>4. QED
    BY <1>4, <2>1, <2>3
<1>7. ASSUME \/ \E d \in Docs : GetDocument(d)
             \/ RunEvent \/ BackoffElapses \/ OnlineStateTimeout \/ UNCHANGED vars
      PROVE  FreshTargets'
  <2>1. UNCHANGED <<down, agg>>
    BY <1>7 DEF GetDocument, RunEvent, BackoffElapses, OnlineStateTimeout, vars
  <2>2. net'.targets = net.targets
    <3>1. CASE OnlineStateTimeout
      <4>1. net' = [HardAssert(net, net.online = "Unknown")
                      EXCEPT !.timer = FALSE, !.online = "Offline"]
        BY <3>1 DEF OnlineStateTimeout, Broadcast
      <4>2. QED
        BY <4>1, TargetsHaveViews DEF HardAssert, NetType
    <3>2. CASE ~OnlineStateTimeout
      BY <1>7, <3>2, TargetsHaveViews DEF GetDocument, RunEvent, BackoffElapses, vars, NetType
    <3>3. QED
      BY <3>1, <3>2
  <2>3. QED
    BY <1>4, <2>1, <2>2
<1>8. QED
  BY <1>1, <1>2, <1>3, <1>5, <1>6, <1>7 DEF Next, Ends

LEMMA RefusalsGrow ==
  ASSUME IInv, [Next]_vars
  PROVE  refusals' <= 1 => refusals <= 1
<1>1. refusals \in Nat
  BY DEF IInv
<1>2. refusals' = refusals \/ refusals' = refusals + 1
  BY DEF Next, GetDocument, DocumentChanges, RunEvent, AddQueryListener, RemoveQueryListener,
         StreamOpens, StreamDoesNotOpen, StreamBreaks, BackoffElapses, IdleTimeout,
         NetworkRestarts, OnlineStateTimeout, OnWatchStreamChange, BackendAdds, BackendRefuses,
         BackendRemoves, vars
<1>3. QED
  BY <1>1, <1>2

LEMMA NextKeepsFInv ==
  ASSUME IInv, IInv', AInv, LInv, LInv', BInv, CInv, FInv, [Next]_vars
  PROVE  FInv'
<1> SUFFICES ASSUME refusals' <= 1
             PROVE  FreshGiven' /\ FreshEvents' /\ FreshViews' /\ FreshTargets'
  BY DEF FInv
<1>1. refusals <= 1 /\ FreshGiven /\ FreshEvents /\ FreshViews /\ FreshTargets
  BY RefusalsGrow DEF FInv
<1>2. FreshTargets'
  BY <1>1, NextKeepsFreshTargets
<1>3. FreshViews'
  BY <1>1, NextKeepsFreshViews
<1>4. FreshEvents'
  BY <1>1, <1>3, NextKeepsFreshEvents
<1>5. FreshGiven'
  BY <1>1, NextKeepsFreshGiven
<1>6. QED
  BY <1>2, <1>3, <1>4, <1>5

LEMMA FInvAlways == Spec => []FInv
<1>1. IInv /\ IInv' /\ AInv /\ LInv /\ LInv' /\ BInv /\ CInv /\ FInv /\ [Next]_vars => FInv'
  BY NextKeepsFInv
<1>2. Spec => []IInv /\ []AInv /\ []LInv /\ []BInv /\ []CInv
  BY IInvAlways, AInvAlways, LInvAlways, BInvAlways, CInvAlways
<1>3. QED
  BY <1>1, <1>2, FirstFInv, PTL DEF Spec

(* With at most one listen refused, an answer that is not from the cache   *)
(* is no older than the listen it answers.                                 *)
THEOREM FreshReads == Spec => []FreshAnswers
<1>1. FInv => FreshAnswers
  BY DEF FInv, FreshGiven, Fresh, FreshAnswers
<1>2. QED
  BY <1>1, FInvAlways, PTL

================================================================================
