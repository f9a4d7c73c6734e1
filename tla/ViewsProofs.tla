---------------------------- MODULE ViewsProofs ----------------------------
(***************************************************************************)
(* Proofs about what a local backend keeps and what clients follow of a    *)
(* race, for every number of requests, streams, maps and sandboxes: the    *)
(* copy of the official maps and of their catalogue (MapMirror), the store *)
(* of sandboxes (LocalSandboxes), the weather streams (WeatherStream),     *)
(* those who remember tracks (TrackCaches) and the race table (RaceTable). *)
(***************************************************************************)
EXTENDS MCViews, Integers, Sequences, FiniteSets, FiniteSetTheorems,
        WellFoundedInduction, TLAPS

-----------------------------------------------------------------------------
(* The weather streams. *)

Events == Weathers \cup {"Updated", "Deactivated", Nil}
StreamStates == [at: {"closed", "read", "open"}, last: Weathers \cup {Nil}]

WeatherTypes ==
    /\ active \in BOOLEAN
    /\ weather \in Weathers \cup {Nil}
    /\ weather # Nil => active
    /\ setter \in [Handlers -> [at: {"idle", "set", "publish"}, value: Events]]
    /\ \A a \in Handlers : setter[a].at = "set" => setter[a].value \in Weathers
    /\ queue \in [Streams -> Seq(Events)]
    /\ \A s \in Streams : Len(queue[s]) <= Capacity
    /\ lagged \subseteq Streams
    /\ stream \in [Streams -> StreamStates]
    /\ \A s \in Streams : stream[s].at = "closed" => queue[s] = <<>> /\ s \notin lagged

WeatherInv == WeatherTypes /\ Weather!StreamIsCurrent

\* What the constants are.
LEMMA WeatherConstants == Capacity \in Nat /\ Capacity # 0
BY Assumptions DEF Weather!StreamAssumption

\* A request that changes its record: a new weather is still to be announced.
LEMMA SetterMoves ==
    ASSUME WeatherInv, NEW a \in Handlers, NEW at \in {"idle", "set", "publish"},
           NEW v \in Events, at = "set" => v \in Weathers,
           setter' = [setter EXCEPT ![a] = [at |-> at, value |-> v]],
           at # "publish" => silent' \/ (setter[a].at # "publish" /\ weather' = weather),
           silent => silent',
           weather' \in Weathers \cup {Nil}, active' \in BOOLEAN, weather' # Nil => active',
           UNCHANGED <<queue, lagged, stream>>
    PROVE  WeatherInv'
<1> USE DEF WeatherInv
<1> DEFINE q == [at |-> at, value |-> v]
<1>1. /\ q \in [at: {"idle", "set", "publish"}, value: Events]
      /\ q.at = at /\ q.value = v
  OBVIOUS
<1>2. setter' = [setter EXCEPT ![a] = q]
  OBVIOUS
<1> HIDE DEF q
<1>3. setter' \in [Handlers -> [at: {"idle", "set", "publish"}, value: Events]]
  BY <1>1, <1>2 DEF WeatherTypes
<1>4. setter'[a] = q /\ \A b \in Handlers : b # a => setter'[b] = setter[b]
  BY <1>2 DEF WeatherTypes
<1>5. \A b \in Handlers : setter'[b].at = "set" => setter'[b].value \in Weathers
  BY <1>1, <1>4 DEF WeatherTypes
<1>6. WeatherTypes'
  BY <1>3, <1>5 DEF WeatherTypes
<1>7. Weather!StreamIsCurrent'
  <2> SUFFICES ASSUME NEW s \in Streams, stream[s].at = "open", queue[s] = <<>>,
                      s \notin lagged
               PROVE  \/ stream[s].last = weather'
                      \/ \E b \in Handlers : setter'[b].at = "publish"
                      \/ silent'
    BY DEF Weather!StreamIsCurrent
  <2>1. CASE at = "publish"
    BY <2>1, <1>1, <1>4
  <2>2. CASE at # "publish"
    BY <2>2, <1>1, <1>4 DEF Weather!StreamIsCurrent
  <2>3. QED
    BY <2>1, <2>2
<1>8. QED
  BY <1>6, <1>7

\* The steps of an administrator's request, but for the announcement.
LEMMA SetterSteps ==
    ASSUME WeatherInv, NEW a \in Handlers,
           \/ \E v \in Weathers : Weather!UpdateWeather(a, v) \/ Weather!Activate(a, v)
           \/ Weather!SetWeather(a) \/ Weather!Deactivate(a) \/ Weather!DropRequest(a)
    PROVE  WeatherInv'
<1> USE DEF WeatherInv
<1>t. /\ active \in BOOLEAN /\ weather \in Weathers \cup {Nil}
      /\ weather # Nil => active
      /\ Weathers \subseteq Events /\ {"Updated", "Deactivated", Nil} \subseteq Events
      /\ setter[a].at = "set" => setter[a].value \in Weathers
  BY DEF WeatherTypes, Events
<1>r. setter[a] = Weather!Resting => setter[a].at = "idle"
  BY DEF Weather!Resting
<1>1. ASSUME NEW v \in Weathers, Weather!UpdateWeather(a, v) PROVE WeatherInv'
  BY <1>1, <1>r, <1>t, SetterMoves DEF Weather!UpdateWeather, Weather!Ask
<1>2. ASSUME NEW v \in Weathers, Weather!Activate(a, v) PROVE WeatherInv'
  BY <1>2, <1>r, <1>t, SetterMoves DEF Weather!Activate, Weather!Ask
<1>3. CASE Weather!SetWeather(a)
  <2>1. CASE active
    BY <1>3, <2>1, <1>t, SetterMoves DEF Weather!SetWeather, Weather!Ask
  <2>2. CASE ~active
    BY <1>3, <2>2, <1>t, SetterMoves DEF Weather!SetWeather, Weather!Ask
  <2>3. QED
    BY <2>1, <2>2
<1>4. CASE Weather!Deactivate(a)
  BY <1>4, <1>t, SetterMoves DEF Weather!Deactivate, Weather!Ask
<1>5. CASE Weather!DropRequest(a)
  BY <1>5, <1>t, SetterMoves DEF Weather!DropRequest, Weather!Ask
<1>6. QED
  BY <1>1, <1>2, <1>3, <1>4, <1>5

\* A full queue that loses its oldest event is as long as before; an event always
\* leaves something to see.
LEMMA Enqueued ==
    ASSUME NEW q \in Seq(Events), Len(q) <= Capacity, NEW e \in Events
    PROVE  LET r == Append(IF Len(q) = Capacity THEN Tail(q) ELSE q, e)
           IN  r \in Seq(Events) /\ Len(r) <= Capacity /\ r # <<>>
<1>1. CASE Len(q) = Capacity
  <2>1. q # <<>>
    BY <1>1, WeatherConstants
  <2>2. Tail(q) \in Seq(Events) /\ Len(Tail(q)) = Len(q) - 1
    BY <2>1
  <2>3. QED
    BY <1>1, <2>2, WeatherConstants
<1>2. CASE Len(q) # Capacity
  BY <1>2, WeatherConstants
<1>3. QED
  BY <1>1, <1>2

\* An announcement reaches every stream that is subscribed.
LEMMA PublishStep ==
    ASSUME WeatherInv, NEW a \in Handlers, Weather!Publish(a)
    PROVE  WeatherInv'
<1> USE DEF WeatherInv
<1> DEFINE q == [at |-> "idle", value |-> Nil]
           e == setter[a].value
           r(s) == Append(IF Len(queue[s]) = Capacity THEN Tail(queue[s]) ELSE queue[s], e)
<1>1. /\ setter' = [setter EXCEPT ![a] = q]
      /\ queue' = [s \in Streams |-> IF stream[s].at = "closed" THEN queue[s] ELSE r(s)]
      /\ lagged' = lagged \cup {s \in Streams : stream[s].at # "closed"
                                               /\ Len(queue[s]) = Capacity}
      /\ UNCHANGED <<active, weather, stream, silent>>
  BY DEF Weather!Publish, Weather!Ask
<1>2. q \in [at: {"idle", "set", "publish"}, value: Events] /\ q.at = "idle"
  BY DEF Events
<1> HIDE DEF q
<1>3. e \in Events
  BY DEF WeatherTypes
<1>4. \A s \in Streams : r(s) \in Seq(Events) /\ Len(r(s)) <= Capacity /\ r(s) # <<>>
  BY <1>3, Enqueued DEF WeatherTypes
<1> HIDE DEF e, r
<1>5. setter' \in [Handlers -> [at: {"idle", "set", "publish"}, value: Events]]
      /\ \A b \in Handlers : setter'[b].at = "set" => setter'[b].value \in Weathers
  BY <1>1, <1>2 DEF WeatherTypes
<1>6. /\ queue' \in [Streams -> Seq(Events)]
      /\ \A s \in Streams : Len(queue'[s]) <= Capacity
      /\ \A s \in Streams : stream[s].at # "closed" => queue'[s] # <<>>
      /\ \A s \in Streams : stream[s].at = "closed" => queue'[s] = queue[s]
  BY <1>1, <1>4 DEF WeatherTypes
<1>7. lagged' \subseteq Streams
      /\ \A s \in Streams : stream[s].at = "closed" => (s \in lagged' <=> s \in lagged)
  BY <1>1 DEF WeatherTypes
<1>8. WeatherTypes'
  BY <1>1, <1>5, <1>6, <1>7 DEF WeatherTypes
<1>9. Weather!StreamIsCurrent'
  BY <1>1, <1>6 DEF Weather!StreamIsCurrent
<1>10. QED
  BY <1>8, <1>9

\* The steps of a stream.
LEMMA StreamSteps ==
    ASSUME WeatherInv, NEW s \in Streams,
           \/ Weather!Open(s) \/ Weather!Read(s) \/ Weather!Receive(s)
           \/ Weather!Lagged(s) \/ Weather!Leave(s)
    PROVE  WeatherInv'
<1> USE DEF WeatherInv
<1>u. UNCHANGED <<active, weather, setter, silent>>
  BY DEF Weather!Open, Weather!Read, Weather!Receive, Weather!Lagged, Weather!Leave
<1>m. ASSUME NEW p \in StreamStates, NEW q \in Seq(Events), Len(q) <= Capacity,
             stream' = [stream EXCEPT ![s] = p], queue' = [queue EXCEPT ![s] = q],
             lagged' = lagged \/ lagged' = lagged \ {s},
             p.at = "closed" => q = <<>> /\ s \notin lagged',
             p.at = "open" => p.last = weather
      PROVE  WeatherInv'
  <2>1. /\ stream'[s] = p /\ queue'[s] = q
        /\ \A o \in Streams : o # s => /\ stream'[o] = stream[o] /\ queue'[o] = queue[o]
                                       /\ (o \in lagged' <=> o \in lagged)
    BY <1>m DEF WeatherTypes
  <2>2. /\ stream' \in [Streams -> StreamStates] /\ queue' \in [Streams -> Seq(Events)]
        /\ lagged' \subseteq Streams
    BY <1>m DEF WeatherTypes
  <2>3. WeatherTypes'
    BY <1>m, <1>u, <2>1, <2>2 DEF WeatherTypes
  <2>4. Weather!StreamIsCurrent'
    BY <1>m, <1>u, <2>1 DEF Weather!StreamIsCurrent
  <2>5. QED
    BY <2>3, <2>4
<1>t. /\ stream \in [Streams -> StreamStates] /\ stream[s] \in StreamStates
      /\ queue \in [Streams -> Seq(Events)] /\ queue[s] \in Seq(Events)
      /\ Len(queue[s]) <= Capacity /\ lagged \subseteq Streams
      /\ weather \in Weathers \cup {Nil}
  BY DEF WeatherTypes
<1>e. <<>> \in Seq(Events) /\ Len(<<>>) <= Capacity
  BY WeatherConstants
<1>c. ASSUME Weather!Close(s) PROVE WeatherInv'
  <2>1. Weather!Closed \in StreamStates /\ Weather!Closed.at = "closed"
    BY DEF Weather!Closed, StreamStates
  <2>2. /\ lagged' = lagged \ {s} /\ stream' = [stream EXCEPT ![s] = Weather!Closed]
        /\ queue' = [queue EXCEPT ![s] = <<>>]
    BY <1>c DEF Weather!Close
  <2>3. QED
    BY <1>e, <2>1, <2>2, <1>m
<1>1. CASE Weather!Open(s)
  <2> DEFINE p == [at |-> "read", last |-> Nil]
  <2>1. p \in StreamStates /\ p.at = "read"
    BY DEF StreamStates
  <2>2. /\ stream' = [stream EXCEPT ![s] = p]
        /\ queue' = [queue EXCEPT ![s] = queue[s]] /\ lagged' = lagged
    BY <1>1, <1>t DEF Weather!Open
  <2> HIDE DEF p
  <2>3. QED
    BY <2>1, <2>2, <1>m, <1>t
<1>2. CASE Weather!Read(s)
  <2>1. CASE active /\ weather # Nil
    <3> DEFINE p == [at |-> "open", last |-> weather]
    <3>1. p \in StreamStates /\ p.at = "open" /\ p.last = weather
      BY <1>t DEF StreamStates
    <3>2. /\ stream' = [stream EXCEPT ![s] = p]
          /\ queue' = [queue EXCEPT ![s] = queue[s]] /\ lagged' = lagged
      BY <1>2, <2>1, <1>t DEF Weather!Read
    <3> HIDE DEF p
    <3>3. QED
      BY <3>1, <3>2, <1>m, <1>t
  <2>2. CASE ~(active /\ weather # Nil)
    BY <1>2, <2>2, <1>c DEF Weather!Read
  <2>3. QED
    BY <2>1, <2>2
<1>3. CASE Weather!Receive(s)
  <2>1. CASE Head(queue[s]) = "Deactivated"
    BY <1>3, <2>1, <1>c DEF Weather!Receive
  <2>2. CASE Head(queue[s]) # "Deactivated"
    <3> DEFINE p == [stream[s] EXCEPT !.at = "read"]
    <3>1. p \in StreamStates /\ p.at = "read"
      BY <1>t DEF StreamStates
    <3>2. /\ stream' = [stream EXCEPT ![s] = p]
          /\ queue' = [queue EXCEPT ![s] = Tail(queue[s])] /\ lagged' = lagged
      BY <1>3, <2>2, <1>t DEF Weather!Receive
    <3> HIDE DEF p
    <3>3. Tail(queue[s]) \in Seq(Events) /\ Len(Tail(queue[s])) <= Capacity
      <4>1. queue[s] # <<>>
        BY <1>3 DEF Weather!Receive
      <4>2. QED
        BY <4>1, <1>t, WeatherConstants
    <3>4. QED
      BY <3>1, <3>2, <3>3, <1>m
  <2>3. QED
    BY <2>1, <2>2
<1>4. CASE Weather!Lagged(s)
  <2> DEFINE p == [stream[s] EXCEPT !.at = "read"]
  <2>1. p \in StreamStates /\ p.at = "read"
    BY <1>t DEF StreamStates
  <2>2. /\ stream' = [stream EXCEPT ![s] = p]
        /\ queue' = [queue EXCEPT ![s] = queue[s]] /\ lagged' = lagged \ {s}
    BY <1>4, <1>t DEF Weather!Lagged
  <2> HIDE DEF p
  <2>3. QED
    BY <2>1, <2>2, <1>m, <1>t
<1>5. CASE Weather!Leave(s)
  BY <1>5, <1>c DEF Weather!Leave
<1>6. QED
  BY <1>1, <1>2, <1>3, <1>4, <1>5

\* The invariant of the weather streams holds at the start and is kept.
LEMMA WeatherInit == Weather!Init => WeatherInv
<1> SUFFICES ASSUME Weather!Init PROVE WeatherInv
  OBVIOUS
<1>1. WeatherTypes
  <2>1. Weather!Resting \in [at: {"idle", "set", "publish"}, value: Events]
        /\ Weather!Resting.at = "idle"
    BY DEF Weather!Resting, Events
  <2>2. Weather!Closed \in StreamStates /\ Weather!Closed.at = "closed"
    BY DEF Weather!Closed, StreamStates
  <2>3. queue = [s \in Streams |-> <<>>] /\ <<>> \in Seq(Events) /\ Len(<<>>) <= Capacity
    BY WeatherConstants DEF Weather!Init
  <2>4. queue \in [Streams -> Seq(Events)] /\ \A s \in Streams : queue[s] = <<>>
    BY <2>3
  <2>5. QED
    BY <2>1, <2>2, <2>3, <2>4 DEF Weather!Init, WeatherTypes
<1>2. Weather!StreamIsCurrent
  BY DEF Weather!Init, Weather!Closed, Weather!StreamIsCurrent
<1>3. QED
  BY <1>1, <1>2 DEF WeatherInv

\* Every step of the setter, the channel and the streams.
LEMMA WeatherNext == WeatherInv /\ [Weather!Next]_weatherVars => WeatherInv'
<1> SUFFICES ASSUME WeatherInv, [Weather!Next]_weatherVars PROVE WeatherInv'
  OBVIOUS
<1>1. CASE UNCHANGED weatherVars
  BY <1>1 DEF weatherVars, WeatherInv, WeatherTypes, Weather!StreamIsCurrent
<1>2. QED
  BY <1>1, SetterSteps, PublishStep, StreamSteps DEF Weather!Next

\* The weather stream subscribes before its first read and reads again after a lag: an
\* open stream with no event left to see shows the weather of the runtime, unless the
\* change is still to be announced or never will be, for any number of streams and
\* administrators and any capacity of the channel.
THEOREM WeatherSound == Spec => []StreamIsCurrent
<1>1. Init => WeatherInv
  BY WeatherInit DEF Init
<1>2. WeatherInv /\ [Next]_vars => WeatherInv'
  BY WeatherNext DEF Next, vars
<1>3. WeatherInv => StreamIsCurrent
  BY DEF WeatherInv, WeatherTypes, Events, StreamIsCurrent, Weather!TypeOK
<1>4. QED
  BY <1>1, <1>2, <1>3, PTL DEF Spec

-----------------------------------------------------------------------------
(* The copy of a map. *)

Fetching == {"token", "meta", "stream", "create", "fill", "remove", "rename"}
MirrorCalls ==
    [at: {"idle", "ready", "look", "lock", "relook"} \cup Fetching, next: 1..5,
     got: 0..Blocks, ver: {Nil}, fd: {Nil}, wants: {Nil, "meta", "stream"}, again: BOOLEAN]

\* Every required file is there.
WholeMap(d) == \A f \in Mirror!Required : d[f] # Nil

\* The main file is fetched last of the required ones and only while it is missing.
\* So a request that has seen it has seen the map cached, and one that fetches an
\* earlier file takes nothing from a cached map.  Only the holder of the lock
\* fetches; what it renames is whole.
HandlerOK(h, c, lock, d, t) ==
    /\ c.at \in Fetching \cup {"relook"} => lock = h
    /\ c.at \in {"look", "relook"} =>
           c.next <= 4 /\ (c.next > 1 => d["main"] # Nil)
    /\ c.at = "lock" => c.next = 1
    /\ c.at = "ready" => WholeMap(d)
    /\ c.at \in Fetching =>
           /\ c.next > 1 => d["svg"] # Nil
           /\ c.next > 2 => d["json"] # Nil
           /\ c.next > 3 => d["minimap"] # Nil
           /\ c.next > 4 => d["main"] # Nil
           /\ c.next <= 4 => d["main"] = Nil
    /\ c.at = "token" => c.wants \in {"meta", "stream"}
    /\ c.at = "meta" \/ (c.at = "token" /\ c.wants = "meta") => c.next = 1
    /\ c.at \in {"remove", "rename"} => t[Mirror!Plan[c.next]] = Blocks

MirrorInv ==
    /\ disk \in [Mirror!Files -> {Nil, Blocks}]
    /\ disk["main"] # Nil => Mirror!Cached
    /\ tmp \in [Mirror!Files -> (0..Blocks) \cup {Nil}]
    /\ sync_lock \in Handlers \cup {Nil}
    /\ official \in 1..MaxCatalogue
    /\ {catalogue, catTmp} \subseteq (1..MaxCatalogue) \cup {Nil, Part}
    /\ call \in [Handlers -> MirrorCalls]
    /\ \A h \in Handlers : HandlerOK(h, call[h], sync_lock, disk, tmp)

\* What the constants are.
LEMMA MirrorConstants ==
    /\ Blocks \in Nat /\ Blocks # 0 /\ MaxCatalogue \in Nat /\ MaxCatalogue # 0
    /\ Nil \notin Handlers /\ Nil \notin 0..Blocks /\ Nil # Blocks
<1>1. /\ Blocks \in Nat \ {0} /\ MaxCatalogue \in Nat \ {0}
      /\ Nil \notin Handlers \cup (0..Blocks)
  BY Assumptions DEF Mirror!MirrorAssumption
<1>2. QED
  BY <1>1

\* The files, and the orders in which they are fetched and looked for.
LEMMA PlanIs ==
    /\ Len(Mirror!Plan) = 5 /\ Len(Mirror!CheckOrder) = 4
    /\ Mirror!Plan[1] = "svg" /\ Mirror!Plan[2] = "json" /\ Mirror!Plan[3] = "minimap"
    /\ Mirror!Plan[4] = "main" /\ Mirror!Plan[5] = "animation"
    /\ Mirror!CheckOrder[1] = "main" /\ Mirror!CheckOrder[2] = "json"
    /\ Mirror!CheckOrder[3] = "minimap" /\ Mirror!CheckOrder[4] = "svg"
    /\ Mirror!Files = {"svg", "json", "minimap", "main", "animation"}
    /\ Mirror!Required = {"main", "json", "minimap", "svg"}
    /\ \A n \in 1..5 : Mirror!Plan[n] \in Mirror!Files
<1>1. /\ Len(Mirror!Plan) = 5 /\ Len(Mirror!CheckOrder) = 4
      /\ Mirror!Plan[1] = "svg" /\ Mirror!Plan[2] = "json" /\ Mirror!Plan[3] = "minimap"
      /\ Mirror!Plan[4] = "main" /\ Mirror!Plan[5] = "animation"
      /\ Mirror!CheckOrder[1] = "main" /\ Mirror!CheckOrder[2] = "json"
      /\ Mirror!CheckOrder[3] = "minimap" /\ Mirror!CheckOrder[4] = "svg"
      /\ DOMAIN Mirror!Plan = 1..5 /\ DOMAIN Mirror!CheckOrder = 1..4
  BY DEF Mirror!Plan, Mirror!CheckOrder
<1>2. /\ \A n : n \in 1..5 <=> n \in {1, 2, 3, 4, 5}
      /\ \A n : n \in 1..4 <=> n \in {1, 2, 3, 4}
  OBVIOUS
<1>3. Mirror!Files = {"svg", "json", "minimap", "main", "animation"}
  <2>1. Mirror!Files = {Mirror!Plan[i] : i \in {1, 2, 3, 4, 5}}
    BY <1>1, <1>2 DEF Mirror!Files
  <2>2. QED
    BY <1>1, <2>1
<1>4. Mirror!Required = {"main", "json", "minimap", "svg"}
  <2>1. Mirror!Required = {Mirror!CheckOrder[i] : i \in {1, 2, 3, 4}}
    BY <1>1, <1>2 DEF Mirror!Required
  <2>2. QED
    BY <1>1, <2>1
<1>5. \A n \in 1..5 : Mirror!Plan[n] \in Mirror!Files
  BY <1>1, <1>2, <1>3
<1>6. QED
  BY <1>1, <1>3, <1>4, <1>5

\* What it takes for a map to be cached.
LEMMA CachedIs ==
    Mirror!Cached <=> /\ disk["main"] # Nil /\ disk["json"] # Nil
                      /\ disk["minimap"] # Nil /\ disk["svg"] # Nil
BY PlanIs DEF Mirror!Cached

\* A request that changes nothing on disk; it may take the lock or let it go.
LEMMA CallMoves ==
    ASSUME MirrorInv, NEW h \in Handlers, NEW c \in MirrorCalls,
           call' = [call EXCEPT ![h] = c], HandlerOK(h, c, sync_lock', disk', tmp'),
           UNCHANGED <<disk, tmp, official, catalogue, catTmp>>,
           \/ sync_lock' = sync_lock
           \/ sync_lock' = Mirror!Released(h)
           \/ sync_lock = Nil /\ sync_lock' = h
    PROVE  MirrorInv' /\ (Mirror!Cached => Mirror!Cached')
<1> USE DEF MirrorInv
<1>1. Mirror!Cached' <=> Mirror!Cached
  BY DEF Mirror!Cached
<1>2. ASSUME NEW g \in Handlers PROVE HandlerOK(g, call'[g], sync_lock', disk', tmp')
  <2>1. CASE g = h
    BY <2>1
  <2>2. CASE g # h
    <3>1. call'[g] = call[g] /\ HandlerOK(g, call[g], sync_lock, disk, tmp)
      BY <2>2
    <3>2. sync_lock = g => sync_lock' = g
      BY <2>2, MirrorConstants DEF Mirror!Released, Mirror!Holds
    <3>3. QED
      BY <1>1, <3>1, <3>2 DEF HandlerOK, WholeMap, Mirror!Cached
  <2>3. QED
    BY <2>1, <2>2
<1>3. sync_lock' \in Handlers \cup {Nil}
  BY DEF Mirror!Released
<1>4. QED
  BY <1>1, <1>2, <1>3

\* The holder of the lock changes the files, and takes none from a cached map.
LEMMA FetcherMoves ==
    ASSUME MirrorInv, NEW h \in Handlers, NEW c \in MirrorCalls, sync_lock = h,
           call' = [call EXCEPT ![h] = c], HandlerOK(h, c, sync_lock', disk', tmp'),
           sync_lock' = h \/ sync_lock' = Mirror!Released(h),
           disk' \in [Mirror!Files -> {Nil, Blocks}],
           tmp' \in [Mirror!Files -> (0..Blocks) \cup {Nil}],
           disk'["main"] # Nil => Mirror!Cached',
           disk["main"] # Nil => disk'["main"] # Nil,
           UNCHANGED <<official, catalogue, catTmp>>
    PROVE  MirrorInv' /\ (Mirror!Cached => Mirror!Cached')
<1> USE DEF MirrorInv
<1>1. Mirror!Cached => Mirror!Cached'
  BY CachedIs
<1>2. ASSUME NEW g \in Handlers PROVE HandlerOK(g, call'[g], sync_lock', disk', tmp')
  <2>1. CASE g = h
    BY <2>1
  <2>2. CASE g # h
    <3>1. call'[g] = call[g] /\ HandlerOK(g, call[g], sync_lock, disk, tmp) /\ call[g] \in MirrorCalls
      BY <2>2
    <3>2. call[g].at \notin Fetching \cup {"relook"}
      BY <2>2, <3>1 DEF HandlerOK, WholeMap, Mirror!Cached
    <3>3. QED
      BY <1>1, <3>1, <3>2 DEF HandlerOK, WholeMap, Mirror!Cached, Fetching
  <2>3. QED
    BY <2>1, <2>2
<1>3. sync_lock' \in Handlers \cup {Nil}
  BY DEF Mirror!Released
<1>4. QED
  BY <1>1, <1>2, <1>3

\* The record of a request that begins, and what a fresh record with other fields is.
LEMMA IdleIs ==
    /\ Mirror!Idle \in MirrorCalls /\ Mirror!Idle.at = "idle" /\ Mirror!Idle.next = 1
    /\ \A h, lock, d, t : HandlerOK(h, Mirror!Idle, lock, d, t)
BY MirrorConstants DEF Mirror!Idle, MirrorCalls, HandlerOK, Fetching

\* The record of a request that has just moved on from rest.
LEMMA FreshIs ==
    ASSUME NEW at \in {"ready", "look", "lock", "create"}
    PROVE  /\ [Mirror!Idle EXCEPT !.at = at] \in MirrorCalls
           /\ [Mirror!Idle EXCEPT !.at = at].at = at
           /\ [Mirror!Idle EXCEPT !.at = at].next = 1
BY IdleIs DEF MirrorCalls, Fetching

\* Requests that look for the files, take the lock, ask for a token or for the
\* small files, end or fail.
LEMMA LookSteps ==
    ASSUME MirrorInv, NEW h \in Handlers,
           \/ Mirror!Ensure(h) \/ Mirror!Look(h) \/ Mirror!Lock(h) \/ Mirror!Token(h)
           \/ Mirror!Refused(h) \/ Mirror!SyncMeta(h) \/ Mirror!Answered(h) \/ Mirror!Fail(h)
    PROVE  MirrorInv' /\ (Mirror!Cached => Mirror!Cached')
<1> USE DEF MirrorInv
<1> DEFINE c == call[h]
<1>u. UNCHANGED <<disk, tmp, official, catalogue, catTmp>>
  BY DEF Mirror!Ensure, Mirror!Look, Mirror!Lock, Mirror!Token, Mirror!Refused,
         Mirror!SyncMeta, Mirror!Answered, Mirror!Fail, Mirror!mirror, Mirror!listing
<1>p. Mirror!Cached' <=> Mirror!Cached
  BY <1>u DEF Mirror!Cached
<1>t. c \in MirrorCalls /\ HandlerOK(h, c, sync_lock, disk, tmp) /\ call \in [Handlers -> MirrorCalls]
  OBVIOUS
<1>1. CASE Mirror!Ensure(h)
  <2> DEFINE at == IF Mirror!Cached THEN "ready" ELSE "look"
             q == [Mirror!Idle EXCEPT !.at = at]
  <2>1. q \in MirrorCalls /\ q.at = at /\ q.next = 1
    BY FreshIs
  <2>2. call' = [call EXCEPT ![h] = q] /\ UNCHANGED sync_lock
    BY <1>1, <1>t DEF Mirror!Ensure, Mirror!Go, Mirror!mirror
  <2> HIDE DEF q
  <2>3. HandlerOK(h, q, sync_lock', disk', tmp')
    BY <2>1, <1>p DEF HandlerOK, WholeMap, Mirror!Cached, Fetching
  <2>4. QED
    BY <2>1, <2>2, <2>3, <1>u, CallMoves
<1>2. CASE Mirror!Look(h)
  <2> DEFINE f == Mirror!CheckOrder[c.next]
  <2>1. /\ c.at \in {"look", "relook"} /\ c.next \in 1..4
        /\ c.next > 1 => disk["main"] # Nil
        /\ c.at = "relook" => sync_lock = h
    BY <1>2, <1>t DEF Mirror!Look, HandlerOK, MirrorCalls, Fetching
  <2>2. c.next > 1 => Mirror!Cached
    BY <2>1
  <2>3. c.next = 1 => f = "main"
    BY PlanIs
  <2>4. f \in Mirror!Required
    BY <2>1, PlanIs
  <2>5. CASE disk[f] = Nil
    <3>1. c.next = 1 /\ disk["main"] = Nil
      BY <2>1, <2>2, <2>3, <2>4, <2>5 DEF Mirror!Cached
    <3>2. CASE c.at = "look"
      <4> DEFINE q == [Mirror!Idle EXCEPT !.at = "lock"]
      <4>1. q \in MirrorCalls /\ q.at = "lock" /\ q.next = 1
        BY FreshIs
      <4>2. call' = [call EXCEPT ![h] = q] /\ UNCHANGED sync_lock
        BY <1>2, <2>5, <3>2 DEF Mirror!Look, Mirror!Become
      <4> HIDE DEF q
      <4>3. HandlerOK(h, q, sync_lock', disk', tmp')
        BY <4>1 DEF HandlerOK, WholeMap, Mirror!Cached, Fetching
      <4>4. QED
        BY <4>1, <4>2, <4>3, <1>u, CallMoves
    <3>3. CASE c.at = "relook"
      <4> DEFINE q == [Mirror!Idle EXCEPT !.at = "token", !.wants = "meta"]
      <4>1. q \in MirrorCalls /\ q.at = "token" /\ q.next = 1 /\ q.wants = "meta"
        BY IdleIs DEF MirrorCalls, Fetching
      <4>2. call' = [call EXCEPT ![h] = q] /\ UNCHANGED sync_lock
        BY <1>2, <2>5, <3>3 DEF Mirror!Look, Mirror!Become
      <4> HIDE DEF q
      <4>3. HandlerOK(h, q, sync_lock', disk', tmp')
        BY <4>1, <4>2, <3>1, <3>3, <2>1, <1>u DEF HandlerOK, WholeMap, Mirror!Cached, Fetching
      <4>4. QED
        BY <4>1, <4>2, <4>3, <1>u, CallMoves
    <3>4. QED
      BY <2>1, <3>2, <3>3
  <2>6. CASE disk[f] # Nil /\ c.next < 4
    <3> DEFINE q == [c EXCEPT !.next = c.next + 1]
    <3>1. q \in MirrorCalls /\ q.at = c.at /\ q.next = c.next + 1
      BY <1>t, <2>1, <2>6 DEF MirrorCalls
    <3>2. call' = [call EXCEPT ![h] = q] /\ UNCHANGED sync_lock
      BY <1>2, <2>6, PlanIs DEF Mirror!Look, Mirror!Become
    <3> HIDE DEF q
    <3>3. disk["main"] # Nil
      BY <2>1, <2>3, <2>6
    <3>4. HandlerOK(h, q, sync_lock', disk', tmp')
      BY <3>1, <3>2, <3>3, <2>1, <2>6, <1>u DEF HandlerOK, WholeMap, Mirror!Cached, Fetching
    <3>5. QED
      BY <3>1, <3>2, <3>4, <1>u, CallMoves
  <2>7. CASE disk[f] # Nil /\ c.next >= 4
    <3> DEFINE q == [Mirror!Idle EXCEPT !.at = "ready"]
    <3>1. q \in MirrorCalls /\ q.at = "ready"
      BY FreshIs
    <3>2. call' = [call EXCEPT ![h] = q] /\ sync_lock' = Mirror!Released(h)
      BY <1>2, <2>1, <2>7, PlanIs DEF Mirror!Look, Mirror!Become
    <3> HIDE DEF q
    <3>3. HandlerOK(h, q, sync_lock', disk', tmp')
      BY <3>1, <2>1, <2>2, <2>7, <1>p DEF HandlerOK, WholeMap, Mirror!Cached, Fetching
    <3>4. QED
      BY <3>1, <3>2, <3>3, <1>u, CallMoves
  <2>8. QED
    BY <2>1, <2>5, <2>6, <2>7
<1>3. CASE Mirror!Lock(h)
  <2> DEFINE q == [c EXCEPT !.at = "relook"]
  <2>c. c.at = "lock" /\ c.next = 1
    BY <1>3, <1>t DEF Mirror!Lock, HandlerOK
  <2>1. q \in MirrorCalls /\ q.at = "relook" /\ q.next = 1
    BY <1>t, <2>c DEF MirrorCalls
  <2>2. call' = [call EXCEPT ![h] = q] /\ sync_lock = Nil /\ sync_lock' = h
    BY <1>3, <1>t DEF Mirror!Lock, Mirror!Go
  <2> HIDE DEF q
  <2>3. HandlerOK(h, q, sync_lock', disk', tmp')
    BY <2>1, <2>2, <1>u DEF HandlerOK, WholeMap, Mirror!Cached, Fetching
  <2>4. QED
    BY <2>1, <2>2, <2>3, <1>u, CallMoves
<1>4. CASE Mirror!Token(h)
  <2> DEFINE q == [c EXCEPT !.at = c.wants]
  <2>1. c.at = "token" /\ c.wants \in {"meta", "stream"}
    BY <1>4, <1>t DEF Mirror!Token, HandlerOK
  <2>2. q \in MirrorCalls /\ q.at = c.wants /\ q.next = c.next
    BY <1>t, <2>1 DEF MirrorCalls, Fetching
  <2>3. call' = [call EXCEPT ![h] = q] /\ UNCHANGED sync_lock
    BY <1>4, <1>t DEF Mirror!Token, Mirror!Go, Mirror!mirror
  <2> HIDE DEF q
  <2>4. HandlerOK(h, q, sync_lock', disk', tmp')
    BY <2>1, <2>2, <2>3, <1>t, <1>u DEF HandlerOK, WholeMap, Mirror!Cached, Fetching
  <2>5. QED
    BY <2>2, <2>3, <2>4, <1>u, CallMoves
<1>5. CASE Mirror!Refused(h)
  <2>b. PICK yes \in BOOLEAN : yes = TRUE
    OBVIOUS
  <2> DEFINE q == [c EXCEPT !.at = "token", !.wants = c.at, !.again = yes]
  <2>1. c.at \in {"meta", "stream"}
    BY <1>5, <1>t DEF Mirror!Refused, MirrorCalls, Fetching
  <2>2. q \in MirrorCalls /\ q.at = "token" /\ q.wants = c.at /\ q.next = c.next
    BY <1>t, <2>1 DEF MirrorCalls, Fetching
  <2>3. call' = [call EXCEPT ![h] = q] /\ UNCHANGED sync_lock
    BY <1>5, <2>b DEF Mirror!Refused, Mirror!Become, Mirror!mirror
  <2> HIDE DEF q
  <2>4. HandlerOK(h, q, sync_lock', disk', tmp')
    BY <2>1, <2>2, <2>3, <1>t, <1>u DEF HandlerOK, WholeMap, Mirror!Cached, Fetching
  <2>5. QED
    BY <2>2, <2>3, <2>4, <1>u, CallMoves
<1>6. CASE Mirror!SyncMeta(h)
  <2> DEFINE q == [Mirror!Idle EXCEPT !.at = "create"]
  <2>1. q \in MirrorCalls /\ q.at = "create" /\ q.next = 1
    BY FreshIs
  <2>2. call' = [call EXCEPT ![h] = q] /\ UNCHANGED sync_lock
    BY <1>6 DEF Mirror!SyncMeta, Mirror!Become, Mirror!mirror
  <2> HIDE DEF q
  <2>3. c.at = "meta" /\ c.next = 1
    BY <1>6, <1>t DEF Mirror!SyncMeta, HandlerOK
  <2>4. HandlerOK(h, q, sync_lock', disk', tmp')
    BY <2>1, <2>2, <2>3, <1>t, <1>u DEF HandlerOK, WholeMap, Mirror!Cached, Fetching
  <2>5. QED
    BY <2>1, <2>2, <2>4, <1>u, CallMoves
<1>7. CASE Mirror!Answered(h)
  BY <1>7, <1>u, IdleIs, CallMoves DEF Mirror!Answered, Mirror!Become, Mirror!mirror
<1>8. CASE Mirror!Fail(h)
  BY <1>8, <1>u, IdleIs, CallMoves DEF Mirror!Fail, Mirror!Become
<1>9. QED
  BY <1>1, <1>2, <1>3, <1>4, <1>5, <1>6, <1>7, <1>8

\* The holder of the lock creates, fills, removes and renames the files.
LEMMA FetchSteps ==
    ASSUME MirrorInv, NEW h \in Handlers,
           \/ Mirror!GlbAnswer(h) \/ Mirror!Create(h) \/ Mirror!Fill(h)
           \/ Mirror!RemoveOld(h) \/ Mirror!Rename(h)
    PROVE  MirrorInv' /\ (Mirror!Cached => Mirror!Cached')
<1> USE DEF MirrorInv
<1> DEFINE c == call[h]
           f == Mirror!Plan[c.next]
<1>u. UNCHANGED <<official, catalogue, catTmp>>
  BY DEF Mirror!GlbAnswer, Mirror!Create, Mirror!Fill, Mirror!RemoveOld, Mirror!Rename,
         Mirror!listing
<1>t. c \in MirrorCalls /\ HandlerOK(h, c, sync_lock, disk, tmp)
      /\ call \in [Handlers -> MirrorCalls]
  OBVIOUS
<1>a. c.at \in {"stream", "create", "fill", "remove", "rename"} /\ c.next \in 1..5
  BY <1>t DEF Mirror!GlbAnswer, Mirror!Create, Mirror!Fill, Mirror!RemoveOld, Mirror!Rename,
              MirrorCalls
<1>l. sync_lock = h
  BY <1>a, <1>t DEF HandlerOK, Fetching
<1>f. /\ f \in Mirror!Files
      /\ c.next = 1 => f = "svg"
      /\ c.next = 2 => f = "json"
      /\ c.next = 3 => f = "minimap"
      /\ c.next = 4 => f = "main"
      /\ c.next = 5 => f = "animation"
  BY <1>a, PlanIs
<1>d. /\ c.next > 1 => disk["svg"] # Nil
      /\ c.next > 2 => disk["json"] # Nil
      /\ c.next > 3 => disk["minimap"] # Nil
      /\ c.next > 4 => disk["main"] # Nil
      /\ c.next <= 4 => disk["main"] = Nil
  BY <1>a, <1>t DEF HandlerOK, Fetching
<1>n. c.next = 1 \/ c.next = 2 \/ c.next = 3 \/ c.next = 4 \/ c.next = 5
  BY <1>a
<1> HIDE DEF f
<1>1. CASE Mirror!GlbAnswer(h)
  <2>0. UNCHANGED <<disk, tmp>> /\ c.at = "stream"
    BY <1>1 DEF Mirror!GlbAnswer
  <2>1. CASE f = "animation" /\ ~animated
    <3> DEFINE q == [Mirror!Idle EXCEPT !.at = "ready"]
    <3>1. q \in MirrorCalls /\ q.at = "ready"
      BY FreshIs
    <3>2. call' = [call EXCEPT ![h] = q] /\ sync_lock' = Mirror!Released(h)
      BY <1>1, <2>1 DEF Mirror!GlbAnswer, Mirror!Become, f
    <3> HIDE DEF q
    <3>3. Mirror!Cached
      BY <1>d, <1>f, <1>n, <2>1, CachedIs
    <3>4. HandlerOK(h, q, sync_lock', disk', tmp')
      BY <3>1, <3>3, <2>0 DEF HandlerOK, WholeMap, Mirror!Cached, Fetching
    <3>5. QED
      BY <3>1, <3>2, <3>4, <1>u, <2>0, CallMoves
  <2>2. CASE ~(f = "animation" /\ ~animated)
    <3>b. PICK no \in BOOLEAN : no = FALSE
      OBVIOUS
    <3> DEFINE q == [c EXCEPT !.at = "create", !.again = no]
    <3>1. q \in MirrorCalls /\ q.at = "create" /\ q.next = c.next
      BY <1>t DEF MirrorCalls, Fetching
    <3>2. call' = [call EXCEPT ![h] = q] /\ sync_lock' = sync_lock
      BY <1>1, <2>2, <3>b DEF Mirror!GlbAnswer, Mirror!Become, f
    <3> HIDE DEF q
    <3>3. HandlerOK(h, q, sync_lock', disk', tmp')
      BY <3>1, <3>2, <1>d, <1>l, <2>0 DEF HandlerOK, Fetching
    <3>4. QED
      BY <3>1, <3>2, <3>3, <1>u, <2>0, CallMoves
  <2>3. QED
    BY <2>1, <2>2
<1>2. CASE Mirror!Create(h)
  <2>0. PICK none \in 0..Blocks : none = 0
    BY MirrorConstants
  <2> DEFINE q == [c EXCEPT !.at = "fill", !.got = none]
  <2>1. q \in MirrorCalls /\ q.at = "fill" /\ q.next = c.next
    BY <1>t DEF MirrorCalls, Fetching
  <2>2. call' = [call EXCEPT ![h] = q] /\ sync_lock' = h /\ disk' = disk
        /\ tmp' = [tmp EXCEPT ![f] = 0]
    BY <1>2, <1>l, <2>0 DEF Mirror!Create, Mirror!Become, f
  <2> HIDE DEF q
  <2>3. HandlerOK(h, q, sync_lock', disk', tmp')
    BY <2>1, <2>2, <1>d DEF HandlerOK, Fetching
  <2>4. tmp' \in [Mirror!Files -> (0..Blocks) \cup {Nil}]
    BY <2>2, <1>f, MirrorConstants
  <2>5. Mirror!Cached' <=> Mirror!Cached
    BY <2>2 DEF Mirror!Cached
  <2>6. QED
    BY <2>1, <2>2, <2>3, <2>4, <2>5, <1>l, <1>u, FetcherMoves
<1>3. CASE Mirror!Fill(h)
  <2>0. c.got \in 0..Blocks
    BY <1>t DEF MirrorCalls
  <2>1. PICK n \in 1 .. Blocks - c.got :
           LET got == IF f \in Mirror!Glb THEN c.got + n ELSE Blocks IN
           /\ tmp' = [tmp EXCEPT ![f] = got]
           /\ call' = [call EXCEPT ![h] =
                 [c EXCEPT !.got = got, !.at = IF got = Blocks THEN "remove" ELSE "fill"]]
    BY <1>3 DEF Mirror!Fill, Mirror!Become, f
  <2>2. PICK got \in 0..Blocks : got = IF f \in Mirror!Glb THEN c.got + n ELSE Blocks
    BY <2>0, MirrorConstants
  <2> DEFINE at == IF got = Blocks THEN "remove" ELSE "fill"
             q == [c EXCEPT !.got = got, !.at = at]
  <2>3. q \in MirrorCalls /\ q.at = at /\ q.next = c.next
    BY <1>t DEF MirrorCalls, Fetching
  <2>4. call' = [call EXCEPT ![h] = q] /\ sync_lock' = h /\ disk' = disk
        /\ tmp' = [tmp EXCEPT ![f] = got]
    BY <1>3, <1>l, <2>1, <2>2 DEF Mirror!Fill
  <2> HIDE DEF q
  <2>5. tmp' \in [Mirror!Files -> (0..Blocks) \cup {Nil}] /\ tmp'[f] = got
    BY <2>4, <1>f
  <2>6. HandlerOK(h, q, sync_lock', disk', tmp')
    BY <2>3, <2>4, <2>5, <1>d DEF HandlerOK, Fetching, f
  <2>7. Mirror!Cached' <=> Mirror!Cached
    BY <2>4 DEF Mirror!Cached
  <2>8. QED
    BY <2>3, <2>4, <2>5, <2>6, <2>7, <1>l, <1>u, FetcherMoves
<1>4. CASE Mirror!RemoveOld(h)
  <2> DEFINE q == [c EXCEPT !.at = "rename"]
  <2>1. q \in MirrorCalls /\ q.at = "rename" /\ q.next = c.next
    BY <1>t DEF MirrorCalls, Fetching
  <2>2. call' = [call EXCEPT ![h] = q] /\ sync_lock' = h /\ tmp' = tmp
        /\ disk' = [disk EXCEPT ![f] = Nil] /\ c.at = "remove"
    BY <1>4, <1>l, <1>t DEF Mirror!RemoveOld, Mirror!Go, f
  <2> HIDE DEF q
  <2>3. disk' \in [Mirror!Files -> {Nil, Blocks}] /\ disk'[f] = Nil
        /\ \A g \in Mirror!Files : g # f => disk'[g] = disk[g]
    BY <2>2, <1>f
  <2>4. /\ disk'["main"] = disk["main"]
        /\ c.next > 1 => disk'["svg"] # Nil
        /\ c.next > 2 => disk'["json"] # Nil
        /\ c.next > 3 => disk'["minimap"] # Nil
    BY <2>3, <1>d, <1>f, <1>n, PlanIs
  <2>5. tmp[f] = Blocks
    BY <2>2, <1>t DEF HandlerOK, f
  <2>6. HandlerOK(h, q, sync_lock', disk', tmp')
    BY <2>1, <2>2, <2>4, <2>5, <1>d DEF HandlerOK, Fetching, f
  <2>7. disk'["main"] # Nil => Mirror!Cached'
    <3>1. SUFFICES ASSUME disk'["main"] # Nil PROVE Mirror!Cached'
      OBVIOUS
    <3>2. c.next = 5 /\ f = "animation"
      BY <3>1, <2>4, <1>d, <1>f, <1>n
    <3>3. Mirror!Cached /\ "animation" \notin Mirror!Required /\ Mirror!Required \subseteq Mirror!Files
      BY <3>1, <2>4, PlanIs
    <3>4. QED
      BY <3>2, <3>3, <2>3 DEF Mirror!Cached
  <2>8. QED
    BY <2>1, <2>2, <2>3, <2>4, <2>6, <2>7, <1>l, <1>u, FetcherMoves
<1>5. CASE Mirror!Rename(h)
  <2>1. c.at = "rename" /\ tmp[f] = Blocks
    BY <1>5, <1>t DEF Mirror!Rename, HandlerOK, f
  <2>2. disk' = [disk EXCEPT ![f] = Blocks] /\ tmp' = [tmp EXCEPT ![f] = Nil]
    BY <1>5, <2>1 DEF Mirror!Rename, f
  <2>3. disk' \in [Mirror!Files -> {Nil, Blocks}] /\ disk'[f] # Nil
        /\ tmp' \in [Mirror!Files -> (0..Blocks) \cup {Nil}]
        /\ \A g \in Mirror!Files : g # f => disk'[g] = disk[g]
    BY <2>2, <1>f, MirrorConstants
  <2>4. /\ disk'["svg"] # Nil
        /\ c.next > 1 => disk'["json"] # Nil
        /\ c.next > 2 => disk'["minimap"] # Nil
        /\ c.next > 3 => disk'["main"] # Nil
        /\ c.next < 4 => disk'["main"] = Nil
    BY <2>3, <1>d, <1>f, <1>n, PlanIs
  <2>5. disk'["main"] # Nil => Mirror!Cached'
    <3>1. disk'["main"] # Nil => c.next > 3
      BY <1>a, <2>4
    <3>2. c.next > 3 => c.next > 2 /\ c.next > 1
      BY <1>a
    <3>3. \A g \in Mirror!Required : g \in {"main", "json", "minimap", "svg"}
      BY PlanIs
    <3>4. QED
      BY <3>1, <3>2, <3>3, <2>4 DEF Mirror!Cached
  <2>6. disk["main"] # Nil => disk'["main"] # Nil
    BY <2>3, PlanIs
  <2>7. CASE c.next = 5
    <3> DEFINE q == [Mirror!Idle EXCEPT !.at = "ready"]
    <3>1. q \in MirrorCalls /\ q.at = "ready"
      BY FreshIs
    <3>2. call' = [call EXCEPT ![h] = q] /\ sync_lock' = Mirror!Released(h)
      BY <1>5, <2>7, PlanIs DEF Mirror!Rename, Mirror!Become
    <3> HIDE DEF q
    <3>3. HandlerOK(h, q, sync_lock', disk', tmp')
      BY <3>1, <2>4, <2>5, <2>7 DEF HandlerOK, WholeMap, Mirror!Cached, Fetching
    <3>4. QED
      BY <3>1, <3>2, <3>3, <2>3, <2>5, <2>6, <1>l, <1>u, FetcherMoves
  <2>8. CASE c.next < 5 /\ Mirror!Plan[c.next + 1] \in Mirror!Glb
    <3>0. PICK n \in 1..5 : n = c.next + 1
      BY <1>a, <2>8
    <3> DEFINE q == [Mirror!Idle EXCEPT !.next = n, !.at = "token", !.wants = "stream"]
    <3>1. q \in MirrorCalls /\ q.at = "token" /\ q.next = n /\ q.wants = "stream"
      BY IdleIs DEF MirrorCalls, Fetching
    <3>2. call' = [call EXCEPT ![h] = q] /\ sync_lock' = h
      BY <1>5, <1>l, <1>a, <2>8, <3>0, PlanIs DEF Mirror!Rename, Mirror!Become
    <3> HIDE DEF q
    <3>3. HandlerOK(h, q, sync_lock', disk', tmp')
      BY <3>0, <3>1, <3>2, <2>4, <2>8, <1>a DEF HandlerOK, Fetching
    <3>4. QED
      BY <3>1, <3>2, <3>3, <2>3, <2>5, <2>6, <1>l, <1>u, FetcherMoves
  <2>9. CASE c.next < 5 /\ Mirror!Plan[c.next + 1] \notin Mirror!Glb
    <3>0. PICK n \in 1..5 : n = c.next + 1
      BY <1>a, <2>9
    <3> DEFINE q == [Mirror!Idle EXCEPT !.next = n, !.at = "create"]
    <3>1. q \in MirrorCalls /\ q.at = "create" /\ q.next = n
      BY IdleIs DEF MirrorCalls, Fetching
    <3>2. call' = [call EXCEPT ![h] = q] /\ sync_lock' = h
      BY <1>5, <1>l, <1>a, <2>9, <3>0, PlanIs DEF Mirror!Rename, Mirror!Become
    <3> HIDE DEF q
    <3>3. HandlerOK(h, q, sync_lock', disk', tmp')
      BY <3>0, <3>1, <3>2, <2>4, <2>9, <1>a DEF HandlerOK, Fetching
    <3>4. QED
      BY <3>1, <3>2, <3>3, <2>3, <2>5, <2>6, <1>l, <1>u, FetcherMoves
  <2>10. QED
    BY <1>a, <2>7, <2>8, <2>9
<1>6. QED
  BY <1>1, <1>2, <1>3, <1>4, <1>5

\* The backend is killed, or the official one publishes.
LEMMA MirrorEnvironment ==
    ASSUME MirrorInv, Mirror!Kill \/ Mirror!Publish
    PROVE  MirrorInv' /\ (Mirror!Cached => Mirror!Cached')
<1> USE DEF MirrorInv
<1>1. CASE Mirror!Kill
  <2>1. /\ UNCHANGED <<disk, tmp, official, catalogue, catTmp>> /\ sync_lock' = Nil
        /\ call' = [h \in Handlers |-> Mirror!Idle]
    BY <1>1 DEF Mirror!Kill, Mirror!listing
  <2>2. Mirror!Cached' <=> Mirror!Cached
    BY <2>1 DEF Mirror!Cached
  <2>3. QED
    BY <2>1, <2>2, IdleIs
<1>2. CASE Mirror!Publish
  <2>1. UNCHANGED <<disk, tmp, sync_lock, call, catalogue, catTmp>> /\ official' \in 1..MaxCatalogue
    BY <1>2, MirrorConstants DEF Mirror!Publish, Mirror!mirror
  <2>2. Mirror!Cached' <=> Mirror!Cached
    BY <2>1 DEF Mirror!Cached
  <2>3. QED
    BY <2>1, <2>2
<1>3. QED
  BY <1>1, <1>2

\* Where no catalogue is asked for, none is fetched.
LEMMA NoListing ==
    ASSUME MirrorInv, NEW h \in Handlers
    PROVE  ~ \/ Mirror!List(h) \/ Mirror!Listed(h) \/ Mirror!CatCreate(h) \/ Mirror!CatFill(h)
             \/ Mirror!CatRemove(h) \/ Mirror!CatRename(h) \/ Mirror!CatRead(h)
<1>1. call[h] \in MirrorCalls
  BY DEF MirrorInv
<1>2. call[h].at \notin {"list", "catCreate", "catFill", "catRemove", "catRename"}
  BY <1>1 DEF MirrorCalls, Fetching
<1>3. QED
  BY <1>2 DEF Mirror!List, Mirror!Listed, Mirror!CatCreate, Mirror!CatFill,
              Mirror!CatRemove, Mirror!CatRename, Mirror!CatRead

\* Every step keeps the invariant and the files of a cached map.
LEMMA MirrorNext ==
    ASSUME MirrorInv, Mirror!Next
    PROVE  MirrorInv' /\ (Mirror!Cached => Mirror!Cached')
BY LookSteps, FetchSteps, MirrorEnvironment, NoListing DEF Mirror!Next

\* A step of another part.
LEMMA MirrorRests ==
    ASSUME MirrorInv, UNCHANGED mirrorVars
    PROVE  MirrorInv' /\ (Mirror!Cached => Mirror!Cached')
BY DEF MirrorInv, mirrorVars, Mirror!Cached

\* The files of the map are missing at first.
LEMMA MirrorInit == Mirror!Init => MirrorInv
<1>1. SUFFICES ASSUME Mirror!Init PROVE MirrorInv
  OBVIOUS
<1>2. disk \in [Mirror!Files -> {Nil, Blocks}] /\ disk["main"] = Nil
      /\ tmp \in [Mirror!Files -> (0..Blocks) \cup {Nil}]
  BY <1>1, PlanIs DEF Mirror!Init
<1>3. call \in [Handlers -> MirrorCalls] /\ \A h \in Handlers : call[h] = Mirror!Idle
  BY <1>1, IdleIs DEF Mirror!Init
<1>4. sync_lock = Nil /\ official \in 1..MaxCatalogue /\ catalogue = Nil /\ catTmp = Nil
  BY <1>1, MirrorConstants DEF Mirror!Init
<1>5. QED
  BY <1>2, <1>3, <1>4, IdleIs DEF MirrorInv

\* The invariant holds the whole time the mirror runs.
LEMMA MirrorInvariance == Spec => [](runs = "mirror" => MirrorInv)
<1>1. Init => (runs = "mirror" => MirrorInv)
  BY MirrorInit DEF Init
<1>2. (runs = "mirror" => MirrorInv) /\ [Next]_vars => (runs = "mirror" => MirrorInv)'
  BY MirrorNext, MirrorRests DEF Next, vars
<1>3. QED
  BY <1>1, <1>2, PTL DEF Spec

\* required_files_exist, ensure_map_cached: a request told that the map is cached
\* finds every required file whole, for any number of requests and any size.
THEOREM MapIsWhole == Spec => []ReadyIsWhole
<1>1. (runs = "mirror" => MirrorInv) => ReadyIsWhole
  <2>1. SUFFICES ASSUME MirrorInv PROVE Mirror!TypeOK /\ Mirror!ReadyIsWhole
    BY DEF ReadyIsWhole
  <2>2. Mirror!TypeOK
    <3>1. disk \in [Mirror!Files -> (0..Blocks) \cup {Nil}]
      BY <2>1, MirrorConstants DEF MirrorInv
    <3>2. QED
      BY <2>1, <3>1 DEF MirrorInv, Mirror!TypeOK
  <2>3. ASSUME NEW h \in Handlers, call[h].at = "ready", NEW f \in Mirror!Required
        PROVE  disk[f] = Blocks
    <3>1. disk[f] # Nil
      BY <2>1, <2>3 DEF MirrorInv, HandlerOK, WholeMap
    <3>2. f \in Mirror!Files
      BY <2>3, PlanIs
    <3>3. QED
      BY <2>1, <3>1, <3>2 DEF MirrorInv
  <2>4. QED
    BY <2>2, <2>3 DEF Mirror!ReadyIsWhole
<1>2. QED
  BY <1>1, MirrorInvariance, PTL

\* sync_lock and the second look under it: the files of a cached map are never taken
\* away again, whoever else asks for it and whatever fails.
THEOREM CachedMapStays == Spec => CachedStays
<1>1. /\ runs = "mirror" => MirrorInv
      /\ [Next]_vars
      => [runs = "mirror" /\ Mirror!Cached => Mirror!Cached']_vars
  BY MirrorNext, MirrorRests DEF Next, vars
<1>2. QED
  BY <1>1, MirrorInvariance, PTL DEF Spec, CachedStays

-----------------------------------------------------------------------------
(* The catalogue of the official maps. *)

Writing == {"catCreate", "catFill", "catRemove", "catRename"}
ListCalls ==
    [at: {"idle", "token", "list", "answered"} \cup Writing, next: {1}, got: {0},
     ver: (1..MaxCatalogue) \cup {Nil}, fd: {Nil, "tmp", "final", "gone"},
     wants: {Nil, "list"}, again: BOOLEAN]

\* A request that has a catalogue to write or to answer has one that was served;
\* so is what stands whole in the file or in the temporary one.
ListerOK(c, served) ==
    /\ c.at \in Writing \cup {"answered"} => c.ver \in 1..served
    /\ c.at = "token" => c.wants = "list"

Served(v, served) == v \in (1..served) \cup {Nil, Part}

CatalogueInv ==
    /\ disk \in [Catalogue!Files -> (0..Blocks) \cup {Nil}]
    /\ tmp \in [Catalogue!Files -> (0..Blocks) \cup {Nil}]
    /\ sync_lock \in Handlers \cup {Nil}
    /\ official \in 1..MaxCatalogue
    /\ Served(catalogue, official) /\ Served(catTmp, official)
    /\ call \in [Handlers -> ListCalls]
    /\ \A h \in Handlers : ListerOK(call[h], official)

\* The constants of the catalogue, and its idle request.
LEMMA CatalogueConstants ==
    /\ Blocks \in Nat /\ MaxCatalogue \in Nat /\ MaxCatalogue # 0
    /\ Catalogue!Idle \in ListCalls /\ Catalogue!Idle.at = "idle"
    /\ \A n : ListerOK(Catalogue!Idle, n)
<1>1. Blocks \in Nat /\ MaxCatalogue \in Nat /\ MaxCatalogue # 0
  BY Assumptions DEF Mirror!MirrorAssumption
<1>2. QED
  BY <1>1 DEF Catalogue!Idle, ListCalls, ListerOK, Writing

\* A request that moves and may change the two files of the catalogue.
LEMMA ListerMoves ==
    ASSUME CatalogueInv, NEW h \in Handlers, NEW c \in ListCalls,
           call' = [call EXCEPT ![h] = c], ListerOK(c, official),
           Served(catalogue', official), Served(catTmp', official),
           sync_lock' \in Handlers \cup {Nil}, UNCHANGED <<disk, tmp, official>>
    PROVE  CatalogueInv'
<1>1. call' \in [Handlers -> ListCalls] /\ \A g \in Handlers : ListerOK(call'[g], official)
  BY DEF CatalogueInv
<1>2. QED
  BY <1>1 DEF CatalogueInv

\* Requests that ask, are answered, end or fail.
LEMMA AskingSteps ==
    ASSUME CatalogueInv, NEW h \in Handlers,
           \/ Catalogue!List(h) \/ Catalogue!Token(h) \/ Catalogue!Refused(h)
           \/ Catalogue!Listed(h) \/ Catalogue!CatRead(h) \/ Catalogue!Answered(h)
           \/ Catalogue!Fail(h)
    PROVE  CatalogueInv'
<1> USE CatalogueConstants DEF Writing, Catalogue!mirror, Catalogue!listing
<1> DEFINE c == call[h]
<1>t. /\ c \in ListCalls /\ ListerOK(c, official) /\ call \in [Handlers -> ListCalls]
      /\ official \in 1..MaxCatalogue
      /\ Served(catalogue, official) /\ Served(catTmp, official)
      /\ sync_lock \in Handlers \cup {Nil}
  BY DEF CatalogueInv
<1>1. CASE Catalogue!List(h)
  <2> DEFINE q == [Catalogue!Idle EXCEPT !.at = "token", !.wants = "list"]
  <2>1. q \in ListCalls /\ q.at = "token" /\ q.wants = "list"
    BY DEF ListCalls
  <2>2. call' = [call EXCEPT ![h] = q] /\ UNCHANGED <<disk, tmp, official, sync_lock, catalogue, catTmp>>
    BY <1>1 DEF Catalogue!List, Catalogue!Become
  <2> HIDE DEF q
  <2>3. ListerOK(q, official)
    BY <2>1 DEF ListerOK
  <2>4. QED
    BY <2>1, <2>2, <2>3, <1>t, ListerMoves
<1>2. CASE Catalogue!Token(h)
  <2> DEFINE q == [c EXCEPT !.at = "list"]
  <2>1. q \in ListCalls /\ q.at = "list"
    BY <1>t DEF ListCalls
  <2>2. c.wants = "list"
    BY <1>2, <1>t DEF ListerOK, Catalogue!Token
  <2>3. call' = [call EXCEPT ![h] = q] /\ UNCHANGED <<disk, tmp, official, sync_lock, catalogue, catTmp>>
    BY <1>2, <1>t, <2>2 DEF Catalogue!Token, Catalogue!Go
  <2> HIDE DEF q
  <2>4. ListerOK(q, official)
    BY <2>1 DEF ListerOK
  <2>5. QED
    BY <2>1, <2>3, <2>4, <1>t, ListerMoves
<1>3. CASE Catalogue!Refused(h)
  <2>b. PICK yes \in BOOLEAN : yes = TRUE
    OBVIOUS
  <2>0. c.at = "list"
    BY <1>3, <1>t DEF Catalogue!Refused, ListCalls
  <2> DEFINE q == [c EXCEPT !.at = "token", !.wants = "list", !.again = yes]
  <2>1. q \in ListCalls /\ q.at = "token" /\ q.wants = "list"
    BY <1>t DEF ListCalls
  <2>2. call' = [call EXCEPT ![h] = q] /\ UNCHANGED <<disk, tmp, official, sync_lock, catalogue, catTmp>>
    BY <1>3, <2>0, <2>b DEF Catalogue!Refused, Catalogue!Become
  <2> HIDE DEF q
  <2>3. ListerOK(q, official)
    BY <2>1 DEF ListerOK
  <2>4. QED
    BY <2>1, <2>2, <2>3, <1>t, ListerMoves
<1>4. CASE Catalogue!Listed(h)
  <2> DEFINE q == [Catalogue!Idle EXCEPT !.at = "catCreate", !.ver = official]
  <2>1. q \in ListCalls /\ q.at = "catCreate" /\ q.ver = official
    BY <1>t DEF ListCalls
  <2>2. call' = [call EXCEPT ![h] = q] /\ UNCHANGED <<disk, tmp, official, sync_lock, catalogue, catTmp>>
    BY <1>4 DEF Catalogue!Listed, Catalogue!Become
  <2> HIDE DEF q
  <2>3. ListerOK(q, official)
    BY <2>1, <1>t DEF ListerOK
  <2>4. QED
    BY <2>1, <2>2, <2>3, <1>t, ListerMoves
<1>5. CASE Catalogue!CatRead(h) /\ catalogue \notin {Nil, Part}
  <2> DEFINE q == [Catalogue!Idle EXCEPT !.at = "answered", !.ver = catalogue]
  <2>0. catalogue \in 1..official /\ catalogue \in 1..MaxCatalogue
    BY <1>5, <1>t DEF Served
  <2>1. q \in ListCalls /\ q.at = "answered" /\ q.ver = catalogue
    BY <2>0 DEF ListCalls
  <2>2. call' = [call EXCEPT ![h] = q] /\ UNCHANGED <<disk, tmp, official, sync_lock, catalogue, catTmp>>
    BY <1>5 DEF Catalogue!CatRead, Catalogue!Become
  <2> HIDE DEF q
  <2>3. ListerOK(q, official)
    BY <2>0, <2>1 DEF ListerOK
  <2>4. QED
    BY <2>1, <2>2, <2>3, <1>t, ListerMoves
<1>6. CASE \/ Catalogue!CatRead(h) /\ catalogue \in {Nil, Part}
           \/ Catalogue!Answered(h) \/ Catalogue!Fail(h)
  <2>1. call' = [call EXCEPT ![h] = Catalogue!Idle]
        /\ UNCHANGED <<disk, tmp, official, catalogue, catTmp>>
    BY <1>6 DEF Catalogue!CatRead, Catalogue!Answered, Catalogue!Fail, Catalogue!Become
  <2>2. sync_lock' \in Handlers \cup {Nil}
    BY <1>6, <1>t DEF Catalogue!CatRead, Catalogue!Answered, Catalogue!Fail,
                      Catalogue!Released
  <2>3. QED
    BY <2>1, <2>2, <1>t, ListerMoves
<1>7. QED
  BY <1>1, <1>2, <1>3, <1>4, <1>5, <1>6

\* Requests that write the file: two of them may mix their bytes, which is then no
\* catalogue at all, but never one that was not served.
LEMMA WritingSteps ==
    ASSUME CatalogueInv, NEW h \in Handlers,
           \/ Catalogue!CatCreate(h) \/ Catalogue!CatFill(h)
           \/ Catalogue!CatRemove(h) \/ Catalogue!CatRename(h)
    PROVE  CatalogueInv'
<1> USE CatalogueConstants DEF Writing, Catalogue!mirror, Catalogue!listing
<1> DEFINE c == call[h]
<1>t. /\ c \in ListCalls /\ ListerOK(c, official) /\ call \in [Handlers -> ListCalls]
      /\ official \in 1..MaxCatalogue
      /\ Served(catalogue, official) /\ Served(catTmp, official)
      /\ sync_lock \in Handlers \cup {Nil}
  BY DEF CatalogueInv
<1>v. c.at \in Writing /\ c.ver \in 1..official
  BY <1>t DEF Catalogue!CatCreate, Catalogue!CatFill, Catalogue!CatRemove,
              Catalogue!CatRename, ListerOK
<1>1. CASE Catalogue!CatCreate(h)
  <2> DEFINE q == [c EXCEPT !.at = "catFill", !.fd = "tmp"]
  <2>1. q \in ListCalls /\ q.at = "catFill" /\ q.ver = c.ver
    BY <1>t DEF ListCalls
  <2>2. call' = [call EXCEPT ![h] = q] /\ UNCHANGED <<disk, tmp, official, sync_lock, catalogue>>
        /\ catTmp' = Part
    BY <1>1 DEF Catalogue!CatCreate, Catalogue!Become
  <2> HIDE DEF q
  <2>3. ListerOK(q, official) /\ Served(Part, official)
    BY <2>1, <1>v DEF ListerOK, Served
  <2>4. QED
    BY <2>1, <2>2, <2>3, <1>t, ListerMoves
<1>2. CASE Catalogue!CatFill(h)
  <2> DEFINE q == [c EXCEPT !.at = "catRemove", !.fd = Nil]
  <2>1. q \in ListCalls /\ q.at = "catRemove" /\ q.ver = c.ver
    BY <1>t DEF ListCalls
  <2>2. call' = [call EXCEPT ![h] = q] /\ UNCHANGED <<disk, tmp, official, sync_lock>>
    BY <1>2 DEF Catalogue!CatFill, Catalogue!Become
  <2> HIDE DEF q
  <2>3. ListerOK(q, official)
    BY <2>1, <1>v DEF ListerOK
  <2>4. Served(catalogue', official) /\ Served(catTmp', official)
    BY <1>2, <1>t, <1>v DEF Catalogue!CatFill, Catalogue!Mixed, Served
  <2>5. QED
    BY <2>1, <2>2, <2>3, <2>4, <1>t, ListerMoves
<1>3. CASE Catalogue!CatRemove(h) \/ Catalogue!CatRename(h)
  <2>1. Served(catalogue', official) /\ Served(catTmp', official)
        /\ UNCHANGED <<disk, tmp, official, sync_lock>>
    BY <1>3, <1>t DEF Catalogue!CatRemove, Catalogue!CatRename, Served
  <2>2. ASSUME NEW r \in ListCalls, ListerOK(r, official),
               NEW fd \in {Nil, "tmp", "final", "gone"}
        PROVE  [r EXCEPT !.fd = fd] \in ListCalls /\ ListerOK([r EXCEPT !.fd = fd], official)
    <3> DEFINE q == [r EXCEPT !.fd = fd]
    <3>1. q \in ListCalls /\ q.at = r.at /\ q.ver = r.ver /\ q.wants = r.wants
      BY <2>2 DEF ListCalls
    <3> HIDE DEF q
    <3>2. ListerOK(q, official)
      BY <2>2, <3>1 DEF ListerOK
    <3>3. QED
      BY <3>1, <3>2 DEF q
  <2>3. ASSUME NEW at \in {"catRename", "answered"}
        PROVE  [c EXCEPT !.at = at] \in ListCalls /\ ListerOK([c EXCEPT !.at = at], official)
    <3> DEFINE q == [c EXCEPT !.at = at]
    <3>1. q \in ListCalls /\ q.at = at /\ q.ver = c.ver
      BY <1>t DEF ListCalls
    <3> HIDE DEF q
    <3>2. ListerOK(q, official)
      BY <1>v, <3>1 DEF ListerOK
    <3>3. QED
      BY <3>1, <3>2 DEF q
  <2>4. /\ call' = [g \in Handlers |-> call'[g]]
        /\ \A g \in Handlers : call'[g] \in ListCalls /\ ListerOK(call'[g], official)
    <3>1. CASE Catalogue!CatRemove(h)
      <4>1. call' = [g \in Handlers |->
                  IF g = h THEN [c EXCEPT !.at = "catRename"]
                  ELSE IF call[g].fd = "final" THEN [call[g] EXCEPT !.fd = "gone"]
                  ELSE call[g]]
        BY <3>1 DEF Catalogue!CatRemove
      <4>2. \A g \in Handlers : call[g] \in ListCalls /\ ListerOK(call[g], official)
        BY DEF CatalogueInv
      <4>3. QED
        BY <4>1, <4>2, <2>2, <2>3
    <3>2. CASE Catalogue!CatRename(h)
      <4>1. call' = [g \in Handlers |->
                  IF g = h THEN [c EXCEPT !.at = "answered"]
                  ELSE IF catTmp = Nil THEN call[g]
                  ELSE IF call[g].fd = "tmp" THEN [call[g] EXCEPT !.fd = "final"]
                  ELSE IF call[g].fd = "final" THEN [call[g] EXCEPT !.fd = "gone"]
                  ELSE call[g]]
        BY <3>2 DEF Catalogue!CatRename
      <4>2. \A g \in Handlers : call[g] \in ListCalls /\ ListerOK(call[g], official)
        BY DEF CatalogueInv
      <4>3. QED
        BY <4>1, <4>2, <2>2, <2>3
    <3>3. QED
      BY <1>3, <3>1, <3>2
  <2>5. QED
    BY <2>1, <2>4 DEF CatalogueInv
<1>4. QED
  BY <1>1, <1>2, <1>3

\* The backend is killed, or the official one publishes.
LEMMA CatalogueEnvironment ==
    ASSUME CatalogueInv, Catalogue!Kill \/ Catalogue!Publish
    PROVE  CatalogueInv'
<1> USE CatalogueConstants DEF CatalogueInv
<1>1. CASE Catalogue!Kill
  BY <1>1 DEF Catalogue!Kill, Catalogue!listing
<1>2. CASE Catalogue!Publish
  <2>1. /\ UNCHANGED <<disk, tmp, sync_lock, call, catalogue, catTmp>>
        /\ official' \in 1..MaxCatalogue /\ official' = official + 1
    BY <1>2 DEF Catalogue!Publish, Catalogue!mirror
  <2>2. \A v : v \in 1..official => v \in 1..official'
    BY <2>1
  <2>3. QED
    BY <2>1, <2>2 DEF Served, ListerOK
<1>3. QED
  BY <1>1, <1>2

\* Where no map is asked for, none is fetched.
LEMMA NoFetching ==
    ASSUME CatalogueInv, NEW h \in Handlers
    PROVE  ~ \/ Catalogue!Ensure(h) \/ Catalogue!Look(h) \/ Catalogue!Lock(h)
             \/ Catalogue!SyncMeta(h) \/ Catalogue!GlbAnswer(h) \/ Catalogue!Create(h)
             \/ Catalogue!Fill(h) \/ Catalogue!RemoveOld(h) \/ Catalogue!Rename(h)
<1>1. call[h] \in ListCalls
  BY DEF CatalogueInv
<1>2. call[h].at \notin {"look", "relook", "lock", "meta", "stream", "create", "fill",
                         "remove", "rename"}
  BY <1>1 DEF ListCalls, Writing
<1>3. QED
  BY <1>2 DEF Catalogue!Ensure, Catalogue!Look, Catalogue!Lock, Catalogue!SyncMeta,
       Catalogue!GlbAnswer, Catalogue!Create, Catalogue!Fill, Catalogue!RemoveOld,
       Catalogue!Rename

\* Every step keeps the invariant.
LEMMA CatalogueNext == CatalogueInv /\ Catalogue!Next => CatalogueInv'
BY AskingSteps, WritingSteps, CatalogueEnvironment, NoFetching DEF Catalogue!Next

\* No catalogue is there at first.
LEMMA CatalogueInit == Mirror!Init => CatalogueInv
<1>1. SUFFICES ASSUME Mirror!Init PROVE CatalogueInv
  OBVIOUS
<1>2. Catalogue!Idle = Mirror!Idle /\ Catalogue!Files = Mirror!Files
  BY DEF Catalogue!Idle, Mirror!Idle, Catalogue!Files, Mirror!Files, Catalogue!Plan, Mirror!Plan
<1>3. call \in [Handlers -> ListCalls] /\ \A h \in Handlers : call[h] = Catalogue!Idle
  BY <1>1, <1>2, CatalogueConstants DEF Mirror!Init
<1>4. /\ disk \in [Catalogue!Files -> (0..Blocks) \cup {Nil}]
      /\ tmp \in [Catalogue!Files -> (0..Blocks) \cup {Nil}]
      /\ sync_lock = Nil /\ official \in 1..MaxCatalogue
      /\ Served(catalogue, official) /\ Served(catTmp, official)
  BY <1>1, <1>2, CatalogueConstants DEF Mirror!Init, Served
<1>5. QED
  BY <1>3, <1>4, CatalogueConstants DEF CatalogueInv

\* list_maps_remote_or_cached: a catalogue answered, from the network or from the
\* cache file, is one the official backend served, for any number of requests that
\* write the file at the same time.
THEOREM CatalogueSound == Spec => []CatalogueIsReal
<1> DEFINE I == runs = "catalogue" => CatalogueInv
<1>1. Init => I
  BY CatalogueInit DEF Init
<1>2. I /\ [Next]_vars => I'
  <2>1. CatalogueInv /\ UNCHANGED mirrorVars => CatalogueInv'
    BY DEF CatalogueInv, mirrorVars
  <2>2. QED
    BY <2>1, CatalogueNext DEF Next, vars
<1>3. I => CatalogueIsReal
  <2>1. SUFFICES ASSUME CatalogueInv PROVE Catalogue!TypeOK /\ Catalogue!CatalogueIsReal
    BY DEF CatalogueIsReal
  <2>2. Catalogue!TypeOK
    <3>1. {catalogue, catTmp} \subseteq (1..MaxCatalogue) \cup {Nil, Part}
      BY <2>1, CatalogueConstants DEF CatalogueInv, Served
    <3>2. QED
      BY <2>1, <3>1 DEF CatalogueInv, Catalogue!TypeOK
  <2>3. Catalogue!CatalogueIsReal
    BY <2>1 DEF CatalogueInv, ListerOK, Catalogue!CatalogueIsReal
  <2>4. QED
    BY <2>2, <2>3
<1>4. QED
  BY <1>1, <1>2, <1>3, PTL DEF Spec

-----------------------------------------------------------------------------
(* The store of local sandboxes. *)

Changing ==
    [at: {"change", "persist", "apply"}, kind: Local!Kinds, id: LocalIds, rev: 0..MaxRevision]
Storing ==
    [at: {"write"}, kind: Local!Kinds, id: LocalIds, rev: 0..MaxRevision, raw: Local!Contents]
Driving ==
    [at: {"set", "switch", "weather", "undo", "forget"}, id: LocalIds, rev: 0..MaxRuntime]
LocalCalls == {Local!Idle} \cup Changing \cup Storing \cup Driving

\* What a request relies on: a process that is up, a change that is in the store, a
\* file written from the store as it is, and room for the sandbox it activates as
\* long as the runtime is the one it has seen.
AdminOK(q, st, rt) ==
    /\ q.at # "idle" => st # Nil
    /\ q.at \in {"persist", "write"} => q.rev <= st.rev
    /\ q.at = "write" => q.raw = st
    /\ q.at = "switch" => q.rev <= rt.rev
    /\ q.at = "switch" /\ q.rev = rt.rev =>
           q.id \in rt.active \/ Cardinality(rt.active) < MaxActive

LocalTypes ==
    /\ store \in Local!Contents \cup {Nil}
    /\ file \in Local!Contents \cup {EmptyFile, Partial}
    /\ admin \in [Handlers -> LocalCalls]
    /\ orphan \in Local!Contents \cup {Nil}
    /\ runtime \in [rev: 0..MaxRuntime, active: SUBSET LocalIds]
    /\ started \subseteq LocalIds
    /\ acked \in 0..MaxRevision
    /\ hurt \in BOOLEAN
    /\ faults \in 0..MaxFaults

\* The store never falls behind what was acknowledged, nor does the file once nobody
\* writes it.
Durable ==
    ~hurt => /\ orphan = Nil
             /\ store # Nil => acked <= store.rev
             /\ (\A a \in Handlers : admin[a].at # "write") =>
                    file \in Local!Contents /\ acked <= file.rev

LocalInv ==
    /\ LocalTypes
    /\ IsFiniteSet(runtime.active) /\ Cardinality(runtime.active) <= MaxActive
    /\ \A a \in Handlers : AdminOK(admin[a], store, runtime)
    /\ Durable

\* What the constants are, and that a request has one of the forms.
LEMMA LocalConstants ==
    /\ {MaxActive, MaxRevision, MaxRuntime, MaxFaults} \subseteq Nat
    /\ EmptyFile \notin Local!Contents /\ Partial \notin Local!Contents
    /\ Nil \notin Local!Contents /\ EmptyFile # Partial
    /\ Local!Idle.at = "idle" /\ \A st, rt : AdminOK(Local!Idle, st, rt)
    /\ Local!NoConfigs \in Local!Contents /\ Local!NoConfigs.rev = 0
<1>1. /\ {MaxActive, MaxRevision, MaxRuntime, MaxFaults} \subseteq Nat /\ EmptyFile # Partial
      /\ {EmptyFile, Partial, Nil} \cap Local!Contents = {}
  BY Assumptions DEF Local!LocalSandboxesAssumption, Local!Contents
<1>2. Local!Idle.at = "idle" /\ \A st, rt : AdminOK(Local!Idle, st, rt)
  BY DEF Local!Idle, AdminOK
<1>3. Local!NoConfigs \in Local!Contents /\ Local!NoConfigs.rev = 0
  BY <1>1 DEF Local!NoConfigs, Local!Contents
<1>4. QED
  BY <1>1, <1>2, <1>3

\* Which form a request has follows from where it is.
LEMMA LocalForms ==
    ASSUME NEW q \in LocalCalls
    PROVE  /\ q.at \in {"change", "persist", "apply"} => q \in Changing
           /\ q.at = "write" => q \in Storing
           /\ q.at \in {"set", "switch", "weather", "undo", "forget"} => q \in Driving
           /\ q.at = "idle" => q = Local!Idle
BY DEF LocalCalls, Changing, Storing, Driving, Local!Idle

\* A request that changes its own record only.
LEMMA AdminMoves ==
    ASSUME LocalInv, NEW a \in Handlers, NEW q \in LocalCalls,
           admin' = [admin EXCEPT ![a] = q], AdminOK(q, store, runtime),
           admin[a].at # "write", q.at # "write", started' \subseteq LocalIds,
           UNCHANGED <<store, file, orphan, runtime, acked, hurt, faults>>
    PROVE  LocalInv'
<1>1. admin' \in [Handlers -> LocalCalls] /\ \A b \in Handlers : admin'[b] = IF b = a THEN q ELSE admin[b]
  BY DEF LocalInv, LocalTypes
<1>2. \A b \in Handlers : AdminOK(admin'[b], store, runtime)
  BY <1>1 DEF LocalInv
<1>3. (\A b \in Handlers : admin'[b].at # "write") => \A b \in Handlers : admin[b].at # "write"
  BY <1>1
<1>4. Durable'
  BY <1>3 DEF LocalInv, Durable
<1>5. QED
  BY <1>1, <1>2, <1>4 DEF LocalInv, LocalTypes

\* A request that changes the runtime: who has seen an earlier one will be refused.
LEMMA RuntimeMoves ==
    ASSUME LocalInv, NEW a \in Handlers, NEW q \in LocalCalls, NEW act \in SUBSET LocalIds,
           admin' = [admin EXCEPT ![a] = q], Local!Bump(act),
           IsFiniteSet(act), Cardinality(act) <= MaxActive, store # Nil,
           admin[a].at # "write", q.at \in {"idle", "weather", "forget"},
           UNCHANGED <<store, file, orphan, started, acked, hurt, faults>>
    PROVE  LocalInv'
<1>1. admin' \in [Handlers -> LocalCalls] /\ \A b \in Handlers : admin'[b] = IF b = a THEN q ELSE admin[b]
  BY DEF LocalInv, LocalTypes
<1>2. runtime.rev \in 0..MaxRuntime /\ runtime.rev < MaxRuntime
  BY DEF LocalInv, LocalTypes, Local!Bump
<1>3. PICK r \in 0..MaxRuntime : r = runtime.rev + 1
  BY <1>2, LocalConstants
<1>4. runtime' = [rev |-> r, active |-> act]
  BY <1>3 DEF Local!Bump
<1>5. runtime' \in [rev: 0..MaxRuntime, active: SUBSET LocalIds]
      /\ runtime'.rev = r /\ runtime'.active = act
  BY <1>4
<1>6. ASSUME NEW b \in Handlers PROVE AdminOK(admin'[b], store, runtime')
  <2>1. CASE b = a
    BY <2>1, <1>1 DEF AdminOK
  <2>2. CASE b # a
    <3>1. admin'[b] = admin[b] /\ AdminOK(admin[b], store, runtime)
      BY <2>2, <1>1 DEF LocalInv
    <3>2. admin[b].at = "switch" => admin[b].rev \in 0..MaxRuntime
      BY LocalForms DEF LocalInv, LocalTypes, Driving
    <3>3. admin[b].at = "switch" => admin[b].rev <= r /\ admin[b].rev # r
      BY <3>1, <3>2, <1>2, <1>3, LocalConstants DEF AdminOK
    <3>4. QED
      BY <3>1, <3>3, <1>5 DEF AdminOK
  <2>3. QED
    BY <2>1, <2>2
<1>7. (\A b \in Handlers : admin'[b].at # "write") => \A b \in Handlers : admin[b].at # "write"
  BY <1>1
<1>8. Durable'
  BY <1>7 DEF LocalInv, Durable
<1>9. QED
  BY <1>1, <1>5, <1>6, <1>8 DEF LocalInv, LocalTypes

\* Requests up to the store, and those that give up.
LEMMA AskSteps ==
    ASSUME LocalInv, NEW a \in Handlers,
           \/ Local!create_local_sandbox_config(a) \/ Local!update_local_sandbox_config(a)
           \/ Local!delete_local_sandbox_config(a) \/ Local!update_local_sandbox_time_of_day(a)
           \/ Local!update_local_sandbox_weather(a) \/ Local!update_local_sandbox_spawn_mode(a)
           \/ Local!GivesUp(a)
    PROVE  LocalInv'
<1>1. ASSUME NEW k \in Local!Kinds, NEW s \in LocalIds, Local!Ask(a, k, s) PROVE LocalInv'
  <2>0. store \in Local!Contents /\ store # Nil /\ admin[a].at = "idle"
    BY <1>1 DEF Local!Ask, Local!Up, LocalInv, LocalTypes
  <2>1. store.rev \in 0..MaxRevision
    BY <2>0 DEF Local!Contents
  <2> DEFINE q == [at |-> "change", kind |-> k, id |-> s, rev |-> store.rev]
  <2>2. q \in Changing /\ q.at = "change"
    BY <1>1, <2>1 DEF Changing
  <2>3. admin' = [admin EXCEPT ![a] = q]
        /\ UNCHANGED <<store, file, orphan, runtime, started, acked, hurt, faults>>
    BY <1>1 DEF Local!Ask
  <2> HIDE DEF q
  <2>4. q \in LocalCalls /\ AdminOK(q, store, runtime)
    BY <2>0, <2>2 DEF LocalCalls, AdminOK
  <2>5. started' \subseteq LocalIds
    BY <2>3 DEF LocalInv, LocalTypes
  <2>6. QED
    BY <2>0, <2>2, <2>3, <2>4, <2>5, AdminMoves
<1>2. {"create", "update", "delete", "time", "weather", "spawn"} \subseteq Local!Kinds
  BY DEF Local!Kinds
<1>3. CASE Local!GivesUp(a)
  <2>1. /\ admin' = [admin EXCEPT ![a] = Local!Idle] /\ admin[a].at # "write"
        /\ UNCHANGED <<store, file, orphan, runtime, started, acked, hurt, faults>>
        /\ started \subseteq LocalIds
    BY <1>3 DEF Local!GivesUp, Local!Free, LocalInv, LocalTypes
  <2>2. Local!Idle \in LocalCalls /\ Local!Idle.at # "write" /\ AdminOK(Local!Idle, store, runtime)
    BY LocalConstants DEF LocalCalls
  <2>3. QED
    BY <2>1, <2>2, AdminMoves
<1>4. CASE ~Local!GivesUp(a)
  <2>1. \E k \in Local!Kinds, s \in LocalIds : Local!Ask(a, k, s)
    BY <1>2, <1>4 DEF Local!create_local_sandbox_config, Local!update_local_sandbox_config,
          Local!delete_local_sandbox_config, Local!update_local_sandbox_time_of_day,
          Local!update_local_sandbox_weather, Local!update_local_sandbox_spawn_mode
  <2>2. QED
    BY <1>1, <2>1
<1>5. QED
  BY <1>3, <1>4

\* The store is changed only while nobody writes the file.
LEMMA ChangeStep ==
    ASSUME LocalInv, NEW a \in Handlers, Local!Change(a)
    PROVE  LocalInv'
<1> DEFINE c == admin[a]
<1>1. c \in Changing /\ AdminOK(c, store, runtime) /\ c.at = "change" /\ store # Nil
  BY LocalForms DEF LocalInv, LocalTypes, Local!Change, AdminOK
<1>2. store \in Local!Contents
  BY <1>1 DEF LocalInv, LocalTypes
<1>3. store.rev \in 0..MaxRevision /\ store.known \in SUBSET LocalIds /\ c.id \in LocalIds
  BY <1>1, <1>2 DEF Local!Contents, Changing
<1>4. store.rev < MaxRevision /\ Local!Writers = {}
  BY DEF Local!Change, Local!create_config, Local!delete_config, Local!update_config,
         Local!Locked
<1>5. PICK r \in 0..MaxRevision : r = store.rev + 1
  BY <1>3, <1>4, LocalConstants
<1>6. PICK k \in SUBSET LocalIds : store' = [rev |-> r, known |-> k]
  <2>1. CASE Local!create_config(c)
    BY <2>1, <1>3, <1>5 DEF Local!create_config
  <2>2. CASE Local!delete_config(c)
    BY <2>2, <1>3, <1>5 DEF Local!delete_config
  <2>3. CASE Local!update_config(c)
    <3>1. store' = [store EXCEPT !.rev = r]
      BY <2>3, <1>5 DEF Local!update_config
    <3>2. store' = [rev |-> r, known |-> store.known]
      BY <3>1, <1>2 DEF Local!Contents
    <3>3. QED
      BY <3>2, <1>3
  <2>4. QED
    BY <2>1, <2>2, <2>3 DEF Local!Change
<1>7. store' \in Local!Contents /\ store'.rev = r
  BY <1>6 DEF Local!Contents
<1>8. store' # Nil
  BY <1>7, LocalConstants
<1> DEFINE q == [c EXCEPT !.at = "persist", !.rev = r]
<1>9. q \in Changing /\ q.at = "persist" /\ q.rev = r
  BY <1>1, <1>5 DEF Changing
<1>10. /\ admin' = [admin EXCEPT ![a] = q]
       /\ UNCHANGED <<file, orphan, runtime, started, acked, hurt, faults>>
  BY <1>5 DEF Local!Change
<1> HIDE DEF q
<1>11. admin' \in [Handlers -> LocalCalls]
       /\ \A b \in Handlers : admin'[b] = IF b = a THEN q ELSE admin[b]
  BY <1>9, <1>10 DEF LocalInv, LocalTypes, LocalCalls
<1>12. \A b \in Handlers : admin[b].at # "write" /\ admin'[b].at # "write"
  BY <1>4, <1>9, <1>11 DEF Local!Writers
<1>13. ASSUME NEW b \in Handlers PROVE AdminOK(admin'[b], store', runtime)
  <2>1. CASE b = a
    BY <2>1, <1>5, <1>7, <1>8, <1>9, <1>11 DEF AdminOK
  <2>2. CASE b # a
    <3>1. admin'[b] = admin[b] /\ AdminOK(admin[b], store, runtime) /\ admin[b] \in LocalCalls
      BY <2>2, <1>11 DEF LocalInv, LocalTypes
    <3>2. admin[b].at = "persist" => admin[b].rev \in 0..MaxRevision
      BY <3>1, LocalForms DEF Changing
    <3>3. admin[b].at = "persist" => admin[b].rev <= r
      BY <3>1, <3>2, <1>3, <1>5, LocalConstants DEF AdminOK
    <3>4. QED
      BY <3>1, <3>3, <1>7, <1>8, <1>12 DEF AdminOK
  <2>3. QED
    BY <2>1, <2>2
<1>14. Durable'
  <2>1. SUFFICES ASSUME ~hurt PROVE Durable'
    BY <1>10 DEF Durable
  <2>2. orphan = Nil /\ acked <= store.rev /\ file \in Local!Contents /\ acked <= file.rev
    BY <2>1, <1>1, <1>12 DEF LocalInv, Durable
  <2>3. acked \in 0..MaxRevision
    BY DEF LocalInv, LocalTypes
  <2>4. acked <= r
    BY <2>2, <2>3, <1>3, <1>5, LocalConstants
  <2>5. QED
    BY <2>2, <2>4, <1>7, <1>10 DEF Durable
<1>15. QED
  BY <1>7, <1>10, <1>11, <1>13, <1>14 DEF LocalInv, LocalTypes

\* The file is written from the store as it is by then, which has the change.
LEMMA WriteSteps ==
    ASSUME LocalInv, NEW a \in Handlers,
           Local!persist(a) \/ Local!Written(a) \/ Local!WriteFails(a) \/ Local!Dropped(a)
    PROVE  LocalInv'
<1> DEFINE c == admin[a]
<1>0. c \in LocalCalls /\ AdminOK(c, store, runtime) /\ c.at \in {"persist", "write"}
      /\ admin \in [Handlers -> LocalCalls]
  BY DEF LocalInv, LocalTypes, Local!persist, Local!Written, Local!WriteFails, Local!Dropped
<1>1. store # Nil /\ store \in Local!Contents /\ store.rev \in 0..MaxRevision
  BY <1>0 DEF AdminOK, LocalInv, LocalTypes, Local!Contents
<1>2. c.rev \in 0..MaxRevision /\ c.rev <= store.rev /\ c.kind \in Local!Kinds /\ c.id \in LocalIds
  BY <1>0, LocalForms DEF AdminOK, Changing, Storing
<1>3. Local!Idle \in LocalCalls /\ Local!Idle.at = "idle" /\ AdminOK(Local!Idle, store, runtime)
  BY LocalConstants DEF LocalCalls
<1>4. acked \in 0..MaxRevision
  BY DEF LocalInv, LocalTypes
<1>5. CASE Local!persist(a)
  <2> DEFINE q == [at |-> "write", kind |-> c.kind, id |-> c.id, rev |-> c.rev, raw |-> store]
  <2>1. q \in Storing /\ q.at = "write" /\ q.raw = store /\ q.rev = c.rev
    BY <1>1, <1>2 DEF Storing
  <2>2. /\ admin' = [admin EXCEPT ![a] = q] /\ file' = EmptyFile
        /\ UNCHANGED <<store, orphan, runtime, started, acked, hurt, faults>>
    BY <1>5 DEF Local!persist
  <2> HIDE DEF q
  <2>3. admin' \in [Handlers -> LocalCalls]
        /\ \A b \in Handlers : admin'[b] = IF b = a THEN q ELSE admin[b]
    BY <1>0, <2>1, <2>2 DEF LocalCalls
  <2>4. AdminOK(q, store, runtime)
    BY <1>1, <1>2, <2>1 DEF AdminOK
  <2>5. \A b \in Handlers : AdminOK(admin'[b], store, runtime)
    BY <2>3, <2>4 DEF LocalInv
  <2>6. Durable'
    BY <2>1, <2>2, <2>3 DEF LocalInv, Durable
  <2>7. QED
    BY <2>2, <2>3, <2>5, <2>6 DEF LocalInv, LocalTypes
<1>6. CASE Local!Written(a)
  <2>1. c \in Storing /\ c.raw = store
    BY <1>0, <1>6, LocalForms DEF Local!Written, AdminOK
  <2>2. PICK q \in LocalCalls : /\ AdminOK(q, store, runtime) /\ q.at \in {"idle", "apply"}
                                /\ admin' = [admin EXCEPT ![a] = q]
    <3>1. CASE c.kind \in {"time", "weather"}
      <4> DEFINE q == [at |-> "apply", kind |-> c.kind, id |-> c.id, rev |-> c.rev]
      <4>1. q \in Changing /\ q.at = "apply" /\ admin' = [admin EXCEPT ![a] = q]
        BY <1>2, <1>6, <3>1 DEF Changing, Local!Written
      <4> HIDE DEF q
      <4>2. q \in LocalCalls /\ AdminOK(q, store, runtime)
        BY <1>1, <4>1 DEF AdminOK, LocalCalls
      <4>3. QED
        BY <4>1, <4>2
    <3>2. CASE c.kind \notin {"time", "weather"}
      <4>1. admin' = [admin EXCEPT ![a] = Local!Idle]
        BY <1>6, <3>2 DEF Local!Written
      <4>2. QED
        BY <4>1, <1>3
    <3>3. QED
      BY <3>1, <3>2
  <2>3. acked' \in 0..MaxRevision /\ (acked' <= store.rev \/ acked' = acked)
    BY <1>2, <1>4, <1>6 DEF Local!Written
  <2>4. /\ file' = store /\ started' \subseteq LocalIds
        /\ UNCHANGED <<store, orphan, runtime, hurt, faults>>
    BY <1>6, <2>1 DEF Local!Written, LocalInv, LocalTypes
  <2>5. admin' \in [Handlers -> LocalCalls]
        /\ \A b \in Handlers : admin'[b] = IF b = a THEN q ELSE admin[b]
    BY <1>0, <2>2
  <2>6. \A b \in Handlers : AdminOK(admin'[b], store, runtime)
    BY <2>2, <2>5 DEF LocalInv
  <2>7. ~hurt => orphan = Nil /\ acked' <= store.rev
    BY <2>3, <1>1 DEF LocalInv, Durable
  <2>8. Durable'
    BY <2>4, <2>7, <1>1 DEF Durable
  <2>9. acked' \in 0..MaxRevision
    BY <2>3
  <2>10. QED
    BY <2>4, <2>5, <2>6, <2>8, <2>9, <1>1 DEF LocalInv, LocalTypes
<1>7. CASE Local!WriteFails(a) \/ Local!Dropped(a)
  <2>1. /\ admin' = [admin EXCEPT ![a] = Local!Idle] /\ hurt' = TRUE
        /\ UNCHANGED <<store, runtime, started, acked>>
        /\ c.at = "write"
    BY <1>7 DEF Local!WriteFails, Local!Dropped, Local!Free
  <2>2. c \in Storing
    BY <2>1, <1>0, LocalForms
  <2>3. file' \in Local!Contents \cup {EmptyFile, Partial} /\ orphan' \in Local!Contents \cup {Nil}
    BY <1>7, <2>2 DEF Local!WriteFails, Local!Dropped, LocalInv, LocalTypes, Storing
  <2>4. faults' \in 0..MaxFaults
    BY <1>7, LocalConstants DEF Local!WriteFails, Local!Dropped, Local!Fault, LocalInv, LocalTypes
  <2>5. admin' \in [Handlers -> LocalCalls]
        /\ \A b \in Handlers : AdminOK(admin'[b], store, runtime)
    BY <1>0, <1>3, <2>1 DEF LocalInv
  <2>6. QED
    BY <2>1, <2>3, <2>4, <2>5 DEF LocalInv, LocalTypes, Durable
<1>8. QED
  BY <1>5, <1>6, <1>7

\* Requests that read or change the runtime; the limit is checked against the
\* revision under which the sandbox is activated.
LEMMA RuntimeSteps ==
    ASSUME LocalInv, NEW a \in Handlers,
           \/ Local!Apply(a) \/ Local!set_runtime_time_of_day(a) \/ Local!Activate(a)
           \/ Local!SwitchRuntime(a) \/ Local!SetWeather(a) \/ Local!Rollback(a)
           \/ Local!Deactivate(a) \/ Local!ForgetStart(a)
    PROVE  LocalInv'
<1> DEFINE c == admin[a]
           act == runtime.active
<1>0. /\ c \in LocalCalls /\ AdminOK(c, store, runtime) /\ admin \in [Handlers -> LocalCalls]
      /\ act \in SUBSET LocalIds /\ IsFiniteSet(act) /\ Cardinality(act) <= MaxActive
      /\ runtime.rev \in 0..MaxRuntime /\ started \subseteq LocalIds
  BY DEF LocalInv, LocalTypes
<1>1. c.at # "write" /\ store # Nil
  BY <1>0 DEF Local!Apply, Local!set_runtime_time_of_day, Local!Activate, Local!SwitchRuntime,
              Local!SetWeather, Local!Rollback, Local!Deactivate, Local!ForgetStart,
              Local!Up, AdminOK
<1>2. Local!Idle \in LocalCalls /\ Local!Idle.at = "idle" /\ AdminOK(Local!Idle, store, runtime)
  BY LocalConstants DEF LocalCalls
<1>3. Cardinality(act) = Local!Cardinality(act)
  BY DEF Cardinality, Local!Cardinality
<1>4. CASE Local!Apply(a)
  <2>1. c \in Changing
    BY <1>0, <1>4, LocalForms DEF Local!Apply
  <2> DEFINE q == [at |-> "set", id |-> c.id, rev |-> runtime.rev]
  <2>2. q \in Driving /\ q.at = "set"
    BY <1>0, <2>1 DEF Driving, Changing
  <2>3. /\ admin' = [admin EXCEPT ![a] = q] \/ admin' = [admin EXCEPT ![a] = Local!Idle]
        /\ UNCHANGED <<store, file, orphan, runtime, started, acked, hurt, faults>>
    BY <1>4 DEF Local!Apply
  <2> HIDE DEF q
  <2>4. q \in LocalCalls /\ AdminOK(q, store, runtime)
    BY <1>1, <2>2 DEF LocalCalls, AdminOK
  <2>5. QED
    BY <1>0, <1>1, <1>2, <2>2, <2>3, <2>4, AdminMoves
<1>5. CASE Local!set_runtime_time_of_day(a)
  <2>1. /\ admin' = [admin EXCEPT ![a] = Local!Idle] /\ Local!Bump(act)
        /\ UNCHANGED <<store, file, orphan, started, acked, hurt, faults>>
    BY <1>5 DEF Local!set_runtime_time_of_day, Local!Free
  <2>2. QED
    BY <2>1, <1>0, <1>1, <1>2, RuntimeMoves
<1>6. CASE Local!Activate(a)
  <2>1. PICK s \in store.known :
           /\ s \in act \/ Cardinality(act) < MaxActive
           /\ admin' = [admin EXCEPT ![a] = [at |-> "switch", id |-> s, rev |-> runtime.rev]]
    BY <1>3, <1>6 DEF Local!Activate
  <2>2. s \in LocalIds
    BY <1>1 DEF LocalInv, LocalTypes, Local!Contents
  <2> DEFINE q == [at |-> "switch", id |-> s, rev |-> runtime.rev]
  <2>3. q \in Driving /\ q.at = "switch" /\ q.id = s /\ q.rev = runtime.rev
    BY <1>0, <2>2 DEF Driving
  <2>4. /\ admin' = [admin EXCEPT ![a] = q]
        /\ UNCHANGED <<store, file, orphan, runtime, started, acked, hurt, faults>>
    BY <1>6, <2>1 DEF Local!Activate
  <2> HIDE DEF q
  <2>5. q \in LocalCalls /\ AdminOK(q, store, runtime)
    BY <1>0, <1>1, <2>1, <2>3 DEF LocalCalls, AdminOK
  <2>6. QED
    BY <1>0, <1>1, <2>3, <2>4, <2>5, AdminMoves
<1>7. CASE Local!SwitchRuntime(a)
  <2>1. c \in Driving /\ c.at = "switch" /\ c.rev = runtime.rev /\ c.id \in LocalIds
    BY <1>0, <1>7, LocalForms DEF Local!SwitchRuntime, Driving
  <2>2. c.id \in act \/ Cardinality(act) < MaxActive
    BY <1>0, <2>1 DEF AdminOK
  <2> DEFINE new == act \cup {c.id}
  <2>3. IsFiniteSet(new) /\ Cardinality(new) <= MaxActive
    <3>1. IsFiniteSet(new) /\ Cardinality(new) = IF c.id \in act THEN Cardinality(act) ELSE Cardinality(act) + 1
      BY <1>0, FS_AddElement
    <3>2. Cardinality(act) \in Nat
      BY <1>0, FS_CardinalityType
    <3>3. QED
      BY <1>0, <2>2, <3>1, <3>2, LocalConstants
  <2>4. runtime.rev < MaxRuntime
    BY <1>7 DEF Local!SwitchRuntime, Local!Bump
  <2>5. PICK r \in 0..MaxRuntime : r = runtime.rev + 1
    BY <1>0, <2>4, LocalConstants
  <2> DEFINE q == [at |-> "weather", id |-> c.id, rev |-> r]
  <2>6. q \in Driving /\ q.at = "weather"
    BY <2>1 DEF Driving
  <2>7. /\ admin' = [admin EXCEPT ![a] = q] /\ Local!Bump(new)
        /\ UNCHANGED <<store, file, orphan, started, acked, hurt, faults>>
    BY <1>7, <2>5 DEF Local!SwitchRuntime
  <2> HIDE DEF q
  <2>8. q \in LocalCalls /\ new \in SUBSET LocalIds
    BY <1>0, <2>1, <2>6 DEF LocalCalls
  <2> HIDE DEF new
  <2>9. QED
    BY <1>1, <2>3, <2>6, <2>7, <2>8, RuntimeMoves
<1>8. CASE Local!SetWeather(a)
  <2>1. c \in Driving /\ c.id \in LocalIds
    BY <1>0, <1>8, LocalForms DEF Local!SetWeather, Driving
  <2> DEFINE q == [c EXCEPT !.at = "undo"]
  <2>2. q \in Driving /\ q.at = "undo"
    BY <2>1 DEF Driving
  <2>3. /\ admin' = [admin EXCEPT ![a] = q] \/ admin' = [admin EXCEPT ![a] = Local!Idle]
        /\ UNCHANGED <<store, file, orphan, runtime, acked, hurt, faults>>
        /\ started' \subseteq LocalIds
    BY <1>0, <1>8, <2>1 DEF Local!SetWeather, Local!Free
  <2> HIDE DEF q
  <2>4. q \in LocalCalls /\ AdminOK(q, store, runtime)
    BY <1>1, <2>2 DEF LocalCalls, AdminOK
  <2>5. QED
    BY <1>1, <1>2, <2>2, <2>3, <2>4, AdminMoves
<1>9. CASE Local!Rollback(a)
  <2>1. /\ admin' = [admin EXCEPT ![a] = Local!Idle]
        /\ UNCHANGED <<store, file, orphan, started, acked, hurt, faults>>
    BY <1>9 DEF Local!Rollback, Local!Free
  <2>2. CASE UNCHANGED runtime
    BY <1>0, <1>1, <1>2, <2>1, <2>2, AdminMoves
  <2>3. CASE Local!Bump(act \ {c.id})
    <3> DEFINE new == act \ {c.id}
    <3>1. new \in SUBSET LocalIds /\ IsFiniteSet(new) /\ Cardinality(new) <= MaxActive
      <4>1. new \subseteq act /\ new \in SUBSET LocalIds
        BY <1>0
      <4>2. IsFiniteSet(new) /\ Cardinality(new) <= Cardinality(act)
        BY <1>0, <4>1, FS_Subset
      <4>3. Cardinality(new) \in Nat /\ Cardinality(act) \in Nat
        BY <1>0, <4>2, FS_CardinalityType
      <4>4. QED
        BY <1>0, <4>1, <4>2, <4>3, LocalConstants
    <3>2. Local!Bump(new)
      BY <2>3
    <3> HIDE DEF new
    <3>3. QED
      BY <1>1, <1>2, <2>1, <3>1, <3>2, RuntimeMoves
  <2>4. QED
    BY <1>9, <2>2, <2>3 DEF Local!Rollback
<1>10. CASE Local!Deactivate(a)
  <2>1. PICK s \in act :
           /\ Local!Bump(act \ {s})
           /\ admin' = [admin EXCEPT ![a] = [at |-> "forget", id |-> s, rev |-> runtime.rev]]
    BY <1>10 DEF Local!Deactivate
  <2> DEFINE q == [at |-> "forget", id |-> s, rev |-> runtime.rev]
             new == act \ {s}
  <2>2. q \in Driving /\ q.at = "forget"
    BY <1>0, <2>1 DEF Driving
  <2>3. new \in SUBSET LocalIds /\ IsFiniteSet(new) /\ Cardinality(new) <= MaxActive
    <3>1. new \subseteq act /\ new \in SUBSET LocalIds
      BY <1>0
    <3>2. IsFiniteSet(new) /\ Cardinality(new) <= Cardinality(act)
      BY <1>0, <3>1, FS_Subset
    <3>3. Cardinality(new) \in Nat /\ Cardinality(act) \in Nat
      BY <1>0, <3>2, FS_CardinalityType
    <3>4. QED
      BY <1>0, <3>1, <3>2, <3>3, LocalConstants
  <2>4. /\ admin' = [admin EXCEPT ![a] = q] /\ Local!Bump(new)
        /\ UNCHANGED <<store, file, orphan, started, acked, hurt, faults>>
    BY <1>10, <2>1 DEF Local!Deactivate
  <2> HIDE DEF q, new
  <2>5. q \in LocalCalls
    BY <2>2 DEF LocalCalls
  <2>6. QED
    BY <1>1, <2>2, <2>3, <2>4, <2>5, RuntimeMoves
<1>11. CASE Local!ForgetStart(a)
  <2>1. /\ admin' = [admin EXCEPT ![a] = Local!Idle] /\ started' \subseteq LocalIds
        /\ UNCHANGED <<store, file, orphan, runtime, acked, hurt, faults>>
    BY <1>0, <1>11 DEF Local!ForgetStart, Local!Free
  <2>2. QED
    BY <1>1, <1>2, <2>1, AdminMoves
<1>12. QED
  BY <1>4, <1>5, <1>6, <1>7, <1>8, <1>9, <1>10, <1>11

\* A write that outlived its handler, a crash and a restart.
LEMMA ProcessSteps ==
    ASSUME LocalInv, Local!OrphanWrites \/ Local!Crash \/ Local!load_or_create
    PROVE  LocalInv'
<1>1. CASE Local!OrphanWrites
  <2>1. hurt = TRUE /\ orphan \in Local!Contents
    BY <1>1 DEF Local!OrphanWrites, LocalInv, LocalTypes, Durable
  <2>2. QED
    BY <1>1, <2>1 DEF Local!OrphanWrites, LocalInv, LocalTypes, Durable
<1>2. CASE Local!Crash
  <2>1. /\ store' = Nil /\ admin' = [a \in Handlers |-> Local!Idle] /\ orphan' = Nil
        /\ runtime' = [rev |-> 0, active |-> {}] /\ started' = {} /\ acked' = acked
    BY <1>2 DEF Local!Crash
  <2>2. PICK none \in 0..MaxRuntime : none = 0
    BY LocalConstants
  <2>3. runtime' \in [rev: 0..MaxRuntime, active: SUBSET LocalIds] /\ runtime'.active = {}
    BY <2>1, <2>2
  <2>4. IsFiniteSet({}) /\ Cardinality({}) <= MaxActive
    BY FS_EmptySet, LocalConstants
  <2>5. faults' \in 0..MaxFaults
    BY <1>2, LocalConstants DEF Local!Crash, Local!Fault, LocalInv, LocalTypes
  <2>6. /\ hurt' \in BOOLEAN /\ file' \in Local!Contents \cup {EmptyFile, Partial}
    BY <1>2 DEF Local!Crash, LocalInv, LocalTypes
  <2>7. admin' \in [Handlers -> LocalCalls] /\ \A a \in Handlers : admin'[a] = Local!Idle
    BY <2>1 DEF LocalCalls
  <2>8. ~hurt' => ~hurt /\ file' = file /\ \A a \in Handlers : admin[a].at # "write"
    BY <1>2 DEF Local!Crash, Local!Writers, LocalInv, LocalTypes
  <2>9. Durable'
    BY <2>1, <2>8 DEF LocalInv, Durable
  <2>10. \A a \in Handlers : AdminOK(admin'[a], store', runtime')
    BY <2>7, LocalConstants
  <2>11. QED
    BY <2>1, <2>3, <2>4, <2>5, <2>6, <2>7, <2>9, <2>10 DEF LocalInv, LocalTypes
<1>3. CASE Local!load_or_create
  <2>1. /\ store = Nil /\ file # Partial
        /\ UNCHANGED <<file, admin, orphan, runtime, started, acked, hurt, faults>>
        /\ store' = IF file = EmptyFile THEN Local!NoConfigs ELSE file
    BY <1>3 DEF Local!load_or_create, Local!Up
  <2>2. store' \in Local!Contents
    BY <2>1, LocalConstants DEF LocalInv, LocalTypes
  <2>3. ASSUME NEW a \in Handlers
        PROVE  admin[a].at = "idle" /\ AdminOK(admin[a], store', runtime)
    BY <2>1 DEF LocalInv, AdminOK
  <2>4. ~hurt => file \in Local!Contents /\ acked <= file.rev /\ orphan = Nil
    BY <2>3 DEF LocalInv, Durable
  <2>5. Durable'
    BY <2>1, <2>3, <2>4, LocalConstants DEF Durable
  <2>6. QED
    BY <2>1, <2>2, <2>3, <2>5 DEF LocalInv, LocalTypes
<1>4. QED
  BY <1>1, <1>2, <1>3

\* Every step keeps the invariant.
LEMMA LocalNext == LocalInv /\ Local!Next => LocalInv'
BY AskSteps, ChangeStep, WriteSteps, RuntimeSteps, ProcessSteps DEF Local!Next, Local!AdminStep

\* An empty store has been written.
LEMMA LocalInit == Local!Init => LocalInv
<1>1. SUFFICES ASSUME Local!Init PROVE LocalInv
  OBVIOUS
<1>2. runtime = [rev |-> 0, active |-> {}]
  BY <1>1 DEF Local!Init
<1>3. PICK none \in 0..MaxRuntime : none = 0
  BY LocalConstants
<1>4. runtime \in [rev: 0..MaxRuntime, active: SUBSET LocalIds] /\ runtime.active = {}
  BY <1>2, <1>3
<1>5. IsFiniteSet({}) /\ Cardinality({}) <= MaxActive
  BY FS_EmptySet, LocalConstants
<1>6. /\ store \in Local!Contents /\ store.rev = 0 /\ file = store /\ acked = 0
      /\ acked \in 0..MaxRevision /\ faults \in 0..MaxFaults
      /\ orphan = Nil /\ started = {}
  BY <1>1, LocalConstants DEF Local!Init
<1>h. hurt \in BOOLEAN
  BY <1>1 DEF Local!Init
<1>7. admin \in [Handlers -> LocalCalls] /\ \A a \in Handlers : admin[a] = Local!Idle
  BY <1>1 DEF Local!Init, LocalCalls
<1>8. Durable
  BY <1>6 DEF Durable
<1>9. LocalTypes
  BY <1>4, <1>6, <1>7, <1>h DEF LocalTypes
<1>10. QED
  BY <1>4, <1>5, <1>7, <1>8, <1>9, LocalConstants DEF LocalInv

\* LocalSandboxConfigStore and set_local_sandbox_activation: what an administrator
\* was told is in the file once nobody writes it and in the memory of a restarted
\* process, as long as no write was cut short; and the limit of active sandboxes
\* holds, for any number of concurrent administrators.
THEOREM LocalStoreSound == Spec => []AcknowledgedIsDurable
<1> DEFINE I == runs = "local" => LocalInv
<1>1. Init => I
  BY LocalInit DEF Init
<1>2. I /\ [Next]_vars => I'
  <2>1. LocalInv /\ UNCHANGED localVars => LocalInv'
    BY DEF LocalInv, LocalTypes, Durable, localVars
  <2>2. QED
    BY <2>1, LocalNext DEF Next, vars
<1>3. I => AcknowledgedIsDurable
  <2>1. SUFFICES ASSUME LocalInv
                 PROVE  Local!TypeOK /\ Local!AcknowledgedIsDurable /\ Local!ActiveLimit
    BY DEF AcknowledgedIsDurable
  <2>2. Local!TypeOK
    BY <2>1 DEF LocalInv, LocalTypes, LocalCalls, Changing, Storing, Driving, Local!TypeOK
  <2>3. Local!AcknowledgedIsDurable
    <3>1. SUFFICES ASSUME ~hurt
                   PROVE  /\ Local!Writers = {} => file \in Local!Contents /\ file.rev >= acked
                          /\ store # Nil => store.rev >= acked
      BY DEF Local!AcknowledgedIsDurable, Local!Up
    <3>2. Local!Writers = {} => \A a \in Handlers : admin[a].at # "write"
      BY DEF Local!Writers
    <3>3. QED
      BY <2>1, <3>1, <3>2 DEF LocalInv, Durable
  <2>4. Local!ActiveLimit
    <3>1. Cardinality(runtime.active) = Local!Cardinality(runtime.active)
      BY DEF Cardinality, Local!Cardinality
    <3>2. QED
      BY <2>1, <3>1 DEF LocalInv, Local!ActiveLimit
  <2>5. QED
    BY <2>2, <2>3, <2>4
<1>4. QED
  BY <1>1, <1>2, <1>3, PTL DEF Spec

-----------------------------------------------------------------------------
(* Who remembers tracks. *)

Pairs == [map: Maps, track: Maps]
Descs == UNION {[d -> Pairs] : d \in SUBSET Tracks!Sources}
SourceMaps == UNION {[d -> Maps] : d \in SUBSET Tracks!Sources}
WorldMaps == UNION {[d -> Maps] : d \in SUBSET ({Tracks!Local} \cup Tracks!Sources)}
Streamers == [at: {"closed", "resolve", "read", "send", "tick"}, frame: WorldMaps,
              todo: SUBSET Tracks!Sources, got: Descs, announced: SourceMaps]

\* A track belongs to the map it is kept for, or was read late.
Fits(f, pairs) ==
    \A src \in DOMAIN f : f[src].track = f[src].map \/ <<src, f[src].map>> \in pairs

\* A stream with what its client knows (k) and has seen last (n): what is announced
\* is known with the map it was announced with, and is what the client has seen,
\* but for a round that is still to be sent.
StreamOK(q, k, n, pairs) ==
    /\ q.todo \subseteq DOMAIN q.frame /\ DOMAIN q.got \subseteq DOMAIN q.frame
    /\ q.at = "read" => q.todo # {}
    /\ q.at = "send" => q.todo = {}
    /\ \A src \in DOMAIN q.announced : src \in DOMAIN k /\ k[src].map = q.announced[src]
    /\ q.at # "send" => n = q.announced
    /\ DOMAIN n \subseteq DOMAIN k
    /\ Fits(q.got, pairs) /\ Fits(k, pairs)

TrackInv ==
    /\ world \in WorldMaps /\ latest \in WorldMaps
    /\ Tracks!Race \in DOMAIN world => DOMAIN world = {Tracks!Race}
    /\ late \in [pairs: SUBSET (Tracks!Sources \X Maps), maps: SUBSET Maps]
    /\ descriptors \in Descs /\ Fits(descriptors, late.pairs)
    /\ feed \in [Streams -> Streamers]
    /\ known \in [Streams -> Descs]
    /\ snap \in [Streams -> SourceMaps]
    /\ \A s \in Streams : StreamOK(feed[s], known[s], snap[s], late.pairs)
    /\ DOMAIN reader = Readers
    /\ \A r \in Readers : reader[r] # Nil => reader[r].map \in Maps
    /\ DOMAIN tracks \subseteq Maps
    /\ \A map \in DOMAIN tracks : tracks[map] = map \/ map \in late.maps

\* The sources are numbers, and the race is not a sandbox.
LEMMA SourcesAre ==
    /\ Tracks!Sources \subseteq Nat
    /\ Tracks!Race \in Tracks!Sources /\ Tracks!Local \notin Tracks!Sources
    /\ Tracks!Race \notin Sandboxes
    /\ Tracks!Race # Tracks!Local
    /\ Sandboxes \subseteq Tracks!Sources
BY Assumptions DEF Tracks!TrackAssumption, Tracks!Sources, Tracks!Race, Tracks!Local

\* A set of numbers has a least one.
LEMMA LeastNatural ==
    ASSUME NEW T \in SUBSET Nat, T # {}
    PROVE  \E x \in T : \A y \in T : x <= y
<1> DEFINE less == {p \in Nat \X Nat : p[1] < p[2]}
<1>w. IsWellFoundedOn(less, Nat)
  BY NatLessThanWellFounded DEF OpToRel
<1> HIDE DEF less
<1>2. PICK x \in T : \A y \in T : <<y, x>> \notin less
  BY <1>w, WFMin
<1>l. ASSUME NEW y \in Nat, NEW z \in Nat, y < z PROVE <<y, z>> \in less
  <2>1. <<y, z>> \in Nat \X Nat /\ <<y, z>>[1] = y /\ <<y, z>>[2] = z
    OBVIOUS
  <2>2. QED
    BY <1>l, <2>1 DEF less
<1>3. \A y \in T : x <= y
  <2>1. SUFFICES ASSUME NEW y \in T PROVE x <= y
    OBVIOUS
  <2>2. x \in Nat /\ y \in Nat /\ ~(y < x)
    BY <1>2, <1>l
  <2>3. QED
    BY <2>2
<1>4. QED
  BY <1>3

\* The next source to resolve is one of those left.
LEMMA MinIsLeft ==
    ASSUME NEW T \in SUBSET Tracks!Sources, T # {}
    PROVE  Tracks!Min(T) \in T
<1>1. T \subseteq Nat
  BY SourcesAre
<1>2. QED
  BY <1>1, LeastNatural DEF Tracks!Min

\* Functions on nothing, with one more value, and with others replaced.
LEMMA EmptyIs ==
    /\ DOMAIN Tracks!Empty = {}
    /\ Tracks!Empty \in Descs /\ Tracks!Empty \in SourceMaps /\ Tracks!Empty \in WorldMaps
    /\ \A pairs : Fits(Tracks!Empty, pairs)
<1>1. DOMAIN Tracks!Empty = {}
  BY DEF Tracks!Empty
<1>2. \A R : Tracks!Empty \in [{} -> R]
  BY DEF Tracks!Empty
<1>3. QED
  BY <1>1, <1>2 DEF Descs, SourceMaps, WorldMaps, Fits

\* A partial function belongs to the functions on its domain.
LEMMA PartialFunctions ==
    /\ \A f \in Descs : DOMAIN f \in SUBSET Tracks!Sources /\ f \in [DOMAIN f -> Pairs]
    /\ \A f \in SourceMaps : DOMAIN f \in SUBSET Tracks!Sources /\ f \in [DOMAIN f -> Maps]
    /\ \A f \in WorldMaps : /\ DOMAIN f \in SUBSET ({Tracks!Local} \cup Tracks!Sources)
                            /\ f \in [DOMAIN f -> Maps]
    /\ \A d \in SUBSET Tracks!Sources : [d -> Pairs] \subseteq Descs /\ [d -> Maps] \subseteq SourceMaps
    /\ \A d \in SUBSET ({Tracks!Local} \cup Tracks!Sources) : [d -> Maps] \subseteq WorldMaps
BY DEF Descs, SourceMaps, WorldMaps

\* A descriptor is put in.
LEMMA PutIs ==
    ASSUME NEW f \in Descs, NEW src \in Tracks!Sources, NEW p \in Pairs, NEW pairs,
           Fits(f, pairs), p.track = p.map \/ <<src, p.map>> \in pairs
    PROVE  /\ Tracks!Put(f, src, p) \in Descs /\ Fits(Tracks!Put(f, src, p), pairs)
           /\ DOMAIN Tracks!Put(f, src, p) = DOMAIN f \cup {src}
<1> DEFINE d == DOMAIN f \cup {src}
           g == [x \in d |-> IF x = src THEN p ELSE f[x]]
<1>1. Tracks!Put(f, src, p) = g
  BY DEF Tracks!Put
<1>2. g \in [d -> Pairs] /\ d \in SUBSET Tracks!Sources
  BY PartialFunctions
<1>3. g \in Descs /\ DOMAIN g = d
  BY <1>2, PartialFunctions
<1>4. Fits(g, pairs)
  BY DEF Fits
<1>5. QED
  BY <1>1, <1>3, <1>4

\* More late readings only excuse more.
LEMMA FitsGrows ==
    \A f, old, new : old \subseteq new /\ Fits(f, old) => Fits(f, new)
BY DEF Fits

\* A stream moves; what its client knows and has seen, the cache and the history may
\* change with it.
LEMMA StreamMoves ==
    ASSUME TrackInv, NEW s \in Streams, NEW q \in Streamers, NEW k \in Descs, NEW n \in SourceMaps,
           feed' = [feed EXCEPT ![s] = q],
           known' = [known EXCEPT ![s] = k],
           snap' = [snap EXCEPT ![s] = n],
           late' \in [pairs: SUBSET (Tracks!Sources \X Maps), maps: SUBSET Maps],
           late'.maps = late.maps, late.pairs \subseteq late'.pairs,
           StreamOK(q, k, n, late'.pairs),
           descriptors' \in Descs, Fits(descriptors', late'.pairs),
           UNCHANGED <<world, latest, tracks, reader>>
    PROVE  TrackInv'
<1>1. /\ feed' \in [Streams -> Streamers] /\ known' \in [Streams -> Descs]
      /\ snap' \in [Streams -> SourceMaps]
  BY DEF TrackInv
<1>2. ASSUME NEW t \in Streams PROVE StreamOK(feed'[t], known'[t], snap'[t], late'.pairs)
  <2>1. CASE t = s
    <3>1. feed'[t] = q /\ known'[t] = k /\ snap'[t] = n
      BY <2>1 DEF TrackInv
    <3>2. QED
      BY <3>1
  <2>2. CASE t # s
    <3>1. feed'[t] = feed[t] /\ known'[t] = known[t] /\ snap'[t] = snap[t]
      BY <2>2 DEF TrackInv
    <3>2. StreamOK(feed[t], known[t], snap[t], late.pairs)
      BY DEF TrackInv
    <3>3. QED
      BY <3>1, <3>2, FitsGrows DEF StreamOK
  <2>3. QED
    BY <2>1, <2>2
<1>3. \A map \in DOMAIN tracks' : tracks'[map] = map \/ map \in late'.maps
  BY DEF TrackInv
<1>4. QED
  BY <1>1, <1>2, <1>3 DEF TrackInv

\* The steps of a stream but for the answers of the engine.
LEMMA RoundSteps ==
    ASSUME TrackInv, NEW s \in Streams,
           \/ Tracks!Round(s) \/ Tracks!SendSnapshot(s) \/ Tracks!Close(s) \/ Tracks!ReadFails(s)
           \/ Tracks!Announce(s)
    PROVE  TrackInv'
<1> DEFINE c == feed[s]
           k == known[s]
           n == snap[s]
<1>t. /\ c \in Streamers /\ k \in Descs /\ n \in SourceMaps /\ StreamOK(c, k, n, late.pairs)
      /\ feed \in [Streams -> Streamers] /\ known \in [Streams -> Descs] /\ snap \in [Streams -> SourceMaps]
      /\ late \in [pairs: SUBSET (Tracks!Sources \X Maps), maps: SUBSET Maps]
      /\ descriptors \in Descs /\ Fits(descriptors, late.pairs) /\ latest \in WorldMaps
  BY DEF TrackInv
<1>k. known = [known EXCEPT ![s] = k] /\ snap = [snap EXCEPT ![s] = n]
  BY <1>t
<1>u. UNCHANGED <<world, latest, descriptors, tracks, reader, late>>
  BY DEF Tracks!Round, Tracks!SendSnapshot, Tracks!Close, Tracks!ReadFails, Tracks!Announce
<1>s. /\ late' \in [pairs: SUBSET (Tracks!Sources \X Maps), maps: SUBSET Maps]
      /\ late'.maps = late.maps /\ late.pairs \subseteq late'.pairs
      /\ descriptors' \in Descs /\ Fits(descriptors', late'.pairs)
      /\ UNCHANGED <<world, latest, tracks, reader>> /\ k \in Descs /\ n \in SourceMaps
  BY <1>t, <1>u
<1>1. CASE Tracks!Round(s)
  <2> DEFINE q == [c EXCEPT !.at = "resolve", !.frame = latest,
                            !.todo = Tracks!active_sources(latest), !.got = Tracks!Empty]
  <2>1. Tracks!active_sources(latest) \in SUBSET Tracks!Sources
        /\ Tracks!active_sources(latest) \subseteq DOMAIN latest
    BY DEF Tracks!active_sources
  <2>2. /\ q \in Streamers /\ q.at = "resolve" /\ q.frame = latest
        /\ q.todo = Tracks!active_sources(latest) /\ q.got = Tracks!Empty
        /\ q.announced = c.announced
    BY <1>t, <2>1, EmptyIs DEF Streamers
  <2>3. feed' = [feed EXCEPT ![s] = q] /\ UNCHANGED <<known, snap>> /\ c.at # "send"
    BY <1>1, <1>t DEF Tracks!Round
  <2> HIDE DEF q
  <2>4. StreamOK(q, k, n, late'.pairs)
    BY <1>t, <1>u, <2>1, <2>2, <2>3, EmptyIs DEF StreamOK
  <2>5. known' = [known EXCEPT ![s] = k] /\ snap' = [snap EXCEPT ![s] = n]
    BY <1>k, <2>3
  <2>6. feed' = [feed EXCEPT ![s] = q] /\ q \in Streamers
    BY <2>2, <2>3
  <2> HIDE DEF c, k, n
  <2>7. QED
    BY <1>s, <2>4, <2>5, <2>6, StreamMoves
<1>2. CASE Tracks!SendSnapshot(s)
  <2> DEFINE q == [c EXCEPT !.at = "tick", !.frame = Tracks!Empty, !.got = Tracks!Empty]
  <2>1. /\ q \in Streamers /\ q.at = "tick" /\ q.frame = Tracks!Empty /\ q.todo = c.todo
        /\ q.got = Tracks!Empty /\ q.announced = c.announced /\ c.announced \in SourceMaps
    BY <1>t, EmptyIs DEF Streamers
  <2>2. /\ feed' = [feed EXCEPT ![s] = q] /\ UNCHANGED known /\ c.at = "send"
        /\ snap' = [snap EXCEPT ![s] = c.announced]
    BY <1>2, <1>t DEF Tracks!SendSnapshot
  <2> HIDE DEF q
  <2>3. StreamOK(q, k, c.announced, late.pairs)
    BY <1>t, <2>1, <2>2, EmptyIs DEF StreamOK
  <2>4. known' = [known EXCEPT ![s] = k] /\ StreamOK(q, k, c.announced, late'.pairs)
    BY <1>k, <1>u, <2>2, <2>3
  <2> HIDE DEF c, k, n
  <2>5. QED
    BY <1>s, <2>1, <2>2, <2>4, StreamMoves
<1>3. CASE Tracks!Close(s)
  <2>1. /\ Tracks!Closed \in Streamers /\ Tracks!Closed.at = "closed"
        /\ Tracks!Closed.frame = Tracks!Empty /\ Tracks!Closed.todo = {}
        /\ Tracks!Closed.got = Tracks!Empty /\ Tracks!Closed.announced = Tracks!Empty
    BY EmptyIs DEF Tracks!Closed, Streamers
  <2>2. StreamOK(Tracks!Closed, Tracks!Empty, Tracks!Empty, late.pairs)
    BY <2>1, EmptyIs DEF StreamOK
  <2>3. /\ feed' = [feed EXCEPT ![s] = Tracks!Closed]
        /\ known' = [known EXCEPT ![s] = Tracks!Empty] /\ snap' = [snap EXCEPT ![s] = Tracks!Empty]
    BY <1>3 DEF Tracks!Close
  <2>4. QED
    BY <1>t, <1>u, <2>1, <2>2, <2>3, EmptyIs, StreamMoves
<1>4. CASE Tracks!ReadFails(s)
  <2> DEFINE q == [c EXCEPT !.at = "resolve", !.todo = c.todo \ {Tracks!Min(c.todo)}]
  <2>1. /\ q \in Streamers /\ q.at = "resolve" /\ q.todo \subseteq c.todo
        /\ q.frame = c.frame /\ q.got = c.got /\ q.announced = c.announced
    BY <1>t DEF Streamers
  <2>2. feed' = [feed EXCEPT ![s] = q] /\ UNCHANGED <<known, snap>> /\ c.at = "read"
    BY <1>4, <1>t DEF Tracks!ReadFails
  <2> HIDE DEF q
  <2>3. StreamOK(q, k, n, late.pairs)
    BY <1>t, <2>1, <2>2 DEF StreamOK
  <2>4. /\ known' = [known EXCEPT ![s] = k] /\ snap' = [snap EXCEPT ![s] = n]
        /\ StreamOK(q, k, n, late'.pairs)
    BY <1>k, <1>u, <2>2, <2>3
  <2> HIDE DEF c, k, n
  <2>5. QED
    BY <1>s, <2>1, <2>2, <2>4, StreamMoves
<1>5. CASE Tracks!Announce(s)
  <2>0. c.got \in Descs /\ c.announced \in SourceMaps
    BY <1>t DEF Streamers
  <2>1. /\ DOMAIN c.got \subseteq Tracks!Sources /\ \A x \in DOMAIN c.got : c.got[x] \in Pairs
        /\ DOMAIN k \subseteq Tracks!Sources /\ \A x \in DOMAIN k : k[x] \in Pairs
    BY <1>t, <2>0, PartialFunctions
  <2> DEFINE up == Tracks!Upserted(s)
             an == [src \in DOMAIN c.got |-> c.got[src].map]
             kn == [src \in DOMAIN k \cup up |-> IF src \in up THEN c.got[src] ELSE k[src]]
             q == [c EXCEPT !.at = "send", !.announced = an]
  <2>2. up \subseteq DOMAIN c.got
        /\ \A x \in DOMAIN c.got : x \notin up => x \in DOMAIN c.announced /\ c.announced[x] = c.got[x].map
    BY DEF Tracks!Upserted
  <2>3. an \in SourceMaps /\ DOMAIN an = DOMAIN c.got
    <3>1. an \in [DOMAIN c.got -> Maps]
      BY <2>1 DEF Pairs
    <3>2. QED
      BY <3>1, <2>1, PartialFunctions
  <2>4. kn \in Descs /\ DOMAIN kn = DOMAIN k \cup up
    <3>1. kn \in [DOMAIN k \cup up -> Pairs] /\ DOMAIN k \cup up \in SUBSET Tracks!Sources
      BY <2>1, <2>2
    <3>2. QED
      BY <3>1, PartialFunctions
  <2>5. /\ q \in Streamers /\ q.at = "send" /\ q.announced = an /\ q.todo = c.todo
        /\ q.frame = c.frame /\ q.got = c.got
    BY <1>t, <2>3 DEF Streamers
  <2>6. /\ feed' = [feed EXCEPT ![s] = q] /\ UNCHANGED snap /\ c.at # "send" /\ c.todo = {}
        /\ known' = [known EXCEPT ![s] = kn]
    BY <1>5, <1>t DEF Tracks!Announce
  <2>7. Fits(kn, late.pairs)
    BY <1>t, <2>2, <2>4 DEF StreamOK, Fits
  <2>8. \A src \in DOMAIN an : src \in DOMAIN kn /\ kn[src].map = an[src]
    <3>1. SUFFICES ASSUME NEW src \in DOMAIN c.got
                   PROVE  src \in DOMAIN k \cup up /\ kn[src].map = c.got[src].map
      BY <2>3, <2>4
    <3>2. CASE src \in up
      BY <3>2
    <3>3. CASE src \notin up
      <4>1. src \in DOMAIN k /\ k[src].map = c.got[src].map
        BY <3>3, <2>2, <1>t DEF StreamOK
      <4>2. QED
        BY <3>3, <4>1
    <3>4. QED
      BY <3>2, <3>3
  <2> HIDE DEF q, an, kn, up
  <2>9. StreamOK(q, kn, n, late.pairs)
    BY <1>t, <2>4, <2>5, <2>6, <2>7, <2>8 DEF StreamOK
  <2>10. snap' = [snap EXCEPT ![s] = n] /\ StreamOK(q, kn, n, late'.pairs)
    BY <1>k, <1>u, <2>6, <2>9
  <2> HIDE DEF c, k, n
  <2>11. QED
    BY <1>s, <2>4, <2>5, <2>6, <2>10, StreamMoves
<1>6. QED
  BY <1>1, <1>2, <1>3, <1>4, <1>5

\* A source is resolved from the cache, if that is of the map of the frame, or by
\* the engine, whose track may be another map's by now: then the reading was late.
LEMMA ResolveSteps ==
    ASSUME TrackInv, NEW s \in Streams, Tracks!Resolve(s) \/ Tracks!ReadTrack(s)
    PROVE  TrackInv'
<1> DEFINE c == feed[s]
           k == known[s]
           n == snap[s]
           src == Tracks!Min(c.todo)
           map == c.frame[src]
<1>t. /\ c \in Streamers /\ k \in Descs /\ n \in SourceMaps /\ StreamOK(c, k, n, late.pairs)
      /\ feed \in [Streams -> Streamers] /\ known \in [Streams -> Descs] /\ snap \in [Streams -> SourceMaps]
      /\ late \in [pairs: SUBSET (Tracks!Sources \X Maps), maps: SUBSET Maps]
      /\ descriptors \in Descs /\ Fits(descriptors, late.pairs) /\ world \in WorldMaps
  BY DEF TrackInv
<1>k. known = [known EXCEPT ![s] = k] /\ snap = [snap EXCEPT ![s] = n]
  BY <1>t
<1>1. c.at \in {"resolve", "read"} /\ c.todo # {} /\ c.todo \in SUBSET Tracks!Sources
  BY <1>t DEF Tracks!Resolve, Tracks!ReadTrack, StreamOK, Streamers
<1>2. src \in c.todo /\ src \in Tracks!Sources
  BY <1>1, MinIsLeft
<1>3. src \in DOMAIN c.frame /\ map \in Maps /\ c.frame \in WorldMaps /\ c.got \in Descs
  BY <1>2, <1>t, PartialFunctions DEF StreamOK, Streamers
<1>4. ASSUME NEW track \in Maps, NEW l \in [pairs: SUBSET (Tracks!Sources \X Maps), maps: SUBSET Maps],
             late' = l, l.maps = late.maps, late.pairs \subseteq l.pairs,
             track = map \/ <<src, map>> \in l.pairs, Tracks!Resolved(s, src, track),
             descriptors' \in Descs, Fits(descriptors', l.pairs),
             UNCHANGED <<world, latest, tracks, reader, known, snap>>
      PROVE  TrackInv'
  <2> DEFINE p == [map |-> map, track |-> track]
             g == Tracks!Put(c.got, src, p)
             q == [c EXCEPT !.at = "resolve", !.todo = c.todo \ {src}, !.got = g]
  <2>1. p \in Pairs /\ p.map = map /\ p.track = track
    BY <1>3 DEF Pairs
  <2>2. feed' = [feed EXCEPT ![s] = q]
    BY <1>4, <1>t DEF Tracks!Resolved
  <2> HIDE DEF p
  <2>3. Fits(c.got, l.pairs) /\ Fits(k, l.pairs)
    BY <1>t, <1>4, FitsGrows DEF StreamOK
  <2>4. g \in Descs /\ Fits(g, l.pairs) /\ DOMAIN g = DOMAIN c.got \cup {src}
    BY <1>2, <1>3, <1>4, <2>1, <2>3, PutIs
  <2> HIDE DEF g
  <2>5. /\ q \in Streamers /\ q.at = "resolve" /\ q.todo \subseteq c.todo /\ q.got = g
        /\ q.frame = c.frame /\ q.announced = c.announced
    BY <1>t, <2>4 DEF Streamers
  <2> HIDE DEF q
  <2>6. StreamOK(q, k, n, late'.pairs)
    BY <1>t, <1>1, <1>3, <1>4, <2>3, <2>4, <2>5 DEF StreamOK
  <2>7. known' = [known EXCEPT ![s] = k] /\ snap' = [snap EXCEPT ![s] = n]
    BY <1>k, <1>4
  <2>8. /\ late' \in [pairs: SUBSET (Tracks!Sources \X Maps), maps: SUBSET Maps]
        /\ late'.maps = late.maps /\ late.pairs \subseteq late'.pairs
        /\ descriptors' \in Descs /\ Fits(descriptors', late'.pairs)
        /\ UNCHANGED <<world, latest, tracks, reader>> /\ k \in Descs /\ n \in SourceMaps
    BY <1>t, <1>4
  <2> HIDE DEF c, k, n
  <2>9. QED
    BY <2>2, <2>5, <2>6, <2>7, <2>8, StreamMoves
<1>5. CASE Tracks!Resolve(s) /\ Tracks!Cached(src, map)
  <2>1. src \in DOMAIN descriptors /\ descriptors[src].map = map
    BY <1>5 DEF Tracks!Cached
  <2>2. descriptors[src] \in Pairs
    BY <1>t, <2>1, PartialFunctions
  <2>3. descriptors[src].track \in Maps
    BY <2>2 DEF Pairs
  <2>4. descriptors[src].track = map \/ <<src, map>> \in late.pairs
    BY <1>t, <2>1 DEF Fits
  <2>5. /\ Tracks!Resolved(s, src, descriptors[src].track)
        /\ UNCHANGED <<world, latest, descriptors, tracks, reader, late, known, snap>>
    BY <1>5 DEF Tracks!Resolve
  <2>6. QED
    BY <1>t, <1>4, <2>3, <2>4, <2>5
<1>6. CASE Tracks!Resolve(s) /\ ~Tracks!Cached(src, map)
  <2> DEFINE q == [c EXCEPT !.at = "read"]
  <2>1. /\ q \in Streamers /\ q.at = "read" /\ q.todo = c.todo /\ q.got = c.got
        /\ q.frame = c.frame /\ q.announced = c.announced
    BY <1>t DEF Streamers
  <2>2. /\ feed' = [feed EXCEPT ![s] = q]
        /\ UNCHANGED <<world, latest, descriptors, tracks, reader, late, known, snap>>
    BY <1>6, <1>t DEF Tracks!Resolve
  <2> HIDE DEF q
  <2>3. StreamOK(q, k, n, late'.pairs)
    BY <1>t, <1>1, <2>1, <2>2 DEF StreamOK
  <2>4. known' = [known EXCEPT ![s] = k] /\ snap' = [snap EXCEPT ![s] = n]
    BY <1>k, <2>2
  <2>5. /\ late' \in [pairs: SUBSET (Tracks!Sources \X Maps), maps: SUBSET Maps]
        /\ late'.maps = late.maps /\ late.pairs \subseteq late'.pairs
        /\ descriptors' \in Descs /\ Fits(descriptors', late'.pairs)
        /\ UNCHANGED <<world, latest, tracks, reader>> /\ k \in Descs /\ n \in SourceMaps
    BY <1>t, <2>2
  <2> HIDE DEF c, k, n
  <2>6. QED
    BY <2>1, <2>2, <2>3, <2>4, <2>5, StreamMoves
<1>7. CASE Tracks!ReadTrack(s)
  <2>1. src \in DOMAIN world /\ world[src] \in Maps
    BY <1>7, <1>t, PartialFunctions DEF Tracks!ReadTrack
  <2> DEFINE p == [map |-> map, track |-> world[src]]
  <2>2. p \in Pairs /\ p.map = map /\ p.track = world[src]
    BY <1>3, <2>1 DEF Pairs
  <2>3. /\ descriptors' = Tracks!Put(descriptors, src, p)
        /\ Tracks!Resolved(s, src, world[src])
        /\ late' = IF world[src] = map THEN late
                   ELSE [late EXCEPT !.pairs = late.pairs \cup {<<src, map>>}]
        /\ UNCHANGED <<world, latest, tracks, reader, known, snap>>
    BY <1>7 DEF Tracks!ReadTrack
  <2> HIDE DEF p
  <2>4. PICK l \in [pairs: SUBSET (Tracks!Sources \X Maps), maps: SUBSET Maps] :
           /\ late' = l /\ l.maps = late.maps /\ late.pairs \subseteq l.pairs
           /\ world[src] = map \/ <<src, map>> \in l.pairs
    <3>1. CASE world[src] = map
      BY <3>1, <2>3, <1>t
    <3>2. CASE world[src] # map
      <4> DEFINE ps == late.pairs \cup {<<src, map>>}
                 l == [late EXCEPT !.pairs = ps]
      <4>1. ps \in SUBSET (Tracks!Sources \X Maps)
        BY <1>2, <1>3, <1>t
      <4> HIDE DEF ps
      <4>2. /\ l \in [pairs: SUBSET (Tracks!Sources \X Maps), maps: SUBSET Maps]
            /\ l.maps = late.maps /\ l.pairs = ps
        BY <1>t, <4>1
      <4>3. late' = l
        BY <2>3, <3>2 DEF ps
      <4>4. late.pairs \subseteq ps /\ <<src, map>> \in ps
        BY DEF ps
      <4> HIDE DEF l
      <4>5. QED
        BY <4>2, <4>3, <4>4
    <3>3. QED
      BY <3>1, <3>2
  <2>5. Fits(descriptors, l.pairs)
    BY <1>t, <2>4, FitsGrows
  <2>6. descriptors' \in Descs /\ Fits(descriptors', l.pairs)
    BY <1>2, <1>t, <2>2, <2>3, <2>4, <2>5, PutIs
  <2>7. QED
    BY <1>4, <2>1, <2>3, <2>4, <2>6
<1>8. QED
  BY <1>5, <1>6, <1>7

\* The engine, the frame hub and the requests for tracks.
LEMMA OtherTrackSteps ==
    ASSUME TrackInv,
           \/ Tracks!Switch \/ Tracks!Publish
           \/ \E r \in Readers : \/ \E map \in Maps : Tracks!GetTrack(r, map)
                                 \/ Tracks!StoreTrack(r) \/ Tracks!GiveUp(r)
    PROVE  TrackInv'
<1>1. CASE Tracks!Switch
  <2>1. PICK d \in {{Tracks!Race}} \cup SUBSET ({Tracks!Local} \cup Sandboxes) : world' \in [d -> Maps]
    BY <1>1 DEF Tracks!Switch, Tracks!Worlds
  <2>2. d \in SUBSET ({Tracks!Local} \cup Tracks!Sources) /\ (Tracks!Race \in d => d = {Tracks!Race})
    BY <2>1, SourcesAre
  <2>3. world' \in WorldMaps /\ DOMAIN world' = d
    BY <2>1, <2>2, PartialFunctions
  <2>4. UNCHANGED <<latest, descriptors, feed, known, snap, tracks, reader, late>>
    BY <1>1 DEF Tracks!Switch
  <2>5. QED
    BY <2>2, <2>3, <2>4 DEF TrackInv
<1>2. CASE Tracks!Publish
  BY <1>2 DEF Tracks!Publish, TrackInv
<1>3. ASSUME NEW r \in Readers, NEW map \in Maps, Tracks!GetTrack(r, map) PROVE TrackInv'
  <2> DEFINE v == [map |-> map, src |-> Tracks!resolve_track_target(map)]
  <2>1. /\ reader' = [reader EXCEPT ![r] = v]
        /\ UNCHANGED <<world, latest, descriptors, feed, known, snap, tracks, late>>
    BY <1>3 DEF Tracks!GetTrack
  <2>2. v.map = map
    OBVIOUS
  <2> HIDE DEF v
  <2>3. DOMAIN reader' = Readers /\ \A o \in Readers : reader'[o] # Nil => reader'[o].map \in Maps
    BY <2>1, <2>2 DEF TrackInv
  <2>4. QED
    BY <2>1, <2>3 DEF TrackInv
<1>4. ASSUME NEW r \in Readers, Tracks!GiveUp(r) PROVE TrackInv'
  <2>1. /\ reader' = [reader EXCEPT ![r] = Nil]
        /\ UNCHANGED <<world, latest, descriptors, feed, known, snap, tracks, late>>
    BY <1>4 DEF Tracks!GiveUp
  <2>2. DOMAIN reader' = Readers /\ \A o \in Readers : reader'[o] # Nil => reader'[o].map \in Maps
    BY <2>1 DEF TrackInv
  <2>3. QED
    BY <2>1, <2>2 DEF TrackInv
<1>5. ASSUME NEW r \in Readers, Tracks!StoreTrack(r) PROVE TrackInv'
  <2> DEFINE map == reader[r].map
             track == world[reader[r].src]
  <2>1. map \in Maps
    BY <1>5 DEF Tracks!StoreTrack, TrackInv
  <2>2. /\ reader' = [reader EXCEPT ![r] = Nil]
        /\ tracks' = Tracks!Put(tracks, map, track)
        /\ late' = IF track = map THEN late ELSE [late EXCEPT !.maps = late.maps \cup {map}]
        /\ UNCHANGED <<world, latest, descriptors, feed, known, snap>>
    BY <1>5 DEF Tracks!StoreTrack
  <2> HIDE DEF map, track
  <2>3. DOMAIN reader' = Readers /\ \A o \in Readers : reader'[o] # Nil => reader'[o].map \in Maps
    BY <2>2 DEF TrackInv
  <2>4. /\ late' \in [pairs: SUBSET (Tracks!Sources \X Maps), maps: SUBSET Maps]
        /\ late'.pairs = late.pairs /\ late.maps \subseteq late'.maps
        /\ track = map \/ map \in late'.maps
    <3>1. late \in [pairs: SUBSET (Tracks!Sources \X Maps), maps: SUBSET Maps]
      BY DEF TrackInv
    <3>2. CASE track = map
      BY <2>2, <3>1, <3>2
    <3>3. CASE track # map
      <4> DEFINE ms == late.maps \cup {map}
      <4>1. ms \in SUBSET Maps /\ late.maps \subseteq ms /\ map \in ms
        BY <2>1, <3>1
      <4>2. late' = [late EXCEPT !.maps = ms]
        BY <2>2, <3>3
      <4> HIDE DEF ms
      <4>3. QED
        BY <3>1, <4>1, <4>2
    <3>4. QED
      BY <3>2, <3>3
  <2>5. DOMAIN tracks' \subseteq Maps
        /\ \A m \in DOMAIN tracks' : tracks'[m] = m \/ m \in late'.maps
    BY <2>1, <2>2, <2>4 DEF Tracks!Put, TrackInv
  <2>6. QED
    BY <2>2, <2>3, <2>4, <2>5 DEF TrackInv
<1>6. QED
  BY <1>1, <1>2, <1>3, <1>4, <1>5

\* Every step keeps the invariant.
LEMMA TrackNext == TrackInv /\ Tracks!Next => TrackInv'
BY RoundSteps, ResolveSteps, OtherTrackSteps DEF Tracks!Next

\* Nothing runs and nothing is remembered at first.
LEMMA TrackInit == Tracks!Init => TrackInv
<1>1. SUFFICES ASSUME Tracks!Init PROVE TrackInv
  OBVIOUS
<1>2. /\ Tracks!Closed \in Streamers /\ Tracks!Closed.at = "closed"
      /\ Tracks!Closed.frame = Tracks!Empty /\ Tracks!Closed.todo = {}
      /\ Tracks!Closed.got = Tracks!Empty /\ Tracks!Closed.announced = Tracks!Empty
  BY EmptyIs DEF Tracks!Closed, Streamers
<1>3. \A pairs : StreamOK(Tracks!Closed, Tracks!Empty, Tracks!Empty, pairs)
  BY <1>2, EmptyIs DEF StreamOK
<1>4. /\ feed = [s \in Streams |-> Tracks!Closed]
      /\ known = [s \in Streams |-> Tracks!Empty] /\ snap = [s \in Streams |-> Tracks!Empty]
      /\ reader = [r \in Readers |-> Nil] /\ late = [pairs |-> {}, maps |-> {}]
      /\ world = Tracks!Empty /\ latest = Tracks!Empty /\ descriptors = Tracks!Empty
      /\ tracks = Tracks!Empty
  BY <1>1 DEF Tracks!Init
<1>5. late \in [pairs: SUBSET (Tracks!Sources \X Maps), maps: SUBSET Maps]
  BY <1>4
<1>6. /\ feed \in [Streams -> Streamers] /\ known \in [Streams -> Descs]
      /\ snap \in [Streams -> SourceMaps]
      /\ \A s \in Streams : StreamOK(feed[s], known[s], snap[s], late.pairs)
  BY <1>2, <1>3, <1>4, EmptyIs
<1>7. QED
  BY <1>4, <1>5, <1>6, EmptyIs DEF TrackInv

\* AchievementStream and TrackServiceImpl: a client was told of every source of its
\* last snapshot, with the map that snapshot is of; and a track is kept under another
\* map's name only if the engine answered after the source had moved on.  For any
\* number of streams, requests, sandboxes and maps.
THEOREM TracksSound == Spec => []TracksFitMaps
<1> DEFINE I == runs = "tracks" => TrackInv
<1>1. Init => I
  BY TrackInit DEF Init
<1>2. I /\ [Next]_vars => I'
  <2>1. TrackInv /\ UNCHANGED trackVars => TrackInv'
    BY DEF TrackInv, trackVars
  <2>2. QED
    BY <2>1, TrackNext DEF Next, vars
<1>3. I => TracksFitMaps
  <2>1. SUFFICES ASSUME TrackInv
                 PROVE  Tracks!TypeOK /\ Tracks!SnapshotIsAnnounced /\ Tracks!TracksFitMaps
    BY DEF TracksFitMaps
  <2>2. ASSUME NEW s \in Streams
        PROVE  /\ feed[s].at \in {"closed", "resolve", "read", "send", "tick"}
               /\ feed[s].todo \cup DOMAIN feed[s].got \subseteq Tracks!active_sources(feed[s].frame)
               /\ feed[s].at = "read" => feed[s].todo # {}
    <3>1. feed[s] \in Streamers /\ StreamOK(feed[s], known[s], snap[s], late.pairs)
      BY <2>1 DEF TrackInv
    <3>2. /\ feed[s].at \in {"closed", "resolve", "read", "send", "tick"}
          /\ feed[s].todo \subseteq Tracks!Sources /\ feed[s].got \in Descs
      BY <3>1 DEF Streamers
    <3>3. DOMAIN feed[s].got \subseteq Tracks!Sources
      BY <3>2, PartialFunctions
    <3>4. QED
      BY <3>1, <3>2, <3>3 DEF StreamOK, Tracks!active_sources
  <2>3. Tracks!TypeOK
    <3>1. DOMAIN world \cup DOMAIN latest \subseteq {Tracks!Local} \cup Tracks!Sources
      BY <2>1, PartialFunctions DEF TrackInv
    <3>2. DOMAIN descriptors \subseteq Tracks!Sources
      BY <2>1, PartialFunctions DEF TrackInv
    <3>3. QED
      BY <2>1, <2>2, <3>1, <3>2 DEF TrackInv, Tracks!TypeOK
  <2>4. Tracks!SnapshotIsAnnounced
    BY <2>1 DEF TrackInv, StreamOK, Tracks!SnapshotIsAnnounced
  <2>5. Tracks!TracksFitMaps
    BY <2>1 DEF TrackInv, StreamOK, Fits, Tracks!TracksFitMaps
  <2>6. QED
    BY <2>3, <2>4, <2>5
<1>4. QED
  BY <1>1, <1>2, <1>3, PTL DEF Spec

-----------------------------------------------------------------------------
(* The race table. *)

\* What the constants are.
LEMMA TableConstants ==
    /\ LapLength \in Nat /\ LapLength # 0 /\ Steps \subseteq Int
    /\ Moved \in Int /\ Backtrack \in Int /\ Slack \in Int /\ MaxAge \in Int
    /\ MaxBehind \in Int /\ GridSize \in Nat /\ MaxCars \in Nat
    /\ Nil \notin Int
BY Assumptions DEF Table!TableAssumption

\* The larger of two numbers.
LEMMA LargerIs ==
    ASSUME NEW a \in Int, NEW b \in Int
    PROVE  /\ Table!Max({a, b}) \in Int
           /\ Table!Max({a, b}) >= a /\ Table!Max({a, b}) >= b
           /\ Table!Max({a, b}) = a \/ Table!Max({a, b}) = b
<1>1. \E x \in {a, b} : \A y \in {a, b} : x >= y
  BY a >= b \/ b >= a
<1>2. Table!Max({a, b}) \in {a, b} /\ \A y \in {a, b} : Table!Max({a, b}) >= y
  BY <1>1 DEF Table!Max
<1>3. QED
  BY <1>2

\* Min picks the least of a set of numbers.
LEMMA LeastIs ==
    ASSUME NEW T \in SUBSET Nat, T # {}
    PROVE  Table!Min(T) \in T /\ \A y \in T : Table!Min(T) <= y
BY LeastNatural DEF Table!Min

\* sort_active_entries: the cars, each once, and each before those it is ahead of.
LEMMA SortIs ==
    ASSUME NEW S \in SUBSET Int, IsFiniteSet(S), NEW p \in [S -> Int]
    PROVE  LET s == Table!sort_active_entries(p)
               n == Cardinality(S)
           IN  /\ n \in Nat
               /\ s \in [1..n -> S]
               /\ \A c \in S : \E i \in 1..n : s[i] = c
               /\ \A i, j \in 1..n : s[i] = s[j] => i = j
               /\ \A i, j \in 1..n : Table!Ahead(p, s[i], s[j]) => i < j
<1> DEFINE n == Cardinality(S)
           A(c) == {d \in DOMAIN p : Table!Ahead(p, d, c)}
           rank == [c \in S |-> Cardinality(A(c))]
           s == Table!sort_active_entries(p)
<1>n. n \in Nat
  BY FS_CardinalityType
<1>1. ASSUME NEW c \in S, NEW d \in S, Table!Ahead(p, c, d)
      PROVE  A(c) \subseteq A(d) /\ c \in A(d) /\ c \notin A(c)
  <2>1. ASSUME NEW e \in S, Table!Ahead(p, e, c) PROVE Table!Ahead(p, e, d)
    <3>1. /\ p[c] \in Int /\ p[d] \in Int /\ p[e] \in Int
          /\ c \in Int /\ d \in Int /\ e \in Int
      OBVIOUS
    <3>2. QED
      BY <1>1, <2>1, <3>1 DEF Table!Ahead
  <2>2. ~Table!Ahead(p, c, c)
    <3>1. p[c] \in Int /\ c \in Int
      OBVIOUS
    <3>2. QED
      BY <3>1 DEF Table!Ahead
  <2>3. QED
    BY <1>1, <2>1, <2>2
<1>2. \A c, d \in S : c = d \/ Table!Ahead(p, c, d) \/ Table!Ahead(p, d, c)
  BY DEF Table!Ahead
<1>3. ASSUME NEW c \in S
      PROVE  IsFiniteSet(A(c)) /\ Cardinality(A(c)) \in 0 .. n - 1
  <2>1. A(c) \in SUBSET (S \ {c})
    BY DEF Table!Ahead
  <2>2. IsFiniteSet(S \ {c}) /\ Cardinality(S \ {c}) = n - 1
    BY FS_RemoveElement
  <2> HIDE DEF A
  <2>3. IsFiniteSet(A(c)) /\ Cardinality(A(c)) <= n - 1
    BY <2>1, <2>2, FS_Subset
  <2>4. Cardinality(A(c)) \in Nat
    BY <2>3, FS_CardinalityType
  <2>5. QED
    BY <2>3, <2>4, <1>n
<1>4. ASSUME NEW c \in S, NEW d \in S, Table!Ahead(p, c, d)
      PROVE  rank[c] < rank[d]
  <2>1. A(c) \in SUBSET A(d) /\ A(c) # A(d)
    BY <1>1, <1>4
  <2> HIDE DEF A
  <2>2. IsFiniteSet(A(d)) /\ Cardinality(A(c)) \in Nat /\ Cardinality(A(d)) \in Nat
    BY <1>3
  <2>3. Cardinality(A(c)) <= Cardinality(A(d)) /\ Cardinality(A(c)) # Cardinality(A(d))
    BY <2>1, <2>2, FS_Subset
  <2>4. QED
    BY <2>2, <2>3
<1>5. rank \in [S -> 0 .. n - 1]
  BY <1>3
<1>6. s = [i \in 1..n |-> CHOOSE c \in DOMAIN p : Table!Cardinality(A(c)) = i - 1]
  <2>1. Table!Cardinality(DOMAIN p) = n
    BY DEF Table!Cardinality, Cardinality
  <2>2. QED
    BY <2>1 DEF Table!sort_active_entries
<1>r. \A c \in S : rank[c] = Table!Cardinality(A(c))
  <2>1. \A T : Table!Cardinality(T) = Cardinality(T)
    BY DEF Table!Cardinality, Cardinality
  <2>2. QED
    BY <2>1
<1> HIDE DEF A, rank, s
<1>7. \A c, d \in S : rank[c] = rank[d] => c = d
  <2>1. SUFFICES ASSUME NEW c \in S, NEW d \in S, rank[c] = rank[d], c # d PROVE FALSE
    OBVIOUS
  <2>2. rank[c] \in Int /\ (rank[c] < rank[d] \/ rank[d] < rank[c])
    BY <2>1, <1>2, <1>4, <1>5
  <2>3. QED
    BY <2>1, <2>2
<1>8. \A i \in 1..n : \E c \in S : rank[c] = i - 1
  <2>1. rank \in Injection(S, 0 .. n - 1)
    BY <1>5, <1>7 DEF Injection, IsInjective
  <2>2. IsFiniteSet(0 .. n - 1) /\ Cardinality(0 .. n - 1) = n
    BY <1>n, FS_Interval
  <2>3. rank \in Surjection(S, 0 .. n - 1)
    BY <2>1, <2>2, FS_Injection
  <2>4. QED
    BY <2>3, <1>n DEF Surjection
<1>9. \A i \in 1..n : s[i] \in S /\ rank[s[i]] = i - 1
  BY <1>6, <1>8, <1>r
<1>10. s \in [1..n -> S]
  BY <1>6, <1>9
<1>11. \A c \in S : \E i \in 1..n : s[i] = c
  <2>1. SUFFICES ASSUME NEW c \in S PROVE s[rank[c] + 1] = c /\ rank[c] + 1 \in 1..n
    OBVIOUS
  <2>2. rank[c] + 1 \in 1..n /\ rank[c] \in Int
    BY <1>5, <1>n
  <2>3. rank[s[rank[c] + 1]] = rank[c] /\ s[rank[c] + 1] \in S
    BY <2>2, <1>9
  <2>4. QED
    BY <2>2, <2>3, <1>7
<1>12. \A i, j \in 1..n : s[i] = s[j] => i = j
  BY <1>9, <1>n
<1>13. \A i, j \in 1..n : Table!Ahead(p, s[i], s[j]) => i < j
  <2>1. SUFFICES ASSUME NEW i \in 1..n, NEW j \in 1..n, Table!Ahead(p, s[i], s[j]) PROVE i < j
    OBVIOUS
  <2>2. rank[s[i]] < rank[s[j]]
    BY <2>1, <1>9, <1>4
  <2>3. QED
    BY <2>2, <1>9, <1>n
<1>14. QED
  BY <1>n, <1>10, <1>11, <1>12, <1>13 DEF s

\* A trajectory: places and times, both growing.
Spots == [p: Int, t: Int]
Grows(tr) ==
    /\ tr \in Seq(Spots)
    /\ \A i, j \in 1..Len(tr) : i < j => tr[i].p < tr[j].p /\ tr[i].t < tr[j].t

\* Its points are pairs of numbers.
LEMMA GrowsIs ==
    ASSUME NEW tr, Grows(tr)
    PROVE  /\ Len(tr) \in Nat /\ DOMAIN tr = 1..Len(tr)
           /\ \A i \in 1..Len(tr) : tr[i] \in Spots /\ tr[i].p \in Int /\ tr[i].t \in Int
           /\ \A i, j \in 1..Len(tr) : i < j => tr[i].p < tr[j].p /\ tr[i].t < tr[j].t
<1>1. tr \in Seq(Spots)
  BY DEF Grows
<1>2. Len(tr) \in Nat /\ DOMAIN tr = 1..Len(tr) /\ \A i \in 1..Len(tr) : tr[i] \in Spots
  BY <1>1
<1>3. \A s \in Spots : s.p \in Int /\ s.t \in Int
  BY DEF Spots
<1>4. QED
  BY <1>2, <1>3 DEF Grows

\* The place the binary search is to find between lo and hi: the first that is not
\* before p, or hi.
Found(tr, p, lo, hi, i) ==
    /\ i \in lo..hi
    /\ \A j \in lo..(i - 1) : tr[j].p < p
    /\ i = hi \/ tr[i].p >= p

\* There is one such place, and only one.
LEMMA FoundOnce ==
    ASSUME NEW tr, Grows(tr), NEW p \in Int,
           NEW lo \in 1..Len(tr), NEW hi \in 1..Len(tr), lo <= hi
    PROVE  /\ \E i \in lo..hi : Found(tr, p, lo, hi, i)
           /\ \A i, j \in lo..hi : Found(tr, p, lo, hi, i) /\ Found(tr, p, lo, hi, j) => i = j
<1>n. Len(tr) \in Nat /\ \A i \in 1..Len(tr) : tr[i].p \in Int
  BY GrowsIs
<1>1. \E i \in lo..hi : Found(tr, p, lo, hi, i)
  <2> DEFINE T == {i \in lo..hi : i = hi \/ tr[i].p >= p}
  <2>1. T \in SUBSET Nat /\ hi \in T
    BY <1>n
  <2>2. PICK i \in T : \A j \in T : i <= j
    BY <2>1, LeastNatural
  <2>3. ASSUME NEW j \in lo..(i - 1) PROVE tr[j].p < p
    <3>1. j \in lo..hi /\ j < i /\ i \in Int /\ j \in 1..Len(tr)
      BY <1>n, <2>1
    <3>2. j \notin T
      BY <3>1, <2>1, <2>2
    <3>3. ~(tr[j].p >= p)
      BY <3>1, <3>2
    <3>4. QED
      BY <3>1, <3>3, <1>n
  <2>4. QED
    BY <2>3 DEF Found
<1>2. ASSUME NEW i \in lo..hi, NEW j \in lo..hi, i < j,
             Found(tr, p, lo, hi, i), Found(tr, p, lo, hi, j)
      PROVE  FALSE
  <2>1. i \in lo..(j - 1) /\ i # hi /\ i \in 1..Len(tr)
    BY <1>n, <1>2
  <2>2. tr[i].p < p /\ tr[i].p >= p
    BY <1>2, <2>1 DEF Found
  <2>3. QED
    BY <2>1, <2>2, <1>n
<1>3. QED
  BY <1>1, <1>2, <1>n

\* Half of the range is enough.
LEMMA FoundHalf ==
    ASSUME NEW tr, Grows(tr), NEW p \in Int,
           NEW lo \in 1..Len(tr), NEW hi \in 1..Len(tr), 
           NEW mid \in Int, lo <= mid, mid < hi
    PROVE  /\ mid \in 1..Len(tr) /\ mid + 1 \in 1..Len(tr)
           /\ tr[mid].p < p => \A i : Found(tr, p, mid + 1, hi, i) => Found(tr, p, lo, hi, i)
           /\ ~(tr[mid].p < p) => \A i : Found(tr, p, lo, mid, i) => Found(tr, p, lo, hi, i)
<1>n. /\ Len(tr) \in Nat /\ \A i \in 1..Len(tr) : tr[i].p \in Int
      /\ \A i, j \in 1..Len(tr) : i < j => tr[i].p < tr[j].p
  BY GrowsIs
<1>1. mid \in Int /\ lo <= mid /\ mid < hi
  OBVIOUS
<1>2. mid \in 1..Len(tr) /\ mid + 1 \in 1..Len(tr)
  BY <1>n, <1>1
<1>3. ASSUME NEW i, tr[mid].p < p, Found(tr, p, mid + 1, hi, i) PROVE Found(tr, p, lo, hi, i)
  <2>1. i \in lo..hi /\ i \in Int
    BY <1>3, <1>1, <1>2 DEF Found
  <2>2. ASSUME NEW j \in lo..(i - 1) PROVE tr[j].p < p
    <3>1. CASE j > mid
      BY <1>3, <1>1, <2>1, <3>1 DEF Found
    <3>2. CASE j <= mid
      <4>1. j \in 1..Len(tr) /\ (j = mid \/ j < mid)
        BY <3>2, <1>1, <1>2
      <4>2. tr[j].p <= tr[mid].p
        BY <4>1, <1>2, <1>n
      <4>3. QED
        BY <4>1, <4>2, <1>2, <1>3, <1>n
    <3>3. QED
      BY <3>1, <3>2, <1>1, <2>1
  <2>3. QED
    BY <1>3, <2>1, <2>2 DEF Found
<1>4. ASSUME NEW i, ~(tr[mid].p < p), Found(tr, p, lo, mid, i) PROVE Found(tr, p, lo, hi, i)
  <2>1. i \in lo..hi
    BY <1>4, <1>1 DEF Found
  <2>2. tr[mid].p >= p
    BY <1>4, <1>2, <1>n
  <2>3. QED
    BY <1>4, <2>1, <2>2 DEF Found
<1>5. QED
  BY <1>1, <1>2, <1>3, <1>4

\* One round of the search: what it does with a range, given what it finds in a smaller one.
Halves(tr, p, f) ==
    [range \in (DOMAIN tr) \X (DOMAIN tr) |->
        LET lo  == range[1]
            hi  == range[2]
            mid == lo + (hi - lo) \div 2
        IN  IF lo >= hi THEN lo
            ELSE IF tr[mid].p < p THEN f[<<mid + 1, hi>>] ELSE f[<<lo, mid>>]]

\* The same, for a range given by its ends.
LEMMA HalvesIs ==
    ASSUME NEW tr, NEW p, NEW f, NEW lo \in DOMAIN tr, NEW hi \in DOMAIN tr
    PROVE  LET mid == lo + (hi - lo) \div 2
           IN  Halves(tr, p, f)[<<lo, hi>>]
                = IF lo >= hi THEN lo
                  ELSE IF tr[mid].p < p THEN f[<<mid + 1, hi>>] ELSE f[<<lo, mid>>]
<1>1. /\ <<lo, hi>> \in (DOMAIN tr) \X (DOMAIN tr)
      /\ <<lo, hi>>[1] = lo /\ <<lo, hi>>[2] = hi
  OBVIOUS
<1>2. QED
  BY <1>1 DEF Halves

\* The search is a function that repeats this round.
LEMMA SearchDef ==
    ASSUME NEW tr, NEW p
    PROVE  Table!BinarySearch(tr, p) = (CHOOSE f : f = Halves(tr, p, f))[<<1, Len(tr)>>]
BY DEF Table!BinarySearch, Halves

\* The binary search finds the first point that is not before p, or the last one.
\* Such a function exists (it picks that point directly), so the recursive definition
\* has a value; that this value is the point follows by induction on the length of
\* the range.
LEMMA SearchIs ==
    ASSUME NEW tr, Grows(tr), tr # <<>>, NEW p \in Int
    PROVE  Found(tr, p, 1, Len(tr), Table!BinarySearch(tr, p))
<1> DEFINE D == DOMAIN tr
           w == [r \in D \X D |->
                    IF r[1] >= r[2] THEN r[1]
                    ELSE CHOOSE i \in r[1]..r[2] : Found(tr, p, r[1], r[2], i)]
           F == CHOOSE f : f = Halves(tr, p, f)
<1>n. Len(tr) \in Nat /\ D = 1..Len(tr) /\ Len(tr) # 0
  BY GrowsIs DEF Grows
<1> HIDE DEF D
<1>1. ASSUME NEW lo \in D, NEW hi \in D, lo <= hi
      PROVE  Found(tr, p, lo, hi, w[<<lo, hi>>]) /\ w[<<lo, hi>>] \in lo..hi
  <2>0. lo \in 1..Len(tr) /\ hi \in 1..Len(tr) /\ lo \in Int /\ hi \in Int
    BY <1>n
  <2>1. CASE lo = hi
    <3>1. w[<<lo, hi>>] = lo
      BY <2>1, <2>0
    <3>2. Found(tr, p, lo, hi, lo)
      BY <2>1, <2>0 DEF Found
    <3>3. QED
      BY <2>0, <2>1, <3>1, <3>2
  <2>2. CASE lo < hi
    <3>1. w[<<lo, hi>>] = CHOOSE i \in lo..hi : Found(tr, p, lo, hi, i)
      BY <2>2, <2>0
    <3>2. \E i \in lo..hi : Found(tr, p, lo, hi, i)
      BY <2>0, <1>1, FoundOnce
    <3>3. QED
      BY <3>1, <3>2
  <2>3. QED
    BY <2>0, <2>1, <2>2, <1>1
<1>2. w = Halves(tr, p, w)
  <2>f. SUFFICES ASSUME NEW lo \in D, NEW hi \in D
                 PROVE  w[<<lo, hi>>] = Halves(tr, p, w)[<<lo, hi>>]
    <3>1. \A r \in D \X D : w[r] = Halves(tr, p, w)[r]
      <4> HIDE DEF w
      <4>1. \A r \in D \X D : r[1] \in D /\ r[2] \in D /\ r = <<r[1], r[2]>>
        OBVIOUS
      <4>2. QED
        BY <2>f, <4>1
    <3>2. w = [r \in D \X D |-> w[r]]
      OBVIOUS
    <3>3. Halves(tr, p, w) = [r \in D \X D |-> Halves(tr, p, w)[r]]
      BY DEF Halves, D
    <3> HIDE DEF w
    <3>4. QED
      BY <3>1, <3>2, <3>3
  <2>0. lo \in 1..Len(tr) /\ hi \in 1..Len(tr) /\ lo \in Int /\ hi \in Int
    BY <1>n
  <2> DEFINE mid == lo + (hi - lo) \div 2
  <2>h. Halves(tr, p, w)[<<lo, hi>>] = IF lo >= hi THEN lo
            ELSE IF tr[mid].p < p THEN w[<<mid + 1, hi>>] ELSE w[<<lo, mid>>]
    <3> HIDE DEF w
    <3>1. QED
      BY HalvesIs DEF D
  <2>1. CASE lo >= hi
    BY <2>1, <2>h
  <2>2. CASE lo < hi
    <3>1. /\ mid \in D /\ lo <= mid /\ mid < hi /\ mid + 1 \in D /\ mid \in Int
          /\ tr[mid].p < p => \A i : Found(tr, p, mid + 1, hi, i) => Found(tr, p, lo, hi, i)
          /\ ~(tr[mid].p < p) => \A i : Found(tr, p, lo, mid, i) => Found(tr, p, lo, hi, i)
      <4> HIDE DEF w
      <4>2. mid \in Int /\ lo <= mid /\ mid < hi
        BY <2>0, <2>2
      <4> HIDE DEF mid
      <4>3. QED
        BY <2>0, <1>n, <4>2, FoundHalf
    <3> DEFINE v == Halves(tr, p, w)[<<lo, hi>>]
    <3>v. v = IF tr[mid].p < p THEN w[<<mid + 1, hi>>] ELSE w[<<lo, mid>>]
      BY <2>h, <2>2, <2>0
    <3> HIDE DEF mid, w, v
    <3>2. Found(tr, p, lo, hi, v)
      <4>1. CASE tr[mid].p < p
        <5>1. Found(tr, p, mid + 1, hi, w[<<mid + 1, hi>>])
          BY <3>1, <1>1, <2>0
        <5>2. QED
          BY <4>1, <5>1, <3>1, <3>v
      <4>2. CASE ~(tr[mid].p < p)
        <5>1. Found(tr, p, lo, mid, w[<<lo, mid>>])
          BY <3>1, <1>1, <2>0
        <5>2. QED
          BY <4>2, <5>1, <3>1, <3>v
      <4>3. QED
        BY <4>1, <4>2
    <3>3. v \in lo..hi
      BY <3>2 DEF Found
    <3>4. Found(tr, p, lo, hi, w[<<lo, hi>>]) /\ w[<<lo, hi>>] \in lo..hi
      BY <2>0, <2>2, <1>1
    <3>5. v = w[<<lo, hi>>]
      <4>1. \A i, j \in lo..hi : Found(tr, p, lo, hi, i) /\ Found(tr, p, lo, hi, j) => i = j
        BY <2>0, <2>2, FoundOnce
      <4>2. QED
        BY <3>2, <3>3, <3>4, <4>1
    <3>6. QED
      BY <3>5 DEF v
  <2>3. QED
    BY <2>0, <2>1, <2>2
<1>3. F = Halves(tr, p, F)
  BY <1>2
<1> HIDE DEF w, F
<1>4. \A lo, hi \in D : lo <= hi => Found(tr, p, lo, hi, F[<<lo, hi>>])
  <2> DEFINE Bad == {k \in Nat : \E lo, hi \in D : hi - lo = k /\ ~Found(tr, p, lo, hi, F[<<lo, hi>>])}
  <2>1. SUFFICES ASSUME Bad # {} PROVE FALSE
    <3>1. SUFFICES ASSUME NEW lo \in D, NEW hi \in D, lo <= hi, ~Found(tr, p, lo, hi, F[<<lo, hi>>])
                   PROVE  Bad # {}
      BY <2>1
    <3>2. hi - lo \in Nat
      BY <3>1, <1>n
    <3>3. QED
      BY <3>1, <3>2
  <2>2. PICK k \in Bad : \A l \in Bad : k <= l
    BY <2>1, LeastNatural
  <2>3. PICK lo \in D, hi \in D : hi - lo = k /\ ~Found(tr, p, lo, hi, F[<<lo, hi>>])
    BY <2>2
  <2>0. /\ lo \in 1..Len(tr) /\ hi \in 1..Len(tr) /\ lo \in Int /\ hi \in Int
        /\ k \in Nat /\ lo <= hi
    BY <1>n, <2>3
  <2>4. \A x, y \in D : x <= y /\ y - x < k => Found(tr, p, x, y, F[<<x, y>>])
    <3>1. SUFFICES ASSUME NEW x \in D, NEW y \in D, x <= y, y - x < k,
                          ~Found(tr, p, x, y, F[<<x, y>>])
                   PROVE  FALSE
      OBVIOUS
    <3>2. y - x \in Nat
      BY <3>1, <1>n
    <3>3. y - x \in Bad
      BY <3>1, <3>2
    <3>4. k <= y - x
      BY <3>3, <2>2
    <3>5. QED
      BY <3>1, <3>2, <3>4, <2>0
  <2> HIDE DEF Bad
  <2> DEFINE mid == lo + (hi - lo) \div 2
  <2>h. F[<<lo, hi>>] = IF lo >= hi THEN lo
            ELSE IF tr[mid].p < p THEN F[<<mid + 1, hi>>] ELSE F[<<lo, mid>>]
    <3>1. Halves(tr, p, F)[<<lo, hi>>] = IF lo >= hi THEN lo
              ELSE IF tr[mid].p < p THEN F[<<mid + 1, hi>>] ELSE F[<<lo, mid>>]
      BY HalvesIs DEF D
    <3>2. QED
      BY <3>1, <1>3
  <2>5. CASE lo = hi
    BY <2>5, <2>h, <2>3, <2>0 DEF Found
  <2>6. CASE lo < hi
    <3>1. /\ mid \in D /\ lo <= mid /\ mid < hi /\ mid + 1 \in D /\ mid \in Int
          /\ tr[mid].p < p => \A i : Found(tr, p, mid + 1, hi, i) => Found(tr, p, lo, hi, i)
          /\ ~(tr[mid].p < p) => \A i : Found(tr, p, lo, mid, i) => Found(tr, p, lo, hi, i)
      <4>1. mid \in Int /\ lo <= mid /\ mid < hi
        BY <2>0, <2>6
      <4> HIDE DEF mid
      <4>2. QED
        BY <2>0, <1>n, <4>1, FoundHalf
    <3>2. F[<<lo, hi>>] = IF tr[mid].p < p THEN F[<<mid + 1, hi>>] ELSE F[<<lo, mid>>]
      BY <2>h, <2>6, <2>0
    <3> HIDE DEF mid
    <3>3. Found(tr, p, mid + 1, hi, F[<<mid + 1, hi>>]) /\ Found(tr, p, lo, mid, F[<<lo, mid>>])
      BY <3>1, <2>4, <2>0, <2>3
    <3>4. QED
      BY <3>1, <3>2, <3>3, <2>3
  <2>7. QED
    BY <2>5, <2>6, <2>0
<1>5. QED
  <2>1. Found(tr, p, 1, Len(tr), F[<<1, Len(tr)>>])
    BY <1>4, <1>n
  <2>2. QED
    BY <2>1, SearchDef DEF F

\* Division rounds down.
LEMMA DivIs ==
    ASSUME NEW a \in Int, NEW b \in Int, b > 0
    PROVE  /\ a \div b \in Int
           /\ b * (a \div b) <= a /\ a < b * (a \div b) + b
OBVIOUS

\* A number that is at least, or at most, b times another.
LEMMA DivBounds ==
    ASSUME NEW a \in Int, NEW b \in Int, b > 0, NEW x \in Int, NEW y \in Int,
           b * x <= a, a <= b * y
    PROVE  a \div b \in Int /\ x <= a \div b /\ a \div b <= y
<1> DEFINE q == a \div b
<1>1. q \in Int /\ b * q <= a /\ a < b * q + b
  BY DivIs
<1> HIDE DEF q
<1>2. b * x < b * q + b /\ b * q <= b * y
  <2>1. b * x \in Int /\ b * q \in Int /\ b * y \in Int
    BY <1>1
  <2>2. QED
    BY <1>1, <2>1
<1>3. b * (q + 1) = b * q + b
  BY <1>1
<1>4. ASSUME x > q PROVE FALSE
  <2>1. x - (q + 1) \in Nat
    BY <1>1, <1>4
  <2>2. b * (x - (q + 1)) >= 0
    BY <2>1
  <2>3. b * (x - (q + 1)) = b * x - b * (q + 1)
    BY <1>1
  <2>4. b * x \in Int /\ b * q \in Int
    BY <1>1
  <2>5. QED
    BY <1>2, <1>3, <2>2, <2>3, <2>4
<1>5. ASSUME q > y PROVE FALSE
  <2>1. q - y \in Nat /\ q - y > 0
    BY <1>1, <1>5
  <2>2. b * (q - y) > 0
    BY <2>1
  <2>3. b * (q - y) = b * q - b * y
    BY <1>1
  <2>4. b * y \in Int /\ b * q \in Int
    BY <1>1
  <2>5. QED
    BY <1>2, <2>2, <2>3, <2>4
<1>6. QED
  BY <1>1, <1>4, <1>5 DEF q

\* Between two points, the time is between theirs.
LEMMA Interpolated ==
    ASSUME NEW dp \in Int, NEW e \in Int, 0 < e, e <= dp, NEW dt \in Int, 0 <= dt,
           NEW ago \in Int
    PROVE  LET g == (dp * ago - e * dt) \div dp
           IN  g \in Int /\ ago - dt <= g /\ g <= ago
<1> DEFINE a == dp * ago - e * dt
<1>1. a \in Int /\ dp > 0 /\ e * dt \in Int /\ dp * dt \in Int /\ dp * ago \in Int
  OBVIOUS
<1>2. 0 <= e * dt
  OBVIOUS
<1>3. e * dt <= dp * dt
  <2>1. (dp - e) * dt >= 0
    <3>1. dp - e \in Nat /\ dt \in Nat
      OBVIOUS
    <3> DEFINE h == dp - e
    <3> HIDE DEF h
    <3>2. h * dt >= 0
      BY <3>1 DEF h
    <3>3. QED
      BY <3>2 DEF h
  <2>2. (dp - e) * dt = dp * dt - e * dt
    OBVIOUS
  <2>3. QED
    BY <2>1, <2>2, <1>1
<1>4. dp * (ago - dt) = dp * ago - dp * dt
  OBVIOUS
<1>5. dp * (ago - dt) <= a /\ a <= dp * ago
  BY <1>1, <1>2, <1>3, <1>4
<1> HIDE DEF a
<1>6. a \div dp \in Int /\ ago - dt <= a \div dp /\ a \div dp <= ago
  BY <1>1, <1>5, DivBounds
<1>7. QED
  BY <1>6 DEF a

\* A number, but not below zero.
LEMMA NotBelowZero ==
    ASSUME NEW a \in Int
    PROVE  /\ Table!Max({a, 0}) \in Int
           /\ Table!Max({a, 0}) >= a /\ Table!Max({a, 0}) >= 0
           /\ Table!Max({a, 0}) = a \/ Table!Max({a, 0}) = 0
<1>1. 0 \in Int
  OBVIOUS
<1>2. QED
  BY <1>1, LargerIs, Zenon

\* interpolate_leader_time_ms: the time since the leader was at p is between the
\* times since the points around p.
LEMMA TimeSinceIs ==
    ASSUME NEW tr, Grows(tr), NEW p \in Int, Table!Covers(tr, p), NEW now \in Int
    PROVE  \A j \in 1..Len(tr) :
             /\ tr[j].p >= p => now - tr[j].t <= Table!TimeSince(tr, p, now)
             /\ tr[j].p <= p => Table!TimeSince(tr, p, now) <= Table!Max({now - tr[j].t, 0})
<1> DEFINE i == Table!BinarySearch(tr, p)
           n == Len(tr)
           gap == Table!TimeSince(tr, p, now)
<1>n. /\ n \in Nat /\ \A k \in 1..n : tr[k].p \in Int /\ tr[k].t \in Int
      /\ \A k, l \in 1..n : k < l => tr[k].p < tr[l].p /\ tr[k].t < tr[l].t
  BY GrowsIs
<1>c. tr # <<>> /\ tr[1].p <= p /\ p <= tr[n].p
  BY DEF Table!Covers, Table!Last
<1>0. n # 0
  BY <1>c DEF Grows
<1>1. i \in 1..n /\ (\A j \in 1..(i - 1) : tr[j].p < p) /\ (i = n \/ tr[i].p >= p)
  BY SearchIs, <1>c DEF Found
<1>2. tr[i].p >= p
  BY <1>1, <1>c
<1> HIDE DEF i, n
<1>j. SUFFICES ASSUME NEW j \in 1..n
               PROVE  /\ tr[j].p >= p => now - tr[j].t <= gap
                      /\ tr[j].p <= p => gap <= Table!Max({now - tr[j].t, 0})
  BY DEF n
<1>t. /\ i \in Int /\ j \in Int /\ tr[i].p \in Int /\ tr[i].t \in Int
      /\ tr[j].p \in Int /\ tr[j].t \in Int
  BY <1>n, <1>1
<1>m. /\ Table!Max({now - tr[j].t, 0}) \in Int
      /\ Table!Max({now - tr[j].t, 0}) >= now - tr[j].t /\ Table!Max({now - tr[j].t, 0}) >= 0
  <2>1. now - tr[j].t \in Int
    BY <1>t
  <2>2. QED
    BY <2>1, NotBelowZero
<1>3. CASE tr[i].p = p \/ i = 1
  <2>1. tr[i].p = p
    BY <1>3, <1>2, <1>c, <1>t
  <2>2. gap = Table!Max({now - tr[i].t, 0})
    BY <1>3 DEF Table!TimeSince, i
  <2>3. gap \in Int /\ gap >= now - tr[i].t /\ (gap = now - tr[i].t \/ gap = 0)
    <3>1. now - tr[i].t \in Int
      BY <1>t
    <3>2. QED
      BY <2>2, <3>1, NotBelowZero
  <2>4. tr[j].p >= p => tr[j].t >= tr[i].t
    BY <1>n, <1>1, <1>t, <2>1
  <2>5. tr[j].p <= p => tr[j].t <= tr[i].t
    BY <1>n, <1>1, <1>t, <2>1
  <2> HIDE DEF gap
  <2>6. QED
    BY <1>t, <1>m, <2>3, <2>4, <2>5
<1>4. CASE tr[i].p # p /\ i # 1
  <2> DEFINE h == i - 1
             dp == tr[i].p - tr[h].p
             dt == tr[i].t - tr[h].t
             g == (dp * (now - tr[h].t) - (p - tr[h].p) * dt) \div dp
  <2>1. /\ h \in 1..n /\ h < i /\ h \in Int /\ tr[h].p < p /\ tr[h].p \in Int
        /\ tr[h].t \in Int /\ tr[h].t < tr[i].t
    BY <1>1, <1>4, <1>n, <1>t
  <2>2. /\ dp \in Int /\ dt \in Int /\ p - tr[h].p \in Int /\ now - tr[h].t \in Int
        /\ 0 < p - tr[h].p /\ p - tr[h].p <= dp /\ 0 <= dt
        /\ (now - tr[h].t) - dt = now - tr[i].t /\ ~(dp <= 0)
    BY <2>1, <1>t, <1>2
  <2>3. gap = Table!Max({g, 0})
    BY <1>4, <2>2 DEF Table!TimeSince, i
  <2> HIDE DEF dp, dt, h
  <2>4. g \in Int /\ now - tr[i].t <= g /\ g <= now - tr[h].t
    BY <2>2, Interpolated
  <2> HIDE DEF g, gap
  <2>5. gap \in Int /\ gap >= g /\ (gap = g \/ gap = 0)
    BY <2>3, <2>4, NotBelowZero
  <2>6. tr[j].p >= p => tr[j].t >= tr[i].t
    <3>1. SUFFICES ASSUME j < i, tr[j].p >= p PROVE FALSE
      BY <1>n, <1>1, <1>t
    <3>2. j \in 1..(i - 1)
      BY <3>1, <1>t
    <3>3. QED
      BY <3>1, <3>2, <1>1, <1>t
  <2>7. tr[j].p <= p => tr[j].t <= tr[h].t
    <3>1. SUFFICES ASSUME tr[j].p <= p PROVE tr[j].t <= tr[h].t
      OBVIOUS
    <3>2. j < i
      BY <3>1, <1>n, <1>1, <1>t, <1>2, <1>4
    <3>3. j = h \/ j < h
      BY <3>2, <1>t DEF h
    <3>4. QED
      BY <3>3, <1>n, <2>1, <1>t
  <2>8. QED
    BY <1>t, <1>m, <2>1, <2>4, <2>5, <2>6, <2>7
<1>5. QED
  BY <1>3, <1>4

\* update_car_trajectories: a trajectory that grows is kept, continued, cut at its
\* old end or begun anew.
LEMMA TrajectoryGrows ==
    ASSUME NEW tr, Grows(tr), NEW p \in Int, NEW t \in Int
    PROVE  Grows(Table!update_trajectory(tr, p, t))
<1> DEFINE kept  == IF tr # <<>> /\ Table!Last(tr).p - p >= Backtrack THEN <<>> ELSE tr
           spot  == [p |-> p, t |-> t]
           grown == IF Table!Appends(kept, p, t) THEN Append(kept, spot) ELSE kept
           rest  == {i \in DOMAIN grown : grown[i].t >= t - MaxAge \/ i = Len(grown)}
           first == Table!Min(rest)
<1>d. Table!update_trajectory(tr, p, t) = SubSeq(grown, first, Len(grown))
  BY DEF Table!update_trajectory
<1>1. Grows(kept)
  <2>1. Grows(<<>>)
    BY DEF Grows
  <2>2. QED
    BY <2>1
<1> HIDE DEF kept
<1>s. spot \in Spots /\ spot.p = p /\ spot.t = t
  BY DEF Spots
<1> HIDE DEF spot
<1>2. Grows(grown) /\ grown # <<>>
  <2>1. CASE ~Table!Appends(kept, p, t)
    BY <2>1, <1>1 DEF Table!Appends
  <2>2. CASE Table!Appends(kept, p, t)
    <3> DEFINE a == Append(kept, spot)
    <3>k. /\ Len(kept) \in Nat /\ \A i \in 1..Len(kept) : kept[i].p \in Int /\ kept[i].t \in Int
          /\ \A i, j \in 1..Len(kept) : i < j => kept[i].p < kept[j].p /\ kept[i].t < kept[j].t
      BY <1>1, GrowsIs
    <3>1. /\ a \in Seq(Spots) /\ Len(a) = Len(kept) + 1
          /\ a[Len(kept) + 1] = spot
          /\ \A i \in 1..Len(kept) : a[i] = kept[i]
          /\ a # <<>>
      <4>1. kept \in Seq(Spots)
        BY <1>1 DEF Grows
      <4>2. QED
        BY <1>s, <4>1
    <3> HIDE DEF a
    <3>2. ASSUME NEW i \in 1..Len(kept) PROVE kept[i].p < p /\ kept[i].t < t
      <4> DEFINE n == Len(kept)
      <4>1. kept # <<>> /\ n \in 1..n
        BY <3>k, <1>1 DEF Grows
      <4>2. t > kept[n].t /\ p > kept[n].p
        BY <2>2, <4>1 DEF Table!Appends, Table!Last
      <4>3. kept[i].p <= kept[n].p /\ kept[i].t <= kept[n].t
        BY <3>k, <4>1
      <4>4. QED
        BY <4>1, <4>2, <4>3, <3>k
    <3>3. ASSUME NEW i \in 1..Len(a), NEW j \in 1..Len(a), i < j
          PROVE  a[i].p < a[j].p /\ a[i].t < a[j].t
      <4>1. i \in 1..Len(kept) /\ (j \in 1..Len(kept) \/ j = Len(kept) + 1)
        BY <3>1, <3>3, <3>k
      <4>2. QED
        BY <4>1, <3>1, <3>2, <3>3, <3>k, <1>s
    <3>4. Grows(a) /\ a # <<>>
      BY <3>1, <3>3 DEF Grows
    <3>5. QED
      BY <2>2, <3>4 DEF a
  <2>3. QED
    BY <2>1, <2>2
<1> HIDE DEF grown
<1>g. /\ Len(grown) \in Nat /\ DOMAIN grown = 1..Len(grown) /\ Len(grown) # 0
      /\ grown \in Seq(Spots)
      /\ \A i, j \in 1..Len(grown) : i < j => grown[i].p < grown[j].p /\ grown[i].t < grown[j].t
  BY <1>2, GrowsIs DEF Grows
<1>3. first \in 1..Len(grown)
  <2>1. rest \in SUBSET Nat /\ Len(grown) \in rest /\ rest \subseteq 1..Len(grown)
    BY <1>g
  <2> HIDE DEF rest
  <2>2. QED
    BY <2>1, LeastIs
<1> HIDE DEF first
<1> DEFINE s == SubSeq(grown, first, Len(grown))
<1>4. /\ s \in Seq(Spots) /\ Len(s) = Len(grown) - first + 1
      /\ \A i \in 1..Len(s) : s[i] = grown[first + i - 1]
  BY <1>3, <1>g
<1> HIDE DEF s
<1>5. ASSUME NEW i \in 1..Len(s), NEW j \in 1..Len(s), i < j
      PROVE  s[i].p < s[j].p /\ s[i].t < s[j].t
  <2>1. /\ first + i - 1 \in 1..Len(grown) /\ first + j - 1 \in 1..Len(grown)
        /\ first + i - 1 < first + j - 1
    BY <1>3, <1>4, <1>5, <1>g
  <2>2. QED
    BY <2>1, <1>4, <1>g
<1>6. QED
  BY <1>4, <1>5, <1>d DEF Grows, s

\* A frame: the race time may be missing, a car is on the lap or just before the line.
Cars == [laps: Nat, m: -1 .. (LapLength - 1)]
CarMaps == UNION {[S -> Cars] : S \in SUBSET (1..MaxCars)}
Frames == [on: BOOLEAN, map: RaceMaps \cup {Nil}, clock: Nat, elapsed: Nat \cup {Nil},
           lap: {1, LapLength}, cars: CarMaps]

\* What a frame says of each car.
LEMMA FrameIs ==
    ASSUME NEW f \in Frames
    PROVE  /\ f.cars \in [DOMAIN f.cars -> Cars]
           /\ DOMAIN f.cars \in SUBSET (1..MaxCars) /\ DOMAIN f.cars \in SUBSET Int
           /\ IsFiniteSet(DOMAIN f.cars)
           /\ \A c \in DOMAIN f.cars : /\ f.cars[c].laps \in Nat
                                       /\ f.cars[c].m \in Int
                                       /\ -1 <= f.cars[c].m /\ f.cars[c].m < LapLength
           /\ f.lap \in Nat /\ f.lap >= 1
           /\ f.map \in RaceMaps \cup {Nil} /\ f.elapsed \in Nat \cup {Nil}
<1>1. f.cars \in CarMaps /\ f.lap \in {1, LapLength} /\ f.map \in RaceMaps \cup {Nil}
      /\ f.elapsed \in Nat \cup {Nil}
  BY DEF Frames
<1>2. f.cars \in [DOMAIN f.cars -> Cars] /\ DOMAIN f.cars \in SUBSET (1..MaxCars)
  BY <1>1 DEF CarMaps
<1>3. IsFiniteSet(DOMAIN f.cars)
  <2>1. IsFiniteSet(1..MaxCars)
    BY TableConstants, FS_Interval
  <2>2. QED
    BY <1>2, <2>1, FS_Subset
<1>4. \A r \in Cars : r.laps \in Nat /\ r.m \in Int /\ -1 <= r.m /\ r.m < LapLength
  BY TableConstants DEF Cars
<1>5. QED
  BY <1>1, <1>2, <1>3, <1>4, TableConstants

\* sample_to_official_entry: a car's progress is a number.
LEMMA RawIs ==
    ASSUME NEW f \in Frames, NEW c \in DOMAIN f.cars
    PROVE  Table!RawProgress(f, c) \in Int /\ Table!RawProgress(f, c) >= 0
<1>1. /\ f.cars[c].laps \in Nat /\ f.lap \in Nat /\ f.cars[c].m \in Int
  BY FrameIs
<1>2. Table!Max({f.cars[c].m, 0}) \in Int /\ Table!Max({f.cars[c].m, 0}) >= 0
  BY <1>1, NotBelowZero
<1>3. f.cars[c].laps * f.lap \in Nat
  BY <1>1
<1>4. QED
  BY <1>2, <1>3 DEF Table!RawProgress

\* On a lap of the length the table knows, a car that is further has more progress.
LEMMA FurtherIsMore ==
    ASSUME NEW f \in Frames, f.lap = LapLength, NEW c \in DOMAIN f.cars, NEW d \in DOMAIN f.cars,
           Table!Further(f.cars[c], f.cars[d])
    PROVE  Table!RawProgress(f, c) > Table!RawProgress(f, d)
<1> DEFINE a == f.cars[c].laps
           b == f.cars[d].laps
           x == Table!Max({f.cars[c].m, 0})
           y == Table!Max({f.cars[d].m, 0})
           L == LapLength
<1>1. /\ a \in Nat /\ b \in Nat /\ f.cars[c].m \in Int /\ f.cars[d].m \in Int
      /\ f.cars[c].m < L /\ f.cars[d].m < L /\ L \in Nat /\ L >= 1
  BY FrameIs, TableConstants
<1>2. /\ x \in Int /\ x >= f.cars[c].m /\ x >= 0 /\ (x = f.cars[c].m \/ x = 0)
      /\ y \in Int /\ y >= f.cars[d].m /\ y >= 0 /\ (y = f.cars[d].m \/ y = 0)
  BY <1>1, NotBelowZero
<1>3. a > b \/ (a = b /\ f.cars[c].m > f.cars[d].m /\ f.cars[c].m > 0)
  BY DEF Table!Further
<1>4. Table!RawProgress(f, c) = a * L + x /\ Table!RawProgress(f, d) = b * L + y
  BY DEF Table!RawProgress
<1> HIDE DEF a, b, x, y, L
<1>5. y < L
  BY <1>1, <1>2
<1>6. a * L + x > b * L + y
  <2>1. CASE a > b
    <3>1. a - b - 1 \in Nat
      BY <1>1, <2>1
    <3>2. (a - b - 1) * L >= 0
      BY <3>1, <1>1
    <3>3. (a - b - 1) * L = a * L - b * L - L
      BY <1>1
    <3>4. a * L \in Int /\ b * L \in Int
      BY <1>1
    <3>5. QED
      BY <3>2, <3>3, <3>4, <1>1, <1>2, <1>5
  <2>2. CASE a = b /\ f.cars[c].m > f.cars[d].m /\ f.cars[c].m > 0
    <3>1. x > y /\ b * L \in Int
      BY <1>1, <1>2, <2>2
    <3>2. QED
      BY <3>1, <2>2, <1>2
  <2>3. QED
    BY <1>3, <2>1, <2>2
<1>7. QED
  BY <1>4, <1>6

\* build_local_race_snapshot: the rows of a local race are in the order of the race.
LEMMA LocalRowsFollow ==
    ASSUME NEW f \in Frames, f.lap = LapLength
    PROVE  Table!InRaceOrder(Table!local_race_rows(f), f.cars)
<1> DEFINE S == DOMAIN f.cars
           p == [c \in S |-> Table!RawProgress(f, c)]
           s == Table!sort_active_entries(p)
           n == Cardinality(S)
           rows == Table!local_race_rows(f)
<1>1. S \in SUBSET Int /\ IsFiniteSet(S) /\ p \in [S -> Int]
  BY FrameIs, RawIs
<1>2. /\ n \in Nat /\ s \in [1..n -> S]
      /\ \A i, j \in 1..n : Table!Ahead(p, s[i], s[j]) => i < j
  <2> HIDE DEF p, S
  <2>1. QED
    BY <1>1, SortIs
<1>3. DOMAIN rows = 1..n /\ \A i \in 1..n : rows[i].car = s[i]
  <2>1. DOMAIN s = 1..n
    BY <1>2
  <2> DEFINE row(i) == Table!Row(IF i = 1 THEN 0 ELSE Nil,
                                 Table!LapsBehind(f, s[1], s[i]), s[i], "active")
  <2>2. rows = [i \in DOMAIN s |-> row(i)]
    BY DEF Table!local_race_rows
  <2>3. \A i : row(i).car = s[i]
    BY DEF Table!Row
  <2> HIDE DEF row, s, rows, p
  <2>4. QED
    BY <2>1, <2>2, <2>3
<1> HIDE DEF s, rows, n
<1>4. SUFFICES ASSUME NEW i \in 1..n, NEW j \in 1..n, Table!Further(f.cars[s[i]], f.cars[s[j]])
               PROVE  i < j
  BY <1>3 DEF Table!InRaceOrder, rows
<1>5. s[i] \in S /\ s[j] \in S
  BY <1>2
<1>6. p[s[i]] > p[s[j]]
  BY <1>4, <1>5, FurtherIsMore
<1>7. Table!Ahead(p, s[i], s[j])
  BY <1>6 DEF Table!Ahead
<1>8. QED
  BY <1>2, <1>7

\* The row of a car, as it is archived.
IsRow(r, c) == \E g, b : r = Table!Row(g, b, c, "active")

\* The cache remembers all cars of the table, each as a row of its own, where they
\* were first seen and where they have been.
CacheOK(k, cars, grid) ==
    /\ DOMAIN k.traj = DOMAIN k.start /\ DOMAIN k.active = DOMAIN k.start
    /\ DOMAIN k.gap \subseteq DOMAIN k.active
    /\ DOMAIN k.dnf \cap DOMAIN k.active = {}
    /\ cars = DOMAIN k.active \cup DOMAIN k.dnf /\ cars \subseteq 1..MaxCars
    /\ \A c \in DOMAIN k.start : k.start[c] \in Int /\ (grid => k.start[c] = 0)
    /\ \A c \in DOMAIN k.traj : Grows(k.traj[c])
    /\ \A c \in DOMAIN k.active : IsRow(k.active[c], c)
    /\ \A c \in DOMAIN k.dnf : IsRow(k.dnf[c], c)

\* A cache that has been reset remembers nothing.
LEMMA ResetIs ==
    ASSUME NEW k, NEW cars, NEW grid, CacheOK(k, cars, grid)
    PROVE  CacheOK(Table!reset_runtime_progress(k), {}, TRUE)
<1> DEFINE e == Table!Empty
<1>0. DOMAIN e = {}
  BY DEF Table!Empty
<1> DEFINE r == Table!reset_runtime_progress(k)
<1>1. r.active = e /\ r.dnf = e /\ r.traj = e /\ r.gap = e /\ r.start = e
  BY DEF Table!reset_runtime_progress
<1> HIDE DEF r, e
<1>2. CacheOK(r, {}, TRUE)
  BY <1>0, <1>1 DEF CacheOK
<1>3. QED
  BY <1>2 DEF r

\* Two sequences, one after the other.
LEMMA Joined ==
    ASSUME NEW a, NEW b, NEW n \in Nat, NEW m \in Nat,
           a = [i \in 1..n |-> a[i]], b = [i \in 1..m |-> b[i]]
    PROVE  /\ Len(a \o b) = n + m /\ DOMAIN (a \o b) = 1..(n + m)
           /\ \A i \in 1..n : (a \o b)[i] = a[i]
           /\ \A i \in (n + 1)..(n + m) : (a \o b)[i] = b[i - n]
<1> DEFINE R == {a[i] : i \in 1..n} \cup {b[i] : i \in 1..m}
<1>1. a \in [1..n -> R] /\ b \in [1..m -> R]
  OBVIOUS
<1> HIDE DEF R
<1>2. a \in Seq(R) /\ b \in Seq(R) /\ Len(a) = n /\ Len(b) = m
  BY <1>1
<1>3. QED
  BY <1>2

\* The parts of a table, for a cache and a frame with a time.
Driven(k, f) == Table!Progress(Table!Baselines(k, f), f)
Order(k, f) == Table!sort_active_entries(Driven(k, f))
Paths(k, f) == Table!Trajectories(k, Driven(k, f), f.elapsed)
GapsNow(k, f) ==
    [c \in DOMAIN f.cars |->
        Table!GapOf(k, f, Driven(k, f), Paths(k, f), Order(k, f)[1], c, f.elapsed)]
ActiveRows(k, f) ==
    [c \in DOMAIN f.cars |->
        Table!Row(GapsNow(k, f)[c], Table!LapsBehind(f, Order(k, f)[1], c), c, "active")]
Gone(k, f) == Table!Archived(k, DOMAIN f.cars)
GoneOrder(k, f) == Table!sort_active_entries([c \in DOMAIN Gone(k, f) |-> 0])
GapsKept(k, f) ==
    IF DOMAIN f.cars = {} THEN Table!Empty
    ELSE Table!LastGaps(k, f, Order(k, f)[1], GapsNow(k, f))
Rows(k, f) ==
    [i \in DOMAIN Order(k, f) |-> ActiveRows(k, f)[Order(k, f)[i]]]
      \o [i \in DOMAIN GoneOrder(k, f) |-> [Gone(k, f)[GoneOrder(k, f)[i]] EXCEPT !.status = "dnf"]]
OnGrid(k, f) ==
    /\ f.lap = LapLength
    /\ \A c \in DOMAIN f.cars \ DOMAIN k.start : f.cars[c] = [laps |-> 0, m |-> -1]

Timed(f) == [f EXCEPT !.elapsed = IF @ = Nil THEN 0 ELSE @]
Resets(k, f) == Table!SessionChanged(k, Timed(f)) \/ Table!Rewound(k, Timed(f))
KeptCache(k, f) == IF Resets(k, f) THEN Table!reset_runtime_progress(k) ELSE k

\* compute_official_rows_with_cache: the table is made of these parts.
LEMMA TableIs ==
    ASSUME NEW k0, NEW f0
    PROVE  LET t == Table!Table(k0, f0)
               f == Timed(f0)
               k == KeptCache(k0, f0)
           IN  /\ t.reset = Resets(k0, f0) /\ t.grid = OnGrid(k, f) /\ t.rows = Rows(k, f)
               /\ t.cache.elapsed = f.elapsed /\ t.cache.active = ActiveRows(k, f)
               /\ t.cache.dnf = Gone(k, f) /\ t.cache.traj = Paths(k, f)
               /\ t.cache.start = Table!Baselines(k, f) /\ t.cache.gap = GapsKept(k, f)
<1> DEFINE t == Table!Table(k0, f0)
           f == Timed(f0)
           k == KeptCache(k0, f0)
<1>1. t = [cache |-> [marker |-> f.map, elapsed |-> f.elapsed, active |-> ActiveRows(k, f),
                      dnf |-> Gone(k, f), traj |-> Paths(k, f),
                      start |-> Table!Baselines(k, f), gap |-> GapsKept(k, f)],
           rows |-> Rows(k, f), reset |-> Resets(k0, f0), grid |-> OnGrid(k, f)]
  BY DEF Table!Table, Timed, Resets, KeptCache, Driven, Order, Paths, GapsNow, ActiveRows,
         Gone, GoneOrder, GapsKept, Rows, OnGrid
<1> HIDE DEF t, f, k
<1>2. QED
  BY <1>1 DEF t, f, k

\* The frame with a time is a frame.
LEMMA TimedIs ==
    ASSUME NEW f \in Frames
    PROVE  /\ Timed(f) \in Frames /\ Timed(f).cars = f.cars /\ Timed(f).lap = f.lap
           /\ Timed(f).elapsed \in Nat
BY DEF Frames, Timed

\* normalize_active_progress_from_start: baselines and progress are numbers; taken on
\* the grid, the baseline is zero and the progress that of the car.
LEMMA DrivenIs ==
    ASSUME NEW k, NEW cars, NEW grid, CacheOK(k, cars, grid), NEW f \in Frames
    PROVE  /\ Table!Baselines(k, f) \in [DOMAIN f.cars -> Int]
           /\ Driven(k, f) \in [DOMAIN f.cars -> Int]
           /\ grid /\ OnGrid(k, f) => \A c \in DOMAIN f.cars :
                /\ Table!Baselines(k, f)[c] = 0
                /\ Driven(k, f)[c] = Table!RawProgress(f, c)
<1> DEFINE S == DOMAIN f.cars
           b == Table!Baselines(k, f)
           d == Driven(k, f)
<1>1. b = [c \in S |-> Table!Get(k.start, c, Table!RawProgress(f, c))]
  BY DEF Table!Baselines
<1>2. d = [c \in S |-> Table!Max({Table!RawProgress(f, c) - b[c], 0})]
  BY DEF Driven, Table!Progress
<1> HIDE DEF b, d
<1>3. ASSUME NEW c \in S
      PROVE  /\ b[c] \in Int /\ d[c] \in Int
             /\ grid /\ OnGrid(k, f) => b[c] = 0 /\ d[c] = Table!RawProgress(f, c)
  <2> DEFINE r == Table!RawProgress(f, c)
  <2>1. r \in Int /\ r >= 0
    BY RawIs
  <2>2. b[c] = IF c \in DOMAIN k.start THEN k.start[c] ELSE r
    BY <1>1 DEF Table!Get
  <2>3. b[c] \in Int
    BY <2>1, <2>2 DEF CacheOK
  <2>4. d[c] = Table!Max({r - b[c], 0})
    BY <1>2
  <2>5. r - b[c] \in Int
    BY <2>1, <2>3
  <2>6. d[c] \in Int /\ d[c] >= r - b[c] /\ d[c] >= 0 /\ (d[c] = r - b[c] \/ d[c] = 0)
    BY <2>4, <2>5, NotBelowZero
  <2>7. ASSUME grid, OnGrid(k, f) PROVE b[c] = 0
    <3>1. CASE c \in DOMAIN k.start
      BY <3>1, <2>2, <2>7 DEF CacheOK
    <3>2. CASE c \notin DOMAIN k.start
      <4>1. f.cars[c] = [laps |-> 0, m |-> -1]
        BY <3>2, <2>7 DEF OnGrid
      <4>2. f.cars[c].laps = 0 /\ f.cars[c].m = -1 /\ -1 \in Int
        BY <4>1
      <4>3. Table!Max({-1, 0}) = 0
        <5>1. /\ Table!Max({-1, 0}) \in Int /\ Table!Max({-1, 0}) >= 0
              /\ Table!Max({-1, 0}) = -1 \/ Table!Max({-1, 0}) = 0
          BY <4>2, NotBelowZero
        <5>2. QED
          BY <5>1
      <4>4. f.lap \in Nat
        BY FrameIs
      <4>5. r = 0 * f.lap + 0
        BY <4>2, <4>3 DEF Table!RawProgress
      <4>6. QED
        BY <4>4, <4>5, <3>2, <2>2
    <3>3. QED
      BY <3>1, <3>2
  <2> HIDE DEF r
  <2>8. ASSUME grid, OnGrid(k, f) PROVE d[c] = r
    BY <2>7, <2>8, <2>6, <2>1
  <2>9. QED
    BY <2>3, <2>6, <2>7, <2>8 DEF r
<1>4. b \in [S -> Int]
  BY <1>1, <1>3
<1>5. d \in [S -> Int]
  BY <1>2, <1>3
<1>6. QED
  BY <1>3, <1>4, <1>5 DEF b, d

\* A sequence with every element of a set once.
Sorts(s, S) ==
    /\ Cardinality(S) \in Nat
    /\ s \in [1..Cardinality(S) -> S]
    /\ \A c \in S : \E i \in 1..Cardinality(S) : s[i] = c
    /\ \A i, j \in 1..Cardinality(S) : s[i] = s[j] => i = j

\* The cars of the frame, in their order.
LEMMA OrderIs ==
    ASSUME NEW k, NEW cars, NEW grid, CacheOK(k, cars, grid), NEW f \in Frames
    PROVE  /\ Sorts(Order(k, f), DOMAIN f.cars)
           /\ \A i, j \in 1..Cardinality(DOMAIN f.cars) :
                Table!Ahead(Driven(k, f), Order(k, f)[i], Order(k, f)[j]) => i < j
<1>1. DOMAIN f.cars \in SUBSET Int /\ IsFiniteSet(DOMAIN f.cars)
  BY FrameIs
<1>2. Driven(k, f) \in [DOMAIN f.cars -> Int]
  BY DrivenIs
<1>3. QED
  BY <1>1, <1>2, SortIs DEF Order, Sorts

\* The cars that are gone: all others the cache remembers.
LEMMA GoneIs ==
    ASSUME NEW k, NEW cars, NEW grid, CacheOK(k, cars, grid), NEW f \in Frames
    PROVE  /\ DOMAIN Gone(k, f) = cars \ DOMAIN f.cars
           /\ \A c \in DOMAIN Gone(k, f) : IsRow(Gone(k, f)[c], c)
           /\ IsFiniteSet(cars \ DOMAIN f.cars)
           /\ Sorts(GoneOrder(k, f), cars \ DOMAIN f.cars)
<1> DEFINE S == DOMAIN f.cars
           g == Gone(k, f)
<1>1. /\ DOMAIN g = cars \ S
      /\ \A c \in cars \ S : g[c] = IF c \in DOMAIN k.dnf THEN k.dnf[c] ELSE k.active[c]
  BY DEF Gone, Table!Archived, Table!Get, CacheOK
<1>2. \A c \in DOMAIN g : IsRow(g[c], c)
  BY <1>1 DEF CacheOK
<1>3. cars \ S \in SUBSET (1..MaxCars) /\ IsFiniteSet(1..MaxCars)
  BY TableConstants, FS_Interval DEF CacheOK
<1> DEFINE T == cars \ S
<1>4. T \in SUBSET Int /\ IsFiniteSet(T)
  <2> HIDE DEF T
  <2>1. T \in SUBSET (1..MaxCars)
    BY <1>3 DEF T
  <2>2. IsFiniteSet(T)
    BY <1>3, <2>1, FS_Subset
  <2>3. T \in SUBSET Int
    BY <2>1, TableConstants
  <2>4. QED
    BY <2>2, <2>3
<1> DEFINE z == [c \in DOMAIN g |-> 0]
<1>5. z \in [T -> Int]
  BY <1>1
<1>6. GoneOrder(k, f) = Table!sort_active_entries(z)
  BY DEF GoneOrder
<1> HIDE DEF z, T
<1>7. Sorts(GoneOrder(k, f), T)
  BY <1>4, <1>5, <1>6, SortIs DEF Sorts
<1>8. QED
  BY <1>1, <1>2, <1>4, <1>7 DEF T

\* Every trajectory grows.
LEMMA PathsGrow ==
    ASSUME NEW k, NEW cars, NEW grid, CacheOK(k, cars, grid), NEW f \in Frames,
           f.elapsed \in Nat
    PROVE  /\ DOMAIN Paths(k, f) = DOMAIN f.cars
           /\ \A c \in DOMAIN f.cars : Grows(Paths(k, f)[c])
<1> DEFINE S == DOMAIN f.cars
<1> DEFINE d == Driven(k, f)
<1>1. d \in [S -> Int]
  BY DrivenIs
<1>2. Paths(k, f) = [c \in DOMAIN d |->
                  Table!update_trajectory(Table!Get(k.traj, c, <<>>), d[c], f.elapsed)]
  BY DEF Paths, Table!Trajectories
<1> HIDE DEF d
<1>3. DOMAIN d = S /\ \A c \in S : d[c] \in Int
  BY <1>1
<1>4. Grows(<<>>)
  BY DEF Grows
<1>5. \A c \in S : Grows(Table!Get(k.traj, c, <<>>))
  BY <1>4 DEF Table!Get, CacheOK
<1>6. f.elapsed \in Int
  OBVIOUS
<1>7. \A c \in S : Grows(Table!update_trajectory(Table!Get(k.traj, c, <<>>), d[c], f.elapsed))
  BY <1>3, <1>5, <1>6, TrajectoryGrows
<1>8. QED
  BY <1>2, <1>3, <1>7

\* What is remembered after the table was made of a frame.
LEMMA CacheKept ==
    ASSUME NEW k, NEW cars, NEW grid, CacheOK(k, cars, grid), NEW f \in Frames,
           f.elapsed \in Nat,
           NEW n, n.active = ActiveRows(k, f), n.dnf = Gone(k, f), n.traj = Paths(k, f),
           n.start = Table!Baselines(k, f), n.gap = GapsKept(k, f),
           NEW w, w => OnGrid(k, f) /\ grid
    PROVE  CacheOK(n, DOMAIN f.cars \cup cars, w)
<1> DEFINE S == DOMAIN f.cars
<1>1. /\ n.start \in [S -> Int]
      /\ w => \A c \in S : n.start[c] = 0
  BY DrivenIs
<1>2. DOMAIN n.active = S /\ \A c \in S : IsRow(n.active[c], c)
  BY DEF ActiveRows, IsRow
<1>3. DOMAIN n.traj = S /\ \A c \in S : Grows(n.traj[c])
  BY PathsGrow
<1>4. DOMAIN n.gap \subseteq S
  <2>1. CASE S = {}
    BY <2>1 DEF GapsKept, Table!Empty
  <2>2. CASE S # {}
    <3>1. PICK i \in 1..Cardinality(S) : Order(k, f)[i] \in S
      BY <2>2, OrderIs DEF Sorts
    <3>2. 1 \in 1..Cardinality(S)
      BY <3>1, OrderIs DEF Sorts
    <3>3. Order(k, f)[1] \in S
      BY <3>2, OrderIs DEF Sorts
    <3>4. QED
      BY <2>2, <3>3 DEF GapsKept, Table!LastGaps
  <2>3. QED
    BY <2>1, <2>2
<1>5. DOMAIN n.dnf = cars \ S /\ \A c \in DOMAIN n.dnf : IsRow(n.dnf[c], c)
  <2>1. /\ DOMAIN Gone(k, f) = cars \ DOMAIN f.cars
        /\ \A c \in DOMAIN Gone(k, f) : IsRow(Gone(k, f)[c], c)
    BY GoneIs
  <2>2. QED
    BY <2>1
<1>6. S \cup cars \subseteq 1..MaxCars
  BY FrameIs DEF CacheOK
<1>7. QED
  BY <1>1, <1>2, <1>3, <1>4, <1>5, <1>6 DEF CacheOK

\* What the rows are, for n cars in the frame and m that are gone.
RowsOK(rows, k, f, n, m) ==
    /\ n \in Nat /\ m \in Nat
    /\ Len(rows) = n + m /\ DOMAIN rows = 1..(n + m)
    /\ \A i \in 1..n : /\ rows[i].car = Order(k, f)[i] /\ rows[i].status = "active"
                       /\ rows[i].gap = GapsNow(k, f)[Order(k, f)[i]]
    /\ \A i \in (n + 1)..(n + m) : /\ rows[i].car = GoneOrder(k, f)[i - n]
                                   /\ rows[i].status = "dnf"

\* First the cars of the frame in their order, then those that are gone.
LEMMA RowsAre ==
    ASSUME NEW k, NEW cars, NEW grid, CacheOK(k, cars, grid), NEW f \in Frames
    PROVE  RowsOK(Rows(k, f), k, f, Cardinality(DOMAIN f.cars), Cardinality(cars \ DOMAIN f.cars))
<1> DEFINE S == DOMAIN f.cars
           n == Cardinality(S)
           m == Cardinality(cars \ S)
           order == Order(k, f)
           out == GoneOrder(k, f)
           dnf == Gone(k, f)
           a == [i \in DOMAIN order |-> ActiveRows(k, f)[order[i]]]
           b == [i \in DOMAIN out |-> [dnf[out[i]] EXCEPT !.status = "dnf"]]
<1>1. n \in Nat /\ order \in [1..n -> S]
  BY OrderIs DEF Sorts
<1>2. /\ m \in Nat /\ out \in [1..m -> cars \ S]
      /\ DOMAIN dnf = cars \ S /\ \A c \in DOMAIN dnf : IsRow(dnf[c], c)
  BY GoneIs DEF Sorts
<1>3. Rows(k, f) = a \o b
  BY DEF Rows
<1> HIDE DEF n, m, order, out, dnf
<1>4. a = [i \in 1..n |-> a[i]] /\ b = [i \in 1..m |-> b[i]]
  BY <1>1, <1>2
<1>5. \A c \in S : /\ ActiveRows(k, f)[c].car = c /\ ActiveRows(k, f)[c].status = "active"
                   /\ ActiveRows(k, f)[c].gap = GapsNow(k, f)[c]
  <2>1. SUFFICES ASSUME NEW c \in S
                 PROVE  /\ ActiveRows(k, f)[c].car = c /\ ActiveRows(k, f)[c].status = "active"
                        /\ ActiveRows(k, f)[c].gap = GapsNow(k, f)[c]
    OBVIOUS
  <2>2. ActiveRows(k, f)[c] = Table!Row(GapsNow(k, f)[c],
            Table!LapsBehind(f, Order(k, f)[1], c), c, "active")
    BY DEF ActiveRows
  <2>3. QED
    BY <2>2 DEF Table!Row
<1>6. \A i \in 1..n : a[i].car = order[i] /\ a[i].status = "active"
                      /\ a[i].gap = GapsNow(k, f)[order[i]]
  BY <1>1, <1>5
<1>7. ASSUME NEW i \in 1..m PROVE b[i].car = out[i] /\ b[i].status = "dnf"
  <2>1. out[i] \in DOMAIN dnf
    BY <1>2
  <2>2. PICK x, y : dnf[out[i]] = Table!Row(x, y, out[i], "active")
    BY <2>1, <1>2 DEF IsRow
  <2>3. b[i] = [dnf[out[i]] EXCEPT !.status = "dnf"]
    BY <1>2
  <2> HIDE DEF b
  <2>4. QED
    BY <2>2, <2>3 DEF Table!Row
<1> HIDE DEF a, b
<1>8. /\ Len(a \o b) = n + m /\ DOMAIN (a \o b) = 1..(n + m)
      /\ \A i \in 1..n : (a \o b)[i] = a[i]
      /\ \A i \in (n + 1)..(n + m) : (a \o b)[i] = b[i - n]
  BY <1>1, <1>2, <1>4, Joined
<1> DEFINE rows == a \o b
<1> HIDE DEF rows
<1>9. /\ Len(rows) = n + m /\ DOMAIN rows = 1..(n + m)
      /\ \A i \in 1..n : rows[i] = a[i]
      /\ \A i \in (n + 1)..(n + m) : rows[i] = b[i - n]
  BY <1>8 DEF rows
<1>10. \A i \in (n + 1)..(n + m) : i - n \in 1..m
  BY <1>1, <1>2
<1>11. RowsOK(rows, k, f, n, m)
  BY <1>1, <1>2, <1>6, <1>7, <1>9, <1>10 DEF RowsOK, order, out
<1>12. QED
  BY <1>3, <1>11 DEF rows, n, m

\* Every car there has been since the last reset has one row.
LEMMA RowsComplete ==
    ASSUME NEW k, NEW cars, NEW grid, CacheOK(k, cars, grid), NEW f \in Frames,
           NEW rows, rows = Rows(k, f)
    PROVE  /\ Len(rows) = Table!Cardinality(DOMAIN f.cars \cup cars)
           /\ Table!Status(rows, "active") = DOMAIN f.cars
           /\ Table!Status(rows, "dnf") = (DOMAIN f.cars \cup cars) \ DOMAIN f.cars
           /\ \A i, j \in DOMAIN rows :
                rows[i].status = "dnf" /\ rows[j].status = "active" => j < i
<1> DEFINE S == DOMAIN f.cars
           T == cars \ S
           n == Cardinality(S)
           m == Cardinality(T)
<1>1. RowsOK(rows, k, f, n, m)
  BY RowsAre
<1>2. Sorts(Order(k, f), S) /\ Sorts(GoneOrder(k, f), T) /\ IsFiniteSet(S) /\ IsFiniteSet(T)
  BY OrderIs, GoneIs, FrameIs
<1>3. Len(rows) = Table!Cardinality(S \cup cars)
  <2>1. S \cup cars = S \cup T /\ S \cap T = {}
    OBVIOUS
  <2> HIDE DEF T, S
  <2>2. Cardinality(S \cup T) = n + m - Cardinality({})
    BY <1>2, <2>1, FS_Union
  <2>3. Cardinality({}) = 0
    BY FS_EmptySet
  <2>4. Table!Cardinality(S \cup cars) = Cardinality(S \cup cars)
    BY DEF Table!Cardinality, Cardinality
  <2>5. Len(rows) = n + m /\ n \in Nat /\ m \in Nat
    BY <1>1 DEF RowsOK
  <2> HIDE DEF n, m
  <2>6. Cardinality(S \cup cars) = Cardinality(S \cup T)
    BY <2>1, Zenon
  <2>7. Cardinality(S \cup T) = n + m
    BY <2>2, <2>3, <2>5
  <2>8. QED
    BY <2>4, <2>5, <2>6, <2>7
<1> HIDE DEF S, T, n, m
<1>4. \A i \in DOMAIN rows : \/ i \in 1..n /\ rows[i].status = "active"
                             \/ i \in (n + 1)..(n + m) /\ rows[i].status = "dnf"
  BY <1>1 DEF RowsOK
<1>n. n \in Nat /\ m \in Nat /\ DOMAIN rows = 1..(n + m)
  BY <1>1 DEF RowsOK
<1>5. Table!Status(rows, "active") = S
  <2>1. Table!Status(rows, "active") = {rows[i].car : i \in 1..n}
    <3>1. {j \in DOMAIN rows : rows[j].status = "active"} = 1..n
      BY <1>4, <1>n, <1>1 DEF RowsOK
    <3>2. QED
      BY <3>1 DEF Table!Status
  <2>2. \A i \in 1..n : rows[i].car = Order(k, f)[i]
    BY <1>1 DEF RowsOK
  <2>3. /\ \A i \in 1..n : rows[i].car \in S
        /\ \A c \in S : \E i \in 1..n : rows[i].car = c
    BY <2>2, <1>2 DEF Sorts, n
  <2>4. QED
    BY <2>1, <2>3
<1>6. Table!Status(rows, "dnf") = T
  <2>1. Table!Status(rows, "dnf") = {rows[i].car : i \in (n + 1)..(n + m)}
    <3>1. {j \in DOMAIN rows : rows[j].status = "dnf"} = (n + 1)..(n + m)
      BY <1>4, <1>n, <1>1 DEF RowsOK
    <3>2. QED
      BY <3>1 DEF Table!Status
  <2>2. \A i \in (n + 1)..(n + m) : rows[i].car = GoneOrder(k, f)[i - n] /\ i - n \in 1..m
    BY <1>1, <1>n DEF RowsOK
  <2>3. \A i \in 1..m : i + n \in (n + 1)..(n + m) /\ (i + n) - n = i
    BY <1>n
  <2>4. \A c \in T : \E i \in (n + 1)..(n + m) : rows[i].car = c
    <3>1. SUFFICES ASSUME NEW c \in T PROVE \E i \in (n + 1)..(n + m) : rows[i].car = c
      OBVIOUS
    <3>2. PICK i \in 1..m : GoneOrder(k, f)[i] = c
      BY <1>2 DEF Sorts, m
    <3>3. QED
      BY <3>2, <2>2, <2>3
  <2>5. \A i \in (n + 1)..(n + m) : rows[i].car \in T
    BY <2>2, <1>2 DEF Sorts, m
  <2>6. QED
    BY <2>1, <2>4, <2>5
<1>7. T = (S \cup cars) \ S
  BY DEF T
<1>8. \A i, j \in DOMAIN rows : rows[i].status = "dnf" /\ rows[j].status = "active" => j < i
  BY <1>4, <1>n
<1>9. QED
  BY <1>3, <1>5, <1>6, <1>7, <1>8 DEF S

\* With baselines from the grid, the rows are in the order of the race.
LEMMA RowsFollow ==
    ASSUME NEW k, NEW cars, NEW grid, CacheOK(k, cars, grid), NEW f \in Frames,
           grid, OnGrid(k, f), NEW rows, rows = Rows(k, f)
    PROVE  Table!InRaceOrder(rows, f.cars)
<1> DEFINE S == DOMAIN f.cars
           n == Cardinality(S)
           m == Cardinality(cars \ S)
           s == Order(k, f)
           d == Driven(k, f)
<1>1. RowsOK(rows, k, f, n, m)
  BY RowsAre
<1>2. /\ n \in Nat /\ s \in [1..n -> S]
      /\ \A i, j \in 1..n : Table!Ahead(d, s[i], s[j]) => i < j
  BY OrderIs DEF Sorts
<1>3. \A c \in S : d[c] = Table!RawProgress(f, c)
  BY DrivenIs
<1>4. f.lap = LapLength
  BY DEF OnGrid
<1> HIDE DEF n, m, s, d
<1>5. SUFFICES ASSUME NEW i \in DOMAIN rows, NEW j \in DOMAIN rows,
                      rows[i].status = "active", rows[j].status = "active",
                      Table!Further(f.cars[rows[i].car], f.cars[rows[j].car])
               PROVE  i < j
  BY DEF Table!InRaceOrder
<1>6. i \in 1..n /\ j \in 1..n
  BY <1>1, <1>5 DEF RowsOK
<1>7. rows[i].car = s[i] /\ rows[j].car = s[j] /\ s[i] \in S /\ s[j] \in S
  BY <1>1, <1>2, <1>6 DEF RowsOK, s
<1>8. d[s[i]] > d[s[j]]
  BY <1>3, <1>4, <1>5, <1>7, FurtherIsMore
<1>9. Table!Ahead(d, s[i], s[j])
  BY <1>8 DEF Table!Ahead
<1>10. QED
  BY <1>2, <1>6, <1>9

\* GapsAreTrue, of given rows.
GapsOK(rows, progress, traj, now) ==
    \A i \in DOMAIN rows :
        LET leader == rows[1].car
            tr     == traj[leader]
            p      == progress[rows[i].car]
        IN  rows[i].status = "active" /\ rows[i].gap # Nil /\ i > 1 /\ Len(tr) >= 2
              /\ Table!Covers(tr, p) /\ progress[leader] > Moved
            => \A j \in DOMAIN tr :
                 /\ tr[j].p >= p => now - tr[j].t <= rows[i].gap
                 /\ tr[j].p <= p => rows[i].gap <= Table!Max({now - tr[j].t, 0})

\* Where a gap is computed from the leader's trajectory, it is the time since.
LEMMA RowsGaps ==
    ASSUME NEW k, NEW cars, NEW grid, CacheOK(k, cars, grid), NEW f \in Frames,
           f.elapsed \in Nat
    PROVE  GapsOK(Rows(k, f), Driven(k, f), Paths(k, f), f.elapsed)
<1> DEFINE rows == Rows(k, f)
           leader == rows[1].car
           tr == Paths(k, f)[leader]
<1> HIDE DEF rows, leader, tr
<1> SUFFICES ASSUME NEW i \in DOMAIN rows, rows[i].status = "active", rows[i].gap # Nil,
                     i > 1, Len(tr) >= 2,
                     Table!Covers(tr, Driven(k, f)[rows[i].car]), Driven(k, f)[leader] > Moved
              PROVE  \A j \in DOMAIN tr :
                       /\ tr[j].p >= Driven(k, f)[rows[i].car]
                            => f.elapsed - tr[j].t <= rows[i].gap
                       /\ tr[j].p <= Driven(k, f)[rows[i].car]
                            => rows[i].gap <= Table!Max({f.elapsed - tr[j].t, 0})
  BY DEF GapsOK, rows, leader, tr
<1> DEFINE p == Driven(k, f)[rows[i].car]
<1> DEFINE S == DOMAIN f.cars
           n == Cardinality(S)
           m == Cardinality(cars \ S)
           s == Order(k, f)
           d == Driven(k, f)
           c == rows[i].car
<1>1. RowsOK(rows, k, f, n, m)
  BY RowsAre DEF rows
<1>2. /\ n \in Nat /\ s \in [1..n -> S] /\ \A x, y \in 1..n : s[x] = s[y] => x = y
  BY OrderIs DEF Sorts
<1>3. d \in [S -> Int]
  BY DrivenIs
<1>4. \A x \in S : Grows(Paths(k, f)[x])
  BY PathsGrow
<1> HIDE DEF n, m, s, d
<1>5. i \in 1..n /\ 1 \in 1..n /\ i \in Int
  BY <1>1, <1>2 DEF RowsOK
<1>6. c = s[i] /\ leader = s[1] /\ c \in S /\ leader \in S /\ c # leader
  BY <1>1, <1>2, <1>5 DEF RowsOK, s, leader
<1>7. Grows(tr) /\ p \in Int /\ f.elapsed \in Int
  BY <1>3, <1>4, <1>6 DEF d, tr
<1>8. rows[i].gap = Table!GapOf(k, f, d, Paths(k, f), leader, c, f.elapsed)
  <2>1. rows[i].gap = GapsNow(k, f)[c]
    BY <1>1, <1>5, <1>6 DEF RowsOK, s
  <2>2. QED
    BY <2>1, <1>6 DEF GapsNow, s, d
<1>9. /\ ~(c = leader) /\ ~(Len(tr) < 2) /\ ~(d[leader] <= Moved)
      /\ d[c] = p /\ Table!Covers(tr, d[c])
  <2>1. Len(tr) \in Nat /\ d[leader] \in Int /\ Moved \in Int
    BY <1>3, <1>6, <1>7, GrowsIs, TableConstants
  <2>2. QED
    BY <2>1, <1>6 DEF d
<1>10. rows[i].gap = Table!TimeSince(tr, p, f.elapsed)
  BY <1>8, <1>9 DEF Table!GapOf, tr
<1>11. DOMAIN tr = 1..Len(tr)
  BY <1>7, GrowsIs
<1>12. \A j \in 1..Len(tr) :
         /\ tr[j].p >= p => f.elapsed - tr[j].t <= Table!TimeSince(tr, p, f.elapsed)
         /\ tr[j].p <= p => Table!TimeSince(tr, p, f.elapsed) <= Table!Max({f.elapsed - tr[j].t, 0})
  BY <1>7, TimeSinceIs
<1>13. QED
  BY <1>10, <1>11, <1>12

\* The invariant: what each frame in use is, what the cache remembers, and that the
\* table last computed is complete, true and in order.
TableInv ==
    /\ frame \in Frames
    /\ hub.lap \in {1, LapLength}
    /\ spawned \in 0..MaxCars
    /\ DOMAIN req = Streams
    /\ \A c \in Streams : req[c] # Nil => req[c] \in Frames /\ req[c].on
    /\ open \subseteq Streams
    /\ CacheOK(cache, seen, whole)
    /\ Table!TableIsComplete /\ Table!GapsAreTrue
    /\ whole => Table!InRaceOrder(answer.rows, answer.cars)

\* compute_official_rows_with_cache keeps all that is said of the table, whatever
\* frame it works on.
LEMMA AnswerStep ==
    ASSUME CacheOK(cache, seen, whole), NEW f0 \in Frames, Table!Answer(f0)
    PROVE  /\ CacheOK(cache, seen, whole)'
           /\ Table!TableIsComplete' /\ Table!GapsAreTrue'
           /\ (whole => Table!InRaceOrder(answer.rows, answer.cars))'
<1> DEFINE t == Table!Table(cache, f0)
           f == Timed(f0)
           k == KeptCache(cache, f0)
           cars == IF Resets(cache, f0) THEN {} ELSE seen
           grid == IF Resets(cache, f0) THEN TRUE ELSE whole
<1>1. /\ cache' = t.cache
      /\ answer' = [rows |-> t.rows, cars |-> f0.cars, progress |-> Table!Progress(t.cache.start, f0)]
      /\ seen' = DOMAIN f0.cars \cup (IF t.reset THEN {} ELSE seen)
      /\ whole' = (t.grid /\ (whole \/ t.reset))
  BY DEF Table!Answer
<1>2. /\ t.reset = Resets(cache, f0) /\ t.grid = OnGrid(k, f) /\ t.rows = Rows(k, f)
      /\ t.cache.elapsed = f.elapsed /\ t.cache.active = ActiveRows(k, f)
      /\ t.cache.dnf = Gone(k, f) /\ t.cache.traj = Paths(k, f)
      /\ t.cache.start = Table!Baselines(k, f) /\ t.cache.gap = GapsKept(k, f)
  BY TableIs
<1> HIDE DEF t
<1>3. f \in Frames /\ f.cars = f0.cars /\ f.lap = f0.lap /\ f.elapsed \in Nat
  BY TimedIs
<1>4. CacheOK(k, cars, grid)
  <2>1. CASE Resets(cache, f0)
    BY <2>1, ResetIs DEF KeptCache
  <2>2. CASE ~Resets(cache, f0)
    BY <2>2 DEF KeptCache
  <2>3. QED
    BY <2>1, <2>2
<1>5. /\ seen' = DOMAIN f.cars \cup cars
      /\ whole' => grid /\ OnGrid(k, f)
  BY <1>1, <1>2, <1>3
<1>6. /\ answer'.rows = Rows(k, f) /\ answer'.cars = f.cars
      /\ answer'.progress = Table!Progress(t.cache.start, f0)
  BY <1>1, <1>2, <1>3
<1>7. Table!Progress(t.cache.start, f0) = Driven(k, f)
  <2>1. \A c : Table!RawProgress(f, c) = Table!RawProgress(f0, c)
    BY <1>3 DEF Table!RawProgress
  <2> HIDE DEF f
  <2>2. QED
    BY <1>2, <1>3, <2>1 DEF Driven, Table!Progress
<1> HIDE DEF f, k, cars, grid
<1>8. /\ cache'.active = ActiveRows(k, f) /\ cache'.dnf = Gone(k, f)
      /\ cache'.traj = Paths(k, f) /\ cache'.start = Table!Baselines(k, f)
      /\ cache'.gap = GapsKept(k, f)
  BY <1>1, <1>2
<1>9. CacheOK(cache', seen', whole')
  BY <1>3, <1>4, <1>5, <1>8, CacheKept
<1>10. Table!TableIsComplete'
  <2> DEFINE rows == answer'.rows
  <2>1. /\ Len(rows) = Table!Cardinality(DOMAIN f.cars \cup cars)
        /\ Table!Status(rows, "active") = DOMAIN f.cars
        /\ Table!Status(rows, "dnf") = (DOMAIN f.cars \cup cars) \ DOMAIN f.cars
        /\ \A i, j \in DOMAIN rows :
             rows[i].status = "dnf" /\ rows[j].status = "active" => j < i
    BY <1>3, <1>4, <1>6, RowsComplete
  <2>2. QED
    BY <2>1, <1>5, <1>6 DEF Table!TableIsComplete
<1>11. Table!GapsAreTrue'
  <2>1. /\ answer'.progress = Driven(k, f) /\ cache'.traj = Paths(k, f)
        /\ cache'.elapsed = f.elapsed
    BY <1>1, <1>2, <1>6, <1>7
  <2>2. GapsOK(answer'.rows, answer'.progress, cache'.traj, cache'.elapsed)
    BY <2>1, <1>3, <1>4, <1>6, RowsGaps
  <2>3. QED
    BY <2>2 DEF GapsOK, Table!GapsAreTrue
<1>12. whole' => Table!InRaceOrder(answer'.rows, answer'.cars)
  BY <1>3, <1>4, <1>5, <1>6, RowsFollow
<1>13. QED
  BY <1>9, <1>10, <1>11, <1>12

\* A car that moves stays on the track.
LEMMA MoveIs ==
    ASSUME NEW car \in Cars, NEW d \in Steps
    PROVE  Table!Move(car, d) \in Cars
<1> DEFINE m == Table!Max({car.m + d, -1})
           x == Table!Max({m, 0})
           L == LapLength
<1>1. car.laps \in Nat /\ car.m \in Int /\ d \in Int /\ L \in Nat /\ L > 0
  BY TableConstants DEF Cars
<1>2. m \in Int /\ m >= -1
  <2>1. car.m + d \in Int /\ -1 \in Int
    BY <1>1
  <2>2. QED
    BY <2>1, LargerIs, Zenon
<1> HIDE DEF m
<1>3. x \in Int /\ x >= 0
  BY <1>2, NotBelowZero
<1> HIDE DEF x
<1>4. x \div L \in Nat
  <2>1. L * 0 <= x /\ x <= L * x
    <3>1. (L - 1) * x >= 0
      BY <1>1, <1>3
    <3>2. (L - 1) * x = L * x - x /\ L * x \in Int
      BY <1>1, <1>3
    <3>3. QED
      BY <3>1, <3>2, <1>1, <1>3
  <2>2. x \div L \in Int /\ 0 <= x \div L
    BY <1>1, <1>3, <2>1, DivBounds
  <2>3. QED
    BY <2>2
<1>5. m >= 0 => m % L \in 0..(L - 1)
  BY <1>1, <1>2
<1>6. ~(m >= 0) => m = -1
  BY <1>2
<1> DEFINE q == car.laps + x \div L
           r == IF m < 0 THEN m ELSE m % L
<1>7. q \in Nat
  BY <1>1, <1>4
<1>8. r \in -1..(L - 1)
  BY <1>1, <1>2, <1>5, <1>6
<1>9. Table!Move(car, d) = [laps |-> q, m |-> r]
  BY DEF Table!Move, m, x
<1> HIDE DEF q, r
<1>10. QED
  BY <1>7, <1>8, <1>9 DEF Cars

\* Steps that leave the table alone.
LEMMA TableRests ==
    ASSUME TableInv, frame' \in Frames, hub'.lap \in {1, LapLength}, spawned' \in 0..MaxCars,
           DOMAIN req' = Streams,
           \A c \in Streams : req'[c] # Nil => req'[c] \in Frames /\ req'[c].on,
           open' \subseteq Streams, UNCHANGED <<cache, answer, seen, whole>>
    PROVE  TableInv'
<1>1. Table!TableIsComplete' /\ Table!GapsAreTrue'
  BY DEF TableInv, Table!TableIsComplete, Table!GapsAreTrue
<1>2. (whole => Table!InRaceOrder(answer.rows, answer.cars))'
  BY DEF TableInv
<1>3. CacheOK(cache, seen, whole)'
  BY DEF TableInv
<1>4. QED
  BY <1>1, <1>2, <1>3 DEF TableInv

\* The steps of the race.
LEMMA FrameSteps ==
    ASSUME TableInv,
           \/ \E map \in RaceMaps, ok \in BOOLEAN : Table!StartRace(map, ok)
           \/ Table!StopRace
           \/ \E step \in [DOMAIN frame.cars -> Steps] : Table!Drive(step)
           \/ Table!LoseTime
           \/ \E c \in 1..MaxCars : Table!Vanish(c)
    PROVE  TableInv'
<1>i. /\ frame \in Frames /\ hub.lap \in {1, LapLength} /\ spawned \in 0..MaxCars
      /\ DOMAIN req = Streams
      /\ \A c \in Streams : req[c] # Nil => req[c] \in Frames /\ req[c].on
      /\ open \subseteq Streams
  BY DEF TableInv
<1>f. /\ frame.cars \in [DOMAIN frame.cars -> Cars] /\ DOMAIN frame.cars \in SUBSET (1..MaxCars)
      /\ frame.clock \in Nat
  BY <1>i, FrameIs DEF Frames
<1>m. \A S \in SUBSET (1..MaxCars) : \A g \in [S -> Cars] : g \in CarMaps
  BY DEF CarMaps
<1>1. ASSUME NEW map \in RaceMaps, NEW ok \in BOOLEAN, Table!StartRace(map, ok) PROVE TableInv'
  <2> DEFINE S == (spawned + 1)..spawned'
             g == [c \in S |-> [laps |-> 0, m |-> -1]]
  <2>1. /\ hub' = Table!LapRead(map, ok)
        /\ spawned' = Table!Min({spawned + GridSize, MaxCars})
        /\ frame' = [on |-> TRUE, map |-> map, clock |-> 0, elapsed |-> 0, lap |-> hub'.lap,
                     cars |-> g]
        /\ UNCHANGED <<req, cache, answer, open, seen, whole>>
    BY <1>1 DEF Table!StartRace
  <2>2. hub'.lap \in {1, LapLength}
    BY <2>1, <1>i DEF Table!LapRead
  <2>3. spawned' \in 0..MaxCars
    <3> DEFINE T == {spawned + GridSize, MaxCars}
    <3>1. T \in SUBSET Nat /\ T # {} /\ MaxCars \in T /\ MaxCars \in Nat
      BY <1>i, TableConstants
    <3>2. spawned' = Table!Min(T)
      BY <2>1
    <3> HIDE DEF T
    <3>3. spawned' \in Nat /\ spawned' <= MaxCars
      BY <3>1, <3>2, LeastIs
    <3>4. QED
      BY <3>1, <3>3
  <2>4. g \in CarMaps
    <3>1. S \in SUBSET (1..MaxCars)
      BY <1>i, <2>3, TableConstants
    <3>2. [laps |-> 0, m |-> -1] \in Cars
      BY TableConstants DEF Cars
    <3>3. g \in [S -> Cars]
      BY <3>2
    <3>4. QED
      BY <3>1, <3>3, <1>m
  <2> HIDE DEF g
  <2>5. frame' \in Frames
    BY <2>1, <2>2, <2>4 DEF Frames
  <2>6. QED
    BY <1>i, <2>1, <2>2, <2>3, <2>5, TableRests
<1>2. CASE Table!StopRace
  <2>1. Table!Idle \in Frames
    <3>1. Table!Empty \in [{} -> Cars] /\ {} \in SUBSET (1..MaxCars)
      BY DEF Table!Empty
    <3>2. Table!Empty \in CarMaps
      BY <3>1, <1>m
    <3>3. QED
      BY <3>2 DEF Table!Idle, Frames
  <2>2. QED
    BY <1>2, <1>i, <2>1, TableRests DEF Table!StopRace
<1>3. ASSUME NEW step \in [DOMAIN frame.cars -> Steps], Table!Drive(step) PROVE TableInv'
  <2> DEFINE g == [c \in DOMAIN frame.cars |-> Table!Move(frame.cars[c], step[c])]
  <2>1. g \in [DOMAIN frame.cars -> Cars]
    BY <1>f, MoveIs
  <2>2. g \in CarMaps
    BY <2>1, <1>f, <1>m
  <2>3. frame' = [frame EXCEPT !.clock = @ + 1, !.elapsed = frame.clock + 1, !.cars = g]
    BY <1>3 DEF Table!Drive
  <2> HIDE DEF g
  <2>4. frame' \in Frames
    <3> DEFINE n == frame.clock + 1
               a == [frame EXCEPT !.clock = n]
               b == [a EXCEPT !.elapsed = n]
    <3>1. n \in Nat /\ frame.clock \in Nat
      BY <1>f
    <3> HIDE DEF n
    <3>2. a \in Frames
      BY <1>i, <3>1 DEF Frames
    <3> HIDE DEF a
    <3>3. b \in Frames
      BY <3>1, <3>2 DEF Frames
    <3> HIDE DEF b
    <3>4. [b EXCEPT !.cars = g] \in Frames
      BY <2>2, <3>3 DEF Frames
    <3>5. QED
      BY <2>3, <3>4 DEF a, b, n
  <2>5. QED
    BY <1>3, <1>i, <2>4, TableRests DEF Table!Drive
<1>4. CASE Table!LoseTime
  <2>1. frame' \in Frames
    BY <1>4, <1>i DEF Table!LoseTime, Frames
  <2>2. QED
    BY <1>4, <1>i, <2>1, TableRests DEF Table!LoseTime
<1>5. ASSUME NEW c \in 1..MaxCars, Table!Vanish(c) PROVE TableInv'
  <2> DEFINE g == [d \in DOMAIN frame.cars \ {c} |-> frame.cars[d]]
  <2>1. g \in [DOMAIN frame.cars \ {c} -> Cars]
    BY <1>f
  <2>2. g \in CarMaps
    BY <2>1, <1>f, <1>m
  <2>3. frame' = [frame EXCEPT !.cars = g]
    BY <1>5 DEF Table!Vanish
  <2> HIDE DEF g
  <2>4. frame' \in Frames
    BY <1>i, <2>2, <2>3 DEF Frames
  <2>5. QED
    BY <1>5, <1>i, <2>4, TableRests DEF Table!Vanish
<1>6. QED
  BY <1>1, <1>2, <1>3, <1>4, <1>5

\* The steps of requests.
LEMMA RequestSteps ==
    ASSUME TableInv,
           \/ \E c \in Streams : Table!Take(c) \/ Table!Compute(c) \/ Table!Drop(c)
           \/ Table!Serve
           \/ \E s \in Streams : Table!EndStream(s)
    PROVE  TableInv'
<1>i. /\ frame \in Frames /\ hub.lap \in {1, LapLength} /\ spawned \in 0..MaxCars
      /\ DOMAIN req = Streams
      /\ \A c \in Streams : req[c] # Nil => req[c] \in Frames /\ req[c].on
      /\ open \subseteq Streams
  BY DEF TableInv
<1>1. ASSUME NEW c \in Streams, Table!Take(c) PROVE TableInv'
  <2>1. /\ req' = [req EXCEPT ![c] = frame] /\ frame.on
        /\ UNCHANGED <<frame, hub, spawned, cache, answer, open, seen, whole>>
    BY <1>1 DEF Table!Take
  <2>2. DOMAIN req' = Streams /\ req'[c] = frame /\ \A d \in Streams : d # c => req'[d] = req[d]
    BY <1>i, <2>1
  <2>3. \A d \in Streams : req'[d] # Nil => req'[d] \in Frames /\ req'[d].on
    BY <1>i, <2>1, <2>2
  <2>4. QED
    BY <1>i, <2>1, <2>2, <2>3, TableRests
<1>q. ASSUME NEW c \in Streams, req' = [req EXCEPT ![c] = Nil]
      PROVE  /\ DOMAIN req' = Streams
             /\ \A d \in Streams : req'[d] # Nil => req'[d] \in Frames /\ req'[d].on
  <2>1. DOMAIN req' = Streams /\ req'[c] = Nil /\ \A d \in Streams : d # c => req'[d] = req[d]
    BY <1>i, <1>q
  <2>2. QED
    BY <1>i, <2>1
<1>2. ASSUME NEW c \in Streams, Table!Drop(c) PROVE TableInv'
  <2>1. /\ req' = [req EXCEPT ![c] = Nil] /\ open' = open \ {c}
        /\ UNCHANGED <<frame, hub, spawned, cache, answer, seen, whole>>
    BY <1>2 DEF Table!Drop
  <2>2. QED
    BY <1>i, <1>q, <2>1, TableRests
<1>3. ASSUME NEW s \in Streams, Table!EndStream(s) PROVE TableInv'
  BY <1>3, <1>i, TableRests DEF Table!EndStream
<1>4. ASSUME NEW c \in Streams, Table!Compute(c) PROVE TableInv'
  <2>1. /\ req[c] \in Frames /\ Table!Answer(req[c])
        /\ open' = open \cup ({c} \cap Streams) /\ req' = [req EXCEPT ![c] = Nil]
        /\ UNCHANGED <<frame, hub, spawned>>
    BY <1>4, <1>i DEF Table!Compute
  <2>2. /\ CacheOK(cache, seen, whole)'
        /\ Table!TableIsComplete' /\ Table!GapsAreTrue'
        /\ (whole => Table!InRaceOrder(answer.rows, answer.cars))'
    BY <2>1, AnswerStep DEF TableInv
  <2>3. QED
    BY <1>i, <1>q, <2>1, <2>2 DEF TableInv
<1>5. CASE Table!Serve
  <2>1. Table!Answer(frame) /\ UNCHANGED <<frame, hub, spawned, req, open>>
    BY <1>5 DEF Table!Serve
  <2>2. /\ CacheOK(cache, seen, whole)'
        /\ Table!TableIsComplete' /\ Table!GapsAreTrue'
        /\ (whole => Table!InRaceOrder(answer.rows, answer.cars))'
    BY <1>i, <2>1, AnswerStep DEF TableInv
  <2>3. QED
    BY <1>i, <2>1, <2>2 DEF TableInv
<1>6. QED
  BY <1>1, <1>2, <1>3, <1>4, <1>5

\* Every step keeps the invariant.
LEMMA TableNext == TableInv /\ Table!Next => TableInv'
BY FrameSteps, RequestSteps DEF Table!Next

\* At first no race is on and the table is empty.
LEMMA TableInit == Table!Init => TableInv
<1>1. SUFFICES ASSUME Table!Init PROVE TableInv
  OBVIOUS
<1> DEFINE e == Table!Empty
<1>2. /\ frame = Table!Idle /\ hub = [map |-> Nil, lap |-> 1] /\ spawned = 0
      /\ req = [c \in Streams |-> Nil]
      /\ cache = [marker |-> Nil, elapsed |-> Nil, active |-> e, dnf |-> e, traj |-> e,
                  gap |-> e, start |-> e]
      /\ answer = [rows |-> <<>>, cars |-> e, progress |-> e]
      /\ open = {} /\ seen = {} /\ whole = TRUE
  BY <1>1 DEF Table!Init
<1>e. DOMAIN e = {}
  BY DEF Table!Empty
<1>3. frame \in Frames
  <2>1. e \in [{} -> Cars] /\ {} \in SUBSET (1..MaxCars)
    BY DEF Table!Empty
  <2>2. e \in CarMaps
    BY <2>1 DEF CarMaps
  <2>3. Table!Idle = [on |-> FALSE, map |-> Nil, clock |-> 0, elapsed |-> Nil, lap |-> 1,
                      cars |-> e]
    BY DEF Table!Idle
  <2> HIDE DEF e
  <2>4. QED
    BY <1>2, <2>2, <2>3 DEF Frames
<1> HIDE DEF e
<1>4. CacheOK(cache, seen, whole)
  <2>1. /\ cache.active = e /\ cache.dnf = e /\ cache.traj = e /\ cache.gap = e
        /\ cache.start = e
    BY <1>2
  <2>2. QED
    BY <1>2, <1>e, <2>1 DEF CacheOK
<1>5. answer.rows = <<>> /\ answer.cars = e /\ DOMAIN answer.rows = {} /\ Len(answer.rows) = 0
  BY <1>2
<1>6. Table!TableIsComplete
  <2>1. Table!Cardinality({}) = Cardinality({})
    BY DEF Table!Cardinality, Cardinality
  <2>2. Table!Cardinality(seen) = 0
    BY <1>2, <2>1, FS_EmptySet
  <2>3. Table!Status(answer.rows, "active") = {} /\ Table!Status(answer.rows, "dnf") = {}
    BY <1>5 DEF Table!Status
  <2>4. QED
    BY <1>2, <1>5, <1>e, <2>2, <2>3 DEF Table!TableIsComplete
<1>7. Table!GapsAreTrue /\ Table!InRaceOrder(answer.rows, answer.cars)
  BY <1>5 DEF Table!GapsAreTrue, Table!InRaceOrder
<1>8. QED
  <2>1. spawned \in 0..MaxCars /\ hub.lap = 1 /\ DOMAIN req = Streams
        /\ \A c \in Streams : req[c] = Nil
    BY <1>2, TableConstants
  <2>2. QED
    BY <1>2, <1>3, <1>4, <1>6, <1>7, <2>1 DEF TableInv

\* RaceTableQueryServiceImpl: whatever order frames are worked on in, the table has
\* one row for every car of the race, its rows follow the race, trajectories grow and
\* a gap is the time since the leader was there; for any number of clients, cars,
\* laps and any thresholds.
THEOREM TableSound == Spec => []TableIsTrue
<1> DEFINE I == runs = "table" => TableInv
<1>1. Init => I
  BY TableInit DEF Init
<1>2. I /\ [Next]_vars => I'
  <2>1. TableInv /\ UNCHANGED tableVars => TableInv'
    <3>1. SUFFICES ASSUME TableInv, UNCHANGED tableVars PROVE TableInv'
      OBVIOUS
    <3>2. QED
      BY <3>1, TableRests DEF TableInv, tableVars
  <2>2. QED
    BY <2>1, TableNext DEF Next, vars
<1>3. I => TableIsTrue
  <2>1. SUFFICES ASSUME TableInv
                 PROVE  /\ Table!TypeOK /\ Table!TableIsComplete
                        /\ Table!TrajectoriesGrow /\ Table!GapsAreTrue
                        /\ Table!PositionsFollowRace
    BY DEF TableIsTrue
  <2>2. Table!TypeOK
    <3>1. frame.on \in BOOLEAN
      BY <2>1 DEF TableInv, Frames
    <3>2. QED
      BY <2>1, <3>1 DEF TableInv, CacheOK, Table!TypeOK
  <2>3. Table!TrajectoriesGrow
    <3>1. \A c \in DOMAIN cache.traj : Grows(cache.traj[c])
      BY <2>1 DEF TableInv, CacheOK
    <3>2. ASSUME NEW c \in DOMAIN cache.traj, NEW i \in 1..(Len(cache.traj[c]) - 1)
          PROVE  /\ cache.traj[c][i].p < cache.traj[c][i + 1].p
                 /\ cache.traj[c][i].t < cache.traj[c][i + 1].t
      <4> DEFINE tr == cache.traj[c]
      <4>1. Grows(tr)
        BY <3>1
      <4> HIDE DEF tr
      <4>2. /\ Len(tr) \in Nat
            /\ \A x, y \in 1..Len(tr) : x < y => tr[x].p < tr[y].p /\ tr[x].t < tr[y].t
        BY <4>1, GrowsIs
      <4>3. i \in 1..Len(tr) /\ i + 1 \in 1..Len(tr) /\ i < i + 1
        BY <4>2 DEF tr
      <4>4. QED
        BY <4>2, <4>3 DEF tr
    <3>3. QED
      BY <3>2 DEF Table!TrajectoriesGrow
  <2>4. Table!PositionsFollowRace
    BY <2>1, LocalRowsFollow DEF TableInv, Table!PositionsFollowRace
  <2>5. QED
    BY <2>1, <2>2, <2>3, <2>4 DEF TableInv
<1>4. QED
  BY <1>1, <1>2, <1>3, PTL DEF Spec
=============================================================================
