--------------------------- MODULE LocalRaceProofs ---------------------------
(***************************************************************************)
(* Proofs about LocalRace, for every set of admins, races and cars, every  *)
(* grid, participant limit, countdown and duration.                        *)
(***************************************************************************)
EXTENDS LocalRace, FiniteSetTheorems, TLAPS

-----------------------------------------------------------------------------
(* What holds however many admins act at once. *)

\* A race that is being created is nobody else's: the worker has its world from
\* the moment the handler moves on to the store, and until the store holds it no
\* bot and no other request can name it.
CreatingIsFresh ==
    \A a \in Admins :
        rpc[a] # Nil /\ rpc[a].op = "create" =>
            /\ \A b \in Admins \ {a} : rpc[b] # Nil => rpc[b].race # rpc[a].race
            /\ ~Holds(rpc[a].race)
            /\ \A k \in Cars : join[k].race # rpc[a].race
            /\ rpc[a].pc = "store" <=> engineRace = rpc[a].race

\* The times a start request holds and the store keeps leave room for the race.
WithinHorizon ==
    /\ store # Nil /\ store.countdownEnd # Nil => store.countdownEnd + Duration <= MaxTime
    /\ \A a \in Admins :
           rpc[a] # Nil /\ rpc[a].op = "start" /\ rpc[a].pc # "check" =>
               rpc[a].end # Nil /\ rpc[a].end + Duration <= MaxTime

\* Where a bot stands with the race it joins: its vehicle is in the world from
\* spawn to place and is in no other, it takes a vehicle and an index out only when
\* the world is gone, and its participant entry is one of the race the store holds.
JoinOK(k) ==
    /\ join[k].pc \in {"new", "left"} <=> join[k].race = Nil
    /\ join[k].pc \in {"new", "spawn", "register", "left"} => join[k].index = 0
    /\ join[k].pc \in {"new", "spawn", "register"} => participants[k] = 0
    /\ join[k].pc = "slots" => join[k].index # 0
    /\ participants[k] # 0 /\ join[k].pc # "left" => Holds(join[k].race)
    /\ join[k].pc \in {"register", "slots", "place"} /\ engineRace = join[k].race
          => k \in engineCars
    /\ \/ join[k].pc = "unregister"
       \/ join[k].pc = "despawn" /\ join[k].index # 0
       => engineRace # join[k].race
    /\ join[k].pc = "leaving" => k \notin engineCars
    /\ k \in engineCars => /\ join[k].race = engineRace
                           /\ join[k].pc \notin {"new", "spawn", "left"}

\* The index a bot is given is below the limit while the world of its race stands;
\* the slot is the one of the index.
IndexOK(k) ==
    /\ join[k].index # 0 /\ Holds(join[k].race) => join[k].index < nextIndex
    /\ join[k].index # 0 /\ engineRace = join[k].race => join[k].index <= MaxParticipants
    /\ join[k].slot # 0 => /\ join[k].index # 0
                           /\ join[k].slot = ((join[k].index - 1) % StartSlots) + 1

BotsOK == \A k \in Cars : JoinOK(k) /\ IndexOK(k)

\* No two bots of a race have the same index.
IndicesDistinct ==
    \A j, k \in Cars :
        /\ j # k /\ join[j].race = join[k].race
        /\ join[j].index # 0 /\ join[k].index # 0
        => join[j].index # join[k].index

\* Indices are handed out one per participant while the race's world stands, and
\* one per bot that got past registration at all times.
Past == {k \in Cars : join[k].pc \notin {"new", "spawn", "register"}}
CountsOK ==
    /\ nextIndex <= Cardinality(Past) + 1
    /\ store # Nil /\ engineRace = store.id => nextIndex = Cardinality(Registered) + 1

Inv == /\ TypeOK /\ WithinHorizon /\ CreatingIsFresh /\ BotsOK /\ IndicesDistinct
       /\ CountsOK

-----------------------------------------------------------------------------
(* What holds with one admin at a time. *)

OneAdmin == \A a, b \in Admins : a = b

\* The times of a race go with its phase.
Fits(r) ==
    /\ r.phase = "Staging" => r.countdownEnd = Nil /\ r.plannedEnd = Nil
    /\ r.phase = "Countdown" => r.countdownEnd # Nil /\ r.plannedEnd = Nil
    /\ r.phase \in {"Running", "Finished"} =>
           r.countdownEnd # Nil /\ r.plannedEnd = r.countdownEnd + Duration
    /\ r.phase = "Finished" => now >= r.plannedEnd
TimesFitPhase == store # Nil => Fits(store)

\* Between a start's check and its update the race stays in staging.
StartSeesStaging ==
    \A a \in Admins :
        At(a, "start", "update") /\ Holds(rpc[a].race) => store.phase = "Staging"

ClockInv == Inv /\ TimesFitPhase /\ StartSeesStaging

-----------------------------------------------------------------------------
(* Operators. *)

\* Within the grid the index is the slot.
LEMMA SlotOfIndex ==
    ASSUME NEW i \in Nat \ {0}
    PROVE  /\ ((i - 1) % StartSlots) + 1 \in 1..StartSlots
           /\ i <= StartSlots => ((i - 1) % StartSlots) + 1 = i
BY RaceAssumption

\* Normalising keeps the race, its countdown, its type and its times within the
\* bounds.
LEMMA NormalizeType ==
    ASSUME NEW r \in Race, now \in Times,
           r.countdownEnd # Nil => r.countdownEnd + Duration <= MaxTime
    PROVE  /\ Normalize(r) \in Race
           /\ Normalize(r).id = r.id /\ Normalize(r).countdownEnd = r.countdownEnd
<1> USE NilAssumption DEF Race, Phases
<1>1. CASE r.phase = "Countdown" /\ r.countdownEnd # Nil /\ now >= r.countdownEnd
  <2>1. r.countdownEnd + Duration \in Times
    BY <1>1, RaceAssumption DEF Times
  <2>2. Normalize(r) = [r EXCEPT !.phase = "Running",
                                 !.plannedEnd = IF r.plannedEnd = Nil
                                                THEN r.countdownEnd + Duration
                                                ELSE r.plannedEnd]
    BY <1>1 DEF Normalize
  <2> QED
    BY <2>1, <2>2
<1>2. CASE Normalize(r) \in {r, [r EXCEPT !.phase = "Finished"]}
  BY <1>2
<1> QED
  BY <1>1, <1>2 DEF Normalize

\* A request is of the kind its operation names.
LEMMA RpcKinds ==
    ASSUME NEW q \in Rpcs
    PROVE  /\ q.op = "create" => q \in CreateRpcs
           /\ q.op = "start" => q \in StartRpcs
           /\ q.op = "abort" => q \in AbortRpcs
           /\ q.op = "close" => q \in CloseRpcs
           /\ q.race \in RaceIds
BY DEF Rpcs, CreateRpcs, StartRpcs, AbortRpcs, CloseRpcs

\* Losing the revision changes nothing else of a request.
LEMMA StaleType ==
    ASSUME NEW q \in Rpcs \cup {Nil}
    PROVE  /\ Stale(q) \in Rpcs \cup {Nil}
           /\ Stale(q) = Nil <=> q = Nil
           /\ q # Nil => /\ Stale(q).op = q.op /\ Stale(q).race = q.race
                         /\ Stale(q).pc = q.pc
                         /\ q.op = "start" => Stale(q).end = q.end
<1>1. CASE q = Nil
  BY <1>1 DEF Stale
<1>2. CASE q \in CreateRpcs
  BY <1>2, NilAssumption DEF Stale, Rpcs, CreateRpcs
<1>3. CASE q \in StartRpcs
  BY <1>3, NilAssumption DEF Stale, Rpcs, StartRpcs
<1>4. CASE q \in AbortRpcs
  BY <1>4, NilAssumption DEF Stale, Rpcs, AbortRpcs
<1>5. CASE q \in CloseRpcs
  BY <1>5, NilAssumption DEF Stale, Rpcs, CloseRpcs
<1> QED
  BY <1>1, <1>2, <1>3, <1>4, <1>5 DEF Rpcs

\* What may become of a request in flight when its operation and race stay.
Follows(p, q) ==
    \/ p = Nil
    \/ /\ p # Nil /\ q # Nil /\ p.op = q.op /\ p.race = q.race
       /\ p.op = "create" => p.pc = q.pc
       /\ p.op = "start" => \/ p.pc = q.pc /\ p.end = q.end
                            \/ p.end # Nil /\ p.end + Duration <= MaxTime
                            \/ q.pc # "check" /\ p.end = q.end

Ticks == [pc: {"idle", "read", "bump", "freeze", "apply"},
          race: RaceIds \cup {Nil}, fresh: BOOLEAN, cars: SUBSET Cars, ok: BOOLEAN]

\* Replacing one request and making the others stale.
LEMMA BumpAndType ==
    ASSUME TypeOK, NEW a \in Admins, NEW q \in Rpcs \cup {Nil}, BumpAnd(a, q)
    PROVE  /\ rpc' \in [Admins -> Rpcs \cup {Nil}]
           /\ rpc'[a] = q
           /\ \A b \in Admins \ {a} : rpc'[b] = Stale(rpc[b]) /\ Follows(rpc'[b], rpc[b])
           /\ tick' \in Ticks
<1>1. /\ rpc' \in [Admins -> Rpcs \cup {Nil}]
      /\ rpc'[a] = q
      /\ \A b \in Admins \ {a} : rpc'[b] = Stale(rpc[b])
  BY StaleType DEF BumpAnd, TypeOK
<1>2. \A b \in Admins \ {a} : Follows(rpc'[b], rpc[b])
  BY <1>1, StaleType DEF TypeOK, Follows
<1>3. tick' \in Ticks
  BY DEF BumpAnd, TypeOK, Ticks
<1> QED
  BY <1>1, <1>2, <1>3

\* Making every request stale.
LEMMA BumpType ==
    ASSUME TypeOK, rpc' = [a \in Admins |-> Stale(rpc[a])]
    PROVE  /\ rpc' \in [Admins -> Rpcs \cup {Nil}]
           /\ \A b \in Admins : rpc'[b] = Stale(rpc[b]) /\ Follows(rpc'[b], rpc[b])
<1>1. /\ rpc' \in [Admins -> Rpcs \cup {Nil}]
      /\ \A b \in Admins : rpc'[b] = Stale(rpc[b])
  BY StaleType DEF TypeOK
<1> QED
  BY <1>1, StaleType DEF TypeOK, Follows

\* Replacing one request.
LEMMA StepType ==
    ASSUME TypeOK, NEW a \in Admins, NEW q \in Rpcs \cup {Nil}, Step(a, q)
    PROVE  /\ rpc' \in [Admins -> Rpcs \cup {Nil}]
           /\ rpc'[a] = q
           /\ \A b \in Admins \ {a} : rpc'[b] = rpc[b] /\ Follows(rpc'[b], rpc[b])
           /\ tick' \in Ticks /\ tick' = tick
BY DEF Step, TypeOK, Follows, Ticks

-----------------------------------------------------------------------------
(* Types and bounds. *)

\* The number of bots is a number.
LEMMA CarsCount == Cardinality(Cars) \in Nat
BY RaceAssumption, FS_CardinalityType

\* The parts of the bounds that concern a start request survive while requests
\* only follow up on what they were.
LEMMA FollowsHorizon ==
    ASSUME TypeOK, WithinHorizon, NEW a \in Admins, Follows(rpc'[a], rpc[a])
    PROVE  rpc'[a] # Nil /\ rpc'[a].op = "start" /\ rpc'[a].pc # "check" =>
               rpc'[a].end # Nil /\ rpc'[a].end + Duration <= MaxTime
BY DEF Follows, WithinHorizon

\* A step that replaces one request and nothing else.
OnlyRequest(a) ==
    /\ TypeOK' /\ WithinHorizon'
    /\ \A b \in Admins \ {a} : rpc'[b] = rpc[b]
    /\ tick' = tick
    /\ UNCHANGED <<raceStore, engine, join, now>>

\* A request begun by an admin: for a fresh race, or for the one in the store.
LEMMA BeginTypes ==
    ASSUME Inv, NEW a \in Admins, Begin(a)
    PROVE  /\ OnlyRequest(a)
           /\ rpc'[a] # Nil
           /\ rpc'[a].op = "start" => rpc'[a].pc = "check"
           /\ \/ rpc'[a].op # "create" /\ Holds(rpc'[a].race)
              \/ /\ rpc'[a].op = "create" /\ rpc'[a].pc = "engine"
                 /\ ~Referenced(rpc'[a].race)
<1>1. TypeOK /\ WithinHorizon
  BY DEF Inv
<1>2. ASSUME NEW q \in Rpcs, Step(a, q), UNCHANGED <<raceStore, engine, join, now>>,
             q.op = "start" => q.pc = "check"
      PROVE  OnlyRequest(a) /\ rpc'[a] = q /\ q # Nil
  <2>1. /\ rpc' \in [Admins -> Rpcs \cup {Nil}]
        /\ rpc'[a] = q
        /\ \A b \in Admins \ {a} : rpc'[b] = rpc[b]
        /\ tick' = tick
    BY <1>1, <1>2, StepType
  <2>2. TypeOK'
    BY <1>1, <1>2, <2>1 DEF TypeOK, raceStore, engine
  <2>3. WithinHorizon'
    BY <1>1, <1>2, <2>1 DEF WithinHorizon, raceStore
  <2> QED
    BY <1>2, <2>1, <2>2, <2>3, NilAssumption DEF OnlyRequest
<1>3. ASSUME NEW id \in RaceIds, BeginCreate(a, id)
      PROVE  /\ OnlyRequest(a) /\ rpc'[a] # Nil /\ rpc'[a].op = "create"
             /\ rpc'[a].pc = "engine" /\ ~Referenced(rpc'[a].race)
  <2> DEFINE q == [op |-> "create", race |-> id, fresh |-> TRUE, pc |-> "engine"]
  <2>1. q \in Rpcs /\ q.op = "create" /\ q.race = id /\ q.pc = "engine"
    BY DEF Rpcs, CreateRpcs
  <2> QED
    BY <1>2, <1>3, <2>1 DEF BeginCreate
<1>4. ASSUME NEW id \in RaceIds, NEW s \in Countdowns, BeginStart(a, id, s)
      PROVE  /\ OnlyRequest(a) /\ rpc'[a] # Nil /\ rpc'[a].op = "start"
             /\ rpc'[a].pc = "check" /\ Holds(rpc'[a].race)
  <2> DEFINE q == [op |-> "start", race |-> id, fresh |-> TRUE, pc |-> "check",
                   secs |-> s, end |-> Nil]
  <2>1. q \in Rpcs /\ q.op = "start" /\ q.pc = "check" /\ q.race = id
    BY DEF Rpcs, StartRpcs
  <2> QED
    BY <1>2, <1>4, <2>1 DEF BeginStart
<1>5. ASSUME NEW id \in RaceIds, BeginAbort(a, id)
      PROVE  /\ OnlyRequest(a) /\ rpc'[a] # Nil /\ rpc'[a].op = "abort"
             /\ Holds(rpc'[a].race)
  <2> DEFINE q == [op |-> "abort", race |-> id, fresh |-> TRUE, pc |-> "update"]
  <2>1. q \in Rpcs /\ q.op = "abort" /\ q.race = id
    BY DEF Rpcs, AbortRpcs
  <2> QED
    BY <1>2, <1>5, <2>1 DEF BeginAbort
<1>6. ASSUME NEW id \in RaceIds, BeginClose(a, id)
      PROVE  /\ OnlyRequest(a) /\ rpc'[a] # Nil /\ rpc'[a].op = "close"
             /\ Holds(rpc'[a].race)
  <2> DEFINE q == [op |-> "close", race |-> id, fresh |-> TRUE, pc |-> "engine",
                   phase |-> Phase]
  <2>1. q \in Rpcs /\ q.op = "close" /\ q.race = id
    BY <1>6 DEF BeginClose, Rpcs, CloseRpcs
  <2> QED
    BY <1>2, <1>6, <2>1 DEF BeginClose
<1> QED
  BY <1>3, <1>4, <1>5, <1>6 DEF Begin

\* What a request at one of its steps looks like.
LEMMA AtType ==
    ASSUME TypeOK, NEW a \in Admins, NEW op, NEW pc, At(a, op, pc)
    PROVE  /\ rpc[a] \in Rpcs /\ rpc[a] # Nil /\ rpc[a].op = op /\ rpc[a].pc = pc
           /\ rpc[a].race \in RaceIds
BY RpcKinds DEF At, TypeOK

\* A step of a handler or of the task that leaves bots, indices and the worker's
\* world alone and keeps the race the store holds.
Quiet ==
    /\ UNCHANGED <<participants, nextIndex, engineRace, engineCars, join>>
    /\ store = Nil <=> store' = Nil
    /\ store # Nil => store'.id = store.id
    /\ \A b \in Admins : Follows(rpc'[b], rpc[b])

\* The types after a quiet step, from those of what it changes.
LEMMA QuietTypes ==
    ASSUME TypeOK, WithinHorizon, Quiet,
           store' \in Race \cup {Nil}, rpc' \in [Admins -> Rpcs \cup {Nil}],
           tick' \in Ticks, now' \in Times, freeze' \in BOOLEAN, driven' \subseteq driven,
           store' # Nil /\ store'.countdownEnd # Nil =>
               store'.countdownEnd + Duration <= MaxTime
    PROVE  TypeOK' /\ WithinHorizon'
<1>1. WithinHorizon'
  BY FollowsHorizon DEF WithinHorizon, Quiet
<1>2. TypeOK'
  BY DEF TypeOK, Quiet, Ticks
<1> QED
  BY <1>1, <1>2

\* A request that ends.
LEMMA DoneTypes ==
    ASSUME TypeOK, NEW a \in Admins, Done(a)
    PROVE  /\ rpc' \in [Admins -> Rpcs \cup {Nil}] /\ rpc'[a] = Nil
           /\ \A b \in Admins : Follows(rpc'[b], rpc[b])
           /\ \A b \in Admins \ {a} : rpc'[b] = rpc[b]
           /\ tick' = tick /\ tick' \in Ticks
BY StepType DEF Done, Follows

\* Normalising what the store holds keeps it there.
LEMMA NormalizeStore ==
    ASSUME TypeOK, WithinHorizon, store # Nil
    PROVE  /\ Normalize(store) \in Race /\ Normalize(store) # Nil
           /\ Normalize(store).id = store.id
           /\ Normalize(store).countdownEnd = store.countdownEnd
BY NormalizeType, NilAssumption DEF TypeOK, WithinHorizon

\* start_local_race_countdown.
LEMMA StartCheckQuiet ==
    ASSUME TypeOK, WithinHorizon, NEW a \in Admins, StartCheck(a)
    PROVE  TypeOK' /\ WithinHorizon' /\ Quiet
<1>1. rpc[a] \in StartRpcs /\ rpc[a] # Nil /\ rpc[a].op = "start" /\ rpc[a].pc = "check"
  BY AtType, RpcKinds DEF StartCheck
<1>2. /\ rpc' \in [Admins -> Rpcs \cup {Nil}] /\ tick' \in Ticks
      /\ \A b \in Admins : Follows(rpc'[b], rpc[b])
  <2>1. CASE Done(a)
    BY <2>1, DoneTypes
  <2>2. CASE /\ Horizon(rpc[a].secs)
             /\ Step(a, [rpc[a] EXCEPT !.pc = "update", !.end = now + rpc[a].secs])
    <3> DEFINE q == [rpc[a] EXCEPT !.pc = "update", !.end = now + rpc[a].secs]
    <3>1. /\ now + rpc[a].secs \in Times
          /\ now + rpc[a].secs + Duration <= MaxTime
          /\ now + rpc[a].secs # Nil
      BY <1>1, <2>2, RaceAssumption, NilAssumption DEF Horizon, StartRpcs, Times, TypeOK
    <3>2. /\ q \in Rpcs /\ q # Nil /\ q.op = "start" /\ q.race = rpc[a].race
          /\ q.end = now + rpc[a].secs
      BY <1>1, <3>1, NilAssumption DEF Rpcs, StartRpcs
    <3>3. Follows(q, rpc[a])
      BY <1>1, <3>1, <3>2 DEF Follows
    <3> QED
      BY <2>2, <3>2, <3>3, StepType
  <2> QED
    BY <2>1, <2>2 DEF StartCheck
<1>3. Quiet
  BY <1>2 DEF StartCheck, Quiet, raceStore, engine
<1> QED
  BY <1>2, <1>3, QuietTypes DEF StartCheck, raceStore, engine, TypeOK, WithinHorizon

\* The countdown set in the store stays within the bounds.
LEMMA StartUpdateQuiet ==
    ASSUME TypeOK, WithinHorizon, NEW a \in Admins, StartUpdate(a)
    PROVE  TypeOK' /\ WithinHorizon' /\ Quiet
<1>1. rpc[a] \in StartRpcs /\ rpc[a] # Nil /\ rpc[a].op = "start" /\ rpc[a].pc = "update"
  BY AtType, RpcKinds DEF StartUpdate
<1>2. CASE Done(a) /\ UNCHANGED store
  <2>1. Quiet
    BY <1>2, DoneTypes DEF StartUpdate, Quiet, engine
  <2> QED
    BY <1>2, <2>1, DoneTypes, QuietTypes DEF StartUpdate, engine, TypeOK, WithinHorizon
<1>3. CASE /\ Holds(rpc[a].race)
           /\ store' = Normalize(CountdownFrom(Normalize(store), rpc[a]))
           /\ Step(a, [rpc[a] EXCEPT !.pc = "bump"])
  <2> DEFINE q == [rpc[a] EXCEPT !.pc = "bump"]
             r == CountdownFrom(Normalize(store), rpc[a])
  <2>1. /\ q \in Rpcs /\ q # Nil /\ q.op = "start" /\ q.race = rpc[a].race
        /\ q.end = rpc[a].end
    BY <1>1, NilAssumption DEF Rpcs, StartRpcs
  <2>2. /\ rpc' \in [Admins -> Rpcs \cup {Nil}] /\ tick' \in Ticks
        /\ \A b \in Admins : Follows(rpc'[b], rpc[b])
    <3>1. Follows(q, rpc[a])
      BY <1>1, <2>1 DEF Follows
    <3> HIDE DEF q
    <3> QED
      BY <1>3, <2>1, <3>1, StepType DEF q
  <2>3. store # Nil /\ Normalize(store) \in Race /\ Normalize(store).id = store.id
    BY <1>3, NormalizeStore DEF Holds
  <2>4. /\ rpc[a].end \in Times /\ rpc[a].end # Nil
        /\ rpc[a].end + Duration <= MaxTime /\ rpc[a].end + Duration \in Times
    BY <1>1, NilAssumption, RaceAssumption DEF StartRpcs, WithinHorizon, Times
  <2>5. r \in Race /\ r.id = store.id /\ r.countdownEnd = rpc[a].end
    BY <2>3, <2>4 DEF CountdownFrom, Race, Phases
  <2>6. /\ store' \in Race /\ store' # Nil /\ store'.id = store.id
        /\ store'.countdownEnd = rpc[a].end
    <3> HIDE DEF r
    <3>1. store' = Normalize(r)
      BY <1>3 DEF r
    <3> QED
      BY <2>4, <2>5, <3>1, NormalizeType, NilAssumption DEF TypeOK
  <2>7. Quiet
    BY <2>2, <2>3, <2>6 DEF StartUpdate, Quiet, engine
  <2> QED
    BY <2>2, <2>4, <2>6, <2>7, QuietTypes DEF StartUpdate, engine, TypeOK
<1> QED
  BY <1>2, <1>3 DEF StartUpdate

\* The revision counted at the end.
LEMMA StartBumpQuiet ==
    ASSUME TypeOK, WithinHorizon, NEW a \in Admins, StartBump(a)
    PROVE  TypeOK' /\ WithinHorizon' /\ Quiet
<1>1. /\ rpc' \in [Admins -> Rpcs \cup {Nil}] /\ tick' \in Ticks
      /\ \A b \in Admins : Follows(rpc'[b], rpc[b])
  BY BumpAndType, DoneTypes DEF StartBump, Follows
<1>2. Quiet
  BY <1>1 DEF StartBump, Quiet, raceStore, engine
<1> QED
  BY <1>1, <1>2, QuietTypes DEF StartBump, raceStore, engine, TypeOK, WithinHorizon

\* abort_local_race, up to the store.
LEMMA AbortUpdateQuiet ==
    ASSUME TypeOK, WithinHorizon, NEW a \in Admins, AbortUpdate(a)
    PROVE  TypeOK' /\ WithinHorizon' /\ Quiet
<1>1. rpc[a] \in AbortRpcs /\ rpc[a] # Nil /\ rpc[a].op = "abort"
  BY AtType, RpcKinds DEF AbortUpdate
<1>2. CASE Done(a) /\ UNCHANGED store
  <2>1. Quiet
    BY <1>2, DoneTypes DEF AbortUpdate, Quiet, engine
  <2> QED
    BY <1>2, <2>1, DoneTypes, QuietTypes DEF AbortUpdate, engine, TypeOK, WithinHorizon
<1>3. CASE /\ Holds(rpc[a].race)
           /\ store' = [Normalize(store) EXCEPT !.phase = "Aborted"]
           /\ Step(a, [rpc[a] EXCEPT !.pc = "engine"])
  <2> DEFINE q == [rpc[a] EXCEPT !.pc = "engine"]
  <2>1. q \in Rpcs /\ q # Nil /\ q.op = "abort" /\ q.race = rpc[a].race
    BY <1>1, NilAssumption DEF Rpcs, AbortRpcs
  <2>2. /\ rpc' \in [Admins -> Rpcs \cup {Nil}] /\ tick' \in Ticks
        /\ \A b \in Admins : Follows(rpc'[b], rpc[b])
    <3>1. Follows(q, rpc[a])
      BY <1>1, <2>1 DEF Follows
    <3> HIDE DEF q
    <3> QED
      BY <1>3, <2>1, <3>1, StepType DEF q
  <2>3. /\ store # Nil /\ Normalize(store) \in Race /\ Normalize(store).id = store.id
        /\ Normalize(store).countdownEnd = store.countdownEnd
    BY <1>3, NormalizeStore DEF Holds
  <2>4. /\ store' \in Race /\ store' # Nil /\ store'.id = store.id
        /\ store'.countdownEnd = store.countdownEnd
    BY <1>3, <2>3, NilAssumption DEF Race, Phases
  <2>5. Quiet
    BY <2>2, <2>3, <2>4 DEF AbortUpdate, Quiet, engine
  <2> QED
    BY <2>2, <2>3, <2>4, <2>5, QuietTypes DEF AbortUpdate, engine, TypeOK, WithinHorizon
<1> QED
  BY <1>2, <1>3 DEF AbortUpdate

\* Whether the world goes with its vehicles or stays, requests only follow up.
Dropped ==
    /\ engineRace' = Nil /\ engineCars' = {} /\ driven' = {}
    /\ UNCHANGED <<raceStore, join, now>>
    /\ \A b \in Admins : Follows(rpc'[b], rpc[b])
    \* the world that goes is not one a create handler is still storing
    /\ \E a \in Admins : rpc[a] # Nil /\ rpc[a].op # "create" /\ engineRace = rpc[a].race

\* abort_local_race and close_local_race at the worker.
LEMMA EngineTypes ==
    ASSUME TypeOK, WithinHorizon, NEW a \in Admins, AbortEngine(a) \/ CloseEngine(a)
    PROVE  TypeOK' /\ WithinHorizon' /\ (Quiet \/ Dropped)
<1>1. /\ rpc[a] # Nil /\ rpc[a].op # "create" /\ rpc[a].op # "start"
      /\ rpc[a].race \in RaceIds
      /\ CloseEngine(a) => rpc[a] \in CloseRpcs
  BY AtType, RpcKinds DEF AbortEngine, CloseEngine
<1>2. PICK q \in Rpcs \cup {Nil} :
          /\ BumpAnd(a, q) \/ Done(a)
          /\ q # Nil => q.op = rpc[a].op /\ q.race = rpc[a].race
  <2>1. CASE AbortEngine(a)
    BY <2>1 DEF AbortEngine
  <2>2. CASE CloseEngine(a)
    <3> DEFINE q == [rpc[a] EXCEPT !.pc = "clear", !.fresh = FALSE]
    <3>1. q \in Rpcs /\ q.op = rpc[a].op /\ q.race = rpc[a].race
      BY <1>1, <2>2 DEF Rpcs, CloseRpcs
    <3>2. BumpAnd(a, q) \/ Done(a)
      BY <2>2 DEF CloseEngine
    <3> HIDE DEF q
    <3> QED
      BY <3>1, <3>2
  <2> QED
    BY <2>1, <2>2
<1>3. /\ rpc' \in [Admins -> Rpcs \cup {Nil}] /\ tick' \in Ticks
      /\ \A b \in Admins : Follows(rpc'[b], rpc[b])
  <2>1. Follows(q, rpc[a])
    BY <1>1, <1>2 DEF Follows
  <2> QED
    BY <1>2, <2>1, BumpAndType, DoneTypes
<1>4. UNCHANGED <<raceStore, join, now>>
  BY DEF AbortEngine, CloseEngine
<1>5. \/ UNCHANGED engine
      \/ DropWorld /\ engineRace = rpc[a].race
  BY DEF AbortEngine, CloseEngine
<1>6. CASE UNCHANGED engine
  <2>1. Quiet
    BY <1>3, <1>4, <1>6 DEF Quiet, raceStore, engine
  <2> QED
    BY <1>3, <1>4, <1>6, <2>1, QuietTypes DEF raceStore, engine, TypeOK, WithinHorizon
<1>7. CASE DropWorld /\ engineRace = rpc[a].race
  <2>1. Dropped
    BY <1>1, <1>3, <1>4, <1>7 DEF Dropped, DropWorld
  <2>2. WithinHorizon'
    BY <1>3, <1>4, FollowsHorizon DEF WithinHorizon, raceStore
  <2>3. TypeOK'
    BY <1>3, <1>4, <1>7 DEF TypeOK, DropWorld, raceStore, Ticks
  <2> QED
    BY <2>1, <2>2, <2>3
<1> QED
  BY <1>5, <1>6, <1>7

\* The store gives its race up.
Cleared ==
    /\ store' = Nil /\ ResetParticipants
    /\ UNCHANGED <<engine, join, now>>
    /\ \A b \in Admins : Follows(rpc'[b], rpc[b])

\* The store's participants after a reset.
LEMMA ResetTypes ==
    ASSUME ResetParticipants
    PROVE  /\ participants' \in [Cars -> 0..Cardinality(Cars)]
           /\ nextIndex' \in 1..(Cardinality(Cars) + 1)
           /\ freeze' \in BOOLEAN
<1>1. 0 \in 0..Cardinality(Cars) /\ 1 \in 1..(Cardinality(Cars) + 1)
  BY CarsCount
<1> QED
  BY <1>1 DEF ResetParticipants

\* close_local_race at the store.
LEMMA CloseClearTypes ==
    ASSUME TypeOK, WithinHorizon, NEW a \in Admins, CloseClear(a)
    PROVE  TypeOK' /\ WithinHorizon' /\ (Quiet \/ Cleared)
<1>1. /\ rpc' \in [Admins -> Rpcs \cup {Nil}] /\ tick' \in Ticks
      /\ \A b \in Admins : Follows(rpc'[b], rpc[b])
  BY DoneTypes DEF CloseClear
<1>2. CASE UNCHANGED raceStore
  <2>1. Quiet
    BY <1>1, <1>2 DEF CloseClear, Quiet, raceStore, engine
  <2> QED
    BY <1>1, <1>2, <2>1, QuietTypes DEF CloseClear, raceStore, engine, TypeOK, WithinHorizon
<1>3. CASE store' = Nil /\ ResetParticipants
  <2>1. Cleared
    BY <1>1, <1>3 DEF CloseClear, Cleared
  <2>2. WithinHorizon'
    BY <1>1, <1>3, FollowsHorizon DEF WithinHorizon
  <2>3. TypeOK'
    BY <1>1, <1>3, ResetTypes DEF CloseClear, TypeOK, engine, Ticks
  <2> QED
    BY <2>1, <2>2, <2>3
<1> QED
  BY <1>2, <1>3 DEF CloseClear

\* The worker makes the new race's world: it had none.
Made(a) ==
    /\ At(a, "create", "engine")
    /\ engineRace = Nil /\ engineRace' = rpc[a].race
    /\ rpc'[a] # Nil /\ rpc'[a].op = "create" /\ rpc'[a].race = rpc[a].race
    /\ rpc'[a].pc = "store"
    /\ \A b \in Admins \ {a} : Follows(rpc'[b], rpc[b])
    /\ UNCHANGED <<raceStore, engineCars, driven, join, now>>

\* create_local_race at the worker.
LEMMA CreateEngineTypes ==
    ASSUME TypeOK, WithinHorizon, NEW a \in Admins, CreateEngine(a)
    PROVE  TypeOK' /\ WithinHorizon' /\ (Quiet \/ Made(a))
<1>1. /\ rpc[a] \in CreateRpcs /\ rpc[a] # Nil /\ rpc[a].op = "create"
      /\ rpc[a].race \in RaceIds
  BY AtType, RpcKinds DEF CreateEngine
<1>2. CASE Done(a) /\ UNCHANGED engineRace
  <2>1. Quiet
    BY <1>2, DoneTypes DEF CreateEngine, Quiet, raceStore
  <2> QED
    BY <1>2, <2>1, DoneTypes, QuietTypes DEF CreateEngine, raceStore, TypeOK, WithinHorizon
<1>3. CASE /\ engineRace = Nil /\ engineRace' = rpc[a].race
           /\ BumpAnd(a, [rpc[a] EXCEPT !.pc = "store", !.fresh = FALSE])
  <2> DEFINE q == [rpc[a] EXCEPT !.pc = "store", !.fresh = FALSE]
  <2>1. /\ q \in Rpcs /\ q # Nil /\ q.op = "create" /\ q.race = rpc[a].race
        /\ q.pc = "store"
    BY <1>1, NilAssumption DEF Rpcs, CreateRpcs
  <2>2. /\ rpc' \in [Admins -> Rpcs \cup {Nil}] /\ tick' \in Ticks /\ rpc'[a] = q
        /\ \A b \in Admins \ {a} : Follows(rpc'[b], rpc[b])
    <3> HIDE DEF q
    <3> QED
      BY <1>3, <2>1, BumpAndType DEF q
  <2>3. Made(a)
    BY <1>3, <2>1, <2>2 DEF CreateEngine, Made
  <2>4. WithinHorizon'
    BY <2>1, <2>2, FollowsHorizon DEF CreateEngine, WithinHorizon, raceStore
  <2>5. TypeOK'
    BY <1>1, <1>3, <2>2 DEF CreateEngine, TypeOK, raceStore, Ticks
  <2> QED
    BY <2>3, <2>4, <2>5
<1> QED
  BY <1>2, <1>3 DEF CreateEngine

\* The store takes the new race, whatever it held.
LEMMA CreateStoreTypes ==
    ASSUME TypeOK, WithinHorizon, NEW a \in Admins, CreateStore(a)
    PROVE  /\ TypeOK' /\ WithinHorizon'
           /\ store' # Nil /\ store'.id = rpc[a].race /\ store'.phase = "Staging"
           /\ store'.countdownEnd = Nil /\ store'.plannedEnd = Nil
           /\ rpc'[a] = Nil /\ \A b \in Admins \ {a} : rpc'[b] = rpc[b]
<1>1. /\ rpc' \in [Admins -> Rpcs \cup {Nil}] /\ tick' \in Ticks /\ rpc'[a] = Nil
      /\ \A b \in Admins : Follows(rpc'[b], rpc[b])
      /\ \A b \in Admins \ {a} : rpc'[b] = rpc[b]
  BY DoneTypes DEF CreateStore
<1>2. /\ store' \in Race /\ store' # Nil /\ store'.id = rpc[a].race
      /\ store'.phase = "Staging" /\ store'.countdownEnd = Nil /\ store'.plannedEnd = Nil
  BY AtType, NilAssumption DEF CreateStore, Race, Phases
<1>3. WithinHorizon'
  BY <1>1, <1>2, FollowsHorizon DEF WithinHorizon
<1>4. TypeOK'
  BY <1>1, <1>2, ResetTypes DEF CreateStore, TypeOK, engine, Ticks
<1> QED
  BY <1>1, <1>2, <1>3, <1>4

\* The lifecycle task, other services and the clock are quiet.
LEMMA TickQuiet ==
    ASSUME TypeOK, WithinHorizon, Tick \/ OtherServiceBumps \/ AdvanceClock
    PROVE  TypeOK' /\ WithinHorizon' /\ Quiet
<1> USE DEF raceStore, engine
<1>1. ASSUME rpc' = rpc \/ rpc' = [a \in Admins |-> Stale(rpc[a])]
      PROVE  /\ rpc' \in [Admins -> Rpcs \cup {Nil}]
             /\ \A b \in Admins : Follows(rpc'[b], rpc[b])
  <2>1. CASE rpc' = rpc
    BY <2>1 DEF TypeOK, Follows
  <2> QED
    BY <1>1, <2>1, BumpType
<1>2. CASE TickReconcile
  <2>1. /\ store # Nil /\ store' \in Race /\ store' # Nil /\ store'.id = store.id
        /\ store'.countdownEnd = store.countdownEnd /\ store.id \in RaceIds
    BY <1>2, NormalizeStore DEF TickReconcile, TypeOK, Race
  <2>2. Quiet
    BY <1>1, <1>2, <2>1 DEF TickReconcile, Quiet
  <2>3. freeze' \in BOOLEAN
    BY <1>2 DEF TickReconcile, TypeOK
  <2>4. tick' \in Ticks
    BY <1>2, <2>1 DEF TickReconcile, TypeOK, Ticks
  <2> QED
    BY <1>1, <1>2, <2>1, <2>2, <2>3, <2>4, QuietTypes
       DEF TickReconcile, TypeOK, WithinHorizon
<1>3. CASE TickSteady \/ TickRead \/ TickBump \/ TickFreeze
  <2>1. Quiet
    BY <1>1, <1>3 DEF TickSteady, TickRead, TickBump, TickFreeze, Quiet
  <2>2. tick' \in Ticks
    <3>1. CASE TickSteady \/ TickRead \/ TickBump
      BY <3>1 DEF TickSteady, TickRead, TickBump, TypeOK, Ticks
    <3>2. CASE TickFreeze
      BY <3>2 DEF TickFreeze, FreezePending, Published, TypeOK, Ticks, Race
    <3> QED
      BY <1>3, <3>1, <3>2
  <2> QED
    BY <1>1, <1>3, <2>1, <2>2, QuietTypes
       DEF TickSteady, TickRead, TickBump, TickFreeze, TypeOK, WithinHorizon
<1>4. CASE TickMark \/ \E k \in Cars : TickApply(k)
  <2>1. Quiet
    BY <1>1, <1>4 DEF TickMark, TickApply, Quiet
  <2>2. tick' \in Ticks /\ driven' \subseteq driven
    <3>1. CASE TickMark
      BY <3>1 DEF TickMark, TypeOK, Ticks
    <3>2. ASSUME NEW k \in Cars, TickApply(k) PROVE tick' \in Ticks /\ driven' \subseteq driven
      <4>1. PICK ok \in BOOLEAN : tick' = [tick EXCEPT !.cars = @ \ {k}, !.ok = ok]
        BY <3>2 DEF TickApply, TypeOK
      <4> QED
        BY <3>2, <4>1 DEF TickApply, TypeOK, Ticks
    <3> QED
      BY <1>4, <3>1, <3>2
  <2>3. freeze' \in BOOLEAN
    BY <1>4 DEF TickMark, TickApply, TypeOK
  <2> QED
    BY <1>1, <1>4, <2>1, <2>2, <2>3, QuietTypes
       DEF TickMark, TickApply, TypeOK, WithinHorizon
<1>5. CASE OtherServiceBumps
  <2>1. Quiet
    BY <1>1, <1>5 DEF OtherServiceBumps, Bump, Quiet
  <2>2. tick' \in Ticks
    BY <1>5 DEF OtherServiceBumps, Bump, TypeOK, Ticks
  <2> QED
    BY <1>1, <1>5, <2>1, <2>2, QuietTypes DEF OtherServiceBumps, Bump, TypeOK, WithinHorizon
<1>6. CASE AdvanceClock
  <2>1. Quiet
    BY <1>1, <1>6 DEF AdvanceClock, Quiet
  <2>2. now' \in Times /\ tick' \in Ticks
    BY <1>6, RaceAssumption DEF AdvanceClock, Times, TypeOK, Ticks
  <2> QED
    BY <1>1, <1>6, <2>1, <2>2, QuietTypes DEF AdvanceClock, TypeOK, WithinHorizon
<1> QED
  BY <1>2, <1>3, <1>4, <1>5, <1>6 DEF Tick

-----------------------------------------------------------------------------
(* The steps that are not a bot's. *)

\* A quiet step keeps the invariant.
LEMMA QuietInv ==
    ASSUME Inv, TypeOK', WithinHorizon', Quiet
    PROVE  Inv'
<1>1. \A id : Holds(id)' <=> Holds(id)
  BY DEF Quiet, Holds
<1>2. CreatingIsFresh'
  BY <1>1 DEF Inv, CreatingIsFresh, Quiet, Follows
<1>3. BotsOK' /\ IndicesDistinct'
  BY <1>1 DEF Inv, BotsOK, JoinOK, IndexOK, IndicesDistinct, Quiet
<1>4. CountsOK'
  BY DEF Inv, CountsOK, Past, Registered, Quiet
<1> QED
  BY <1>2, <1>3, <1>4 DEF Inv

\* So does a request begun: for the race in the store, or for one nobody refers to.
LEMMA BeginInv ==
    ASSUME Inv, NEW a \in Admins, Begin(a)
    PROVE  Inv'
<1>1. /\ OnlyRequest(a)
      /\ rpc'[a] # Nil
      /\ \/ rpc'[a].op # "create" /\ Holds(rpc'[a].race)
         \/ /\ rpc'[a].op = "create" /\ rpc'[a].pc = "engine"
            /\ ~Referenced(rpc'[a].race)
  BY BeginTypes
<1>2. UNCHANGED <<store, participants, nextIndex, engineRace, engineCars, join>>
  BY <1>1 DEF OnlyRequest, raceStore, engine
<1>3. CreatingIsFresh'
  <2> SUFFICES ASSUME NEW b \in Admins, rpc'[b] # Nil, rpc'[b].op = "create"
               PROVE  /\ \A c \in Admins \ {b} : rpc'[c] # Nil => rpc'[c].race # rpc'[b].race
                      /\ ~Holds(rpc'[b].race)
                      /\ \A k \in Cars : join[k].race # rpc'[b].race
                      /\ rpc'[b].pc = "store" <=> engineRace = rpc'[b].race
    BY <1>2 DEF CreatingIsFresh, Holds
  <2>1. CASE b = a
    BY <1>1, <2>1 DEF OnlyRequest, Referenced
  <2>2. CASE b # a
    <3>1. rpc'[b] = rpc[b]
      BY <1>1, <2>2 DEF OnlyRequest
    <3>2. rpc'[a].race # rpc[b].race
      BY <1>1, <3>1 DEF Inv, CreatingIsFresh, Referenced
    <3> QED
      BY <1>1, <3>1, <3>2 DEF Inv, CreatingIsFresh, OnlyRequest
  <2> QED
    BY <2>1, <2>2
<1>4. BotsOK' /\ IndicesDistinct' /\ CountsOK'
  BY <1>2 DEF Inv, BotsOK, JoinOK, IndexOK, IndicesDistinct, CountsOK, Past, Registered, Holds
<1> QED
  BY <1>1, <1>3, <1>4 DEF Inv, OnlyRequest

\* The world goes: bots that still run find it gone, none is left in it.
LEMMA DroppedInv ==
    ASSUME Inv, TypeOK', WithinHorizon', Dropped
    PROVE  Inv'
<1>1. UNCHANGED <<store, participants, nextIndex, join>> /\ engineRace' = Nil
  BY DEF Dropped, raceStore
<1>2. CreatingIsFresh'
  <2>1. PICK a \in Admins : rpc[a] # Nil /\ rpc[a].op # "create" /\ engineRace = rpc[a].race
    BY DEF Dropped
  <2>2. ASSUME NEW b \in Admins, rpc'[b] # Nil, rpc'[b].op = "create"
        PROVE  /\ rpc[b] # Nil /\ rpc[b].op = "create" /\ rpc'[b].race = rpc[b].race
               /\ rpc'[b].pc # "store" /\ rpc'[b].race # Nil
    <3>1. /\ rpc[b] # Nil /\ rpc[b].op = "create" /\ rpc'[b].race = rpc[b].race
          /\ rpc'[b].pc = rpc[b].pc
      BY <2>2 DEF Dropped, Follows
    <3>2. engineRace # rpc[b].race
      BY <2>1, <3>1 DEF Inv, CreatingIsFresh
    <3>3. rpc[b].race \in RaceIds
      BY <3>1, RpcKinds DEF Inv, TypeOK
    <3> QED
      BY <3>1, <3>2, <3>3, RaceAssumption DEF Inv, CreatingIsFresh
  <2> QED
    BY <1>1, <2>2 DEF Inv, CreatingIsFresh, Dropped, Follows, Holds
<1>3. BotsOK' /\ IndicesDistinct'
  BY <1>1 DEF Inv, BotsOK, JoinOK, IndexOK, IndicesDistinct, Dropped, Holds
<1>4. CountsOK'
  BY <1>1, RaceAssumption DEF Inv, TypeOK, Race, CountsOK, Past
<1> QED
  BY <1>2, <1>3, <1>4 DEF Inv

\* The store gives its race up: no bot's entry is left.
LEMMA ClearedInv ==
    ASSUME Inv, TypeOK', WithinHorizon', Cleared
    PROVE  Inv'
<1>1. /\ UNCHANGED <<engineRace, engineCars, join>> /\ store' = Nil
      /\ participants' = [k \in Cars |-> 0] /\ nextIndex' = 1
  BY DEF Cleared, engine, ResetParticipants
<1>2. CreatingIsFresh'
  BY <1>1 DEF Inv, CreatingIsFresh, Cleared, Follows, Holds
<1>3. BotsOK' /\ IndicesDistinct'
  BY <1>1 DEF Inv, BotsOK, JoinOK, IndexOK, IndicesDistinct, Holds
<1>4. CountsOK'
  <2>1. Cardinality(Past') \in Nat
    BY RaceAssumption, FS_Subset, FS_CardinalityType DEF Past
  <2> QED
    BY <1>1, <2>1 DEF CountsOK
<1> QED
  BY <1>2, <1>3, <1>4 DEF Inv

\* A new world stands empty: no bot is in it, none has an index of its race.
LEMMA MadeInv ==
    ASSUME Inv, TypeOK', WithinHorizon', NEW a \in Admins, Made(a)
    PROVE  Inv'
<1>1. /\ UNCHANGED <<store, participants, nextIndex, engineCars, join>>
      /\ engineRace = Nil /\ engineRace' = rpc[a].race
  BY DEF Made, raceStore
<1>2. rpc[a] # Nil /\ rpc[a].op = "create" /\ rpc[a].race \in RaceIds
  BY AtType DEF Made, Inv
<1>3. /\ \A k \in Cars : join[k].race # rpc[a].race
      /\ ~Holds(rpc[a].race)
      /\ \A b \in Admins \ {a} : rpc[b] # Nil => rpc[b].race # rpc[a].race
  BY <1>2 DEF Inv, CreatingIsFresh
<1>4. engineCars = {}
  BY <1>1 DEF Inv, BotsOK, JoinOK, TypeOK
<1>5. CreatingIsFresh'
  <2>1. \A b \in Admins \ {a} : rpc'[b] # Nil /\ rpc'[b].op = "create"
                                   => /\ rpc[b] # Nil /\ rpc[b].op = "create"
                                      /\ rpc[b].race \in RaceIds
                                      /\ rpc'[b].pc # "store"
    BY <1>1, RpcKinds, RaceAssumption DEF Made, Follows, Inv, CreatingIsFresh, TypeOK
  <2> QED
    BY <1>1, <1>2, <1>3, <2>1 DEF Inv, CreatingIsFresh, Made, Follows, Holds
<1>6. BotsOK' /\ IndicesDistinct'
  BY <1>1, <1>3, <1>4 DEF Inv, BotsOK, JoinOK, IndexOK, IndicesDistinct, Holds
<1>7. CountsOK'
  BY <1>1, <1>3 DEF Inv, CountsOK, Past, Holds
<1> QED
  BY <1>5, <1>6, <1>7 DEF Inv

\* The store takes the race just made: it has no participant yet.
LEMMA CreateStoreInv ==
    ASSUME Inv, NEW a \in Admins, CreateStore(a)
    PROVE  Inv'
<1>1. /\ TypeOK' /\ WithinHorizon'
      /\ store' # Nil /\ store'.id = rpc[a].race
      /\ rpc'[a] = Nil /\ \A b \in Admins \ {a} : rpc'[b] = rpc[b]
  BY CreateStoreTypes DEF Inv
<1>2. /\ UNCHANGED <<engineRace, engineCars, join>>
      /\ participants' = [k \in Cars |-> 0] /\ nextIndex' = 1
  BY DEF CreateStore, engine, ResetParticipants
<1>3. rpc[a] # Nil /\ rpc[a].op = "create" /\ rpc[a].race \in RaceIds
  BY AtType DEF CreateStore, Inv
<1>4. /\ \A k \in Cars : join[k].race # rpc[a].race
      /\ \A b \in Admins \ {a} : rpc[b] # Nil => rpc[b].race # rpc[a].race
  BY <1>3 DEF Inv, CreatingIsFresh
<1>5. CreatingIsFresh'
  BY <1>1, <1>2, <1>4 DEF Inv, CreatingIsFresh, Holds
<1>6. BotsOK' /\ IndicesDistinct'
  BY <1>1, <1>2, <1>4 DEF Inv, BotsOK, JoinOK, IndexOK, IndicesDistinct, Holds
<1>7. CountsOK'
  <2>1. Cardinality(Past') \in Nat
    BY RaceAssumption, FS_Subset, FS_CardinalityType DEF Past
  <2>2. Registered' = {}
    BY <1>2 DEF Registered
  <2> QED
    BY <1>2, <2>1, <2>2, FS_EmptySet DEF CountsOK
<1> QED
  BY <1>1, <1>5, <1>6, <1>7 DEF Inv

\* Every step of an admin, of the task, of other services and of the clock.
LEMMA AdminInv ==
    ASSUME Inv, \/ \E a \in Admins : Begin(a) \/ Handle(a)
                \/ Tick \/ OtherServiceBumps \/ AdvanceClock
    PROVE  Inv'
<1>1. TypeOK /\ WithinHorizon
  BY DEF Inv
<1>2. ASSUME NEW a \in Admins, Handle(a) PROVE Inv'
  <2>1. CASE CreateEngine(a)
    BY <1>1, <2>1, CreateEngineTypes, QuietInv, MadeInv
  <2>2. CASE CreateStore(a)
    BY <2>2, CreateStoreInv
  <2>3. CASE StartCheck(a) \/ StartUpdate(a) \/ StartBump(a) \/ AbortUpdate(a)
    BY <1>1, <2>3, StartCheckQuiet, StartUpdateQuiet, StartBumpQuiet, AbortUpdateQuiet,
       QuietInv
  <2>4. CASE AbortEngine(a) \/ CloseEngine(a)
    BY <1>1, <2>4, EngineTypes, QuietInv, DroppedInv
  <2>5. CASE CloseClear(a)
    BY <1>1, <2>5, CloseClearTypes, QuietInv, ClearedInv
  <2> QED
    BY <1>2, <2>1, <2>2, <2>3, <2>4, <2>5 DEF Handle
<1> QED
  BY <1>1, <1>2, BeginInv, TickQuiet, QuietInv

-----------------------------------------------------------------------------
(* The steps of a bot. *)

Joins == [pc: JoinSteps, race: RaceIds \cup {Nil}, index: 0..Cardinality(Cars),
          slot: 0..StartSlots]

\* A bot's step concerns the bot alone: what is left to show is that its own state
\* is in order, and that indices still count participants.
LEMMA BotStep ==
    ASSUME Inv, NEW k \in Cars, NEW q \in Joins, join' = [join EXCEPT ![k] = q],
           UNCHANGED <<engineRace, rpc, tick, now, freeze>>,
           store' \in Race \cup {Nil}, store = Nil <=> store' = Nil,
           store # Nil => /\ store'.id = store.id
                          /\ store'.countdownEnd = store.countdownEnd,
           participants' \in [Cars -> 0..Cardinality(Cars)],
           nextIndex' \in 1..(Cardinality(Cars) + 1),
           engineCars' \subseteq Cars, driven' \subseteq engineCars',
           \A j \in Cars \ {k} : /\ participants'[j] = participants[j]
                                 /\ j \in engineCars' <=> j \in engineCars,
           nextIndex' >= nextIndex,
           q.race \in {join[k].race, Nil} \/ Holds(q.race),
           \/ q.index = 0
           \/ q.index = join[k].index /\ q.race = join[k].race
           \/ q.index = nextIndex /\ Holds(q.race),
           JoinOK(k)', IndexOK(k)', CountsOK'
    PROVE  Inv'
<1>1. /\ join' \in [Cars -> Joins] /\ join'[k] = q
      /\ \A j \in Cars \ {k} : join'[j] = join[j]
  BY DEF Inv, TypeOK, Joins
<1>2. \A id : Holds(id)' <=> Holds(id)
  BY DEF Holds
<1>3. TypeOK'
  BY <1>1 DEF Inv, TypeOK, Joins
<1>4. WithinHorizon'
  BY DEF Inv, WithinHorizon
<1>5. CreatingIsFresh'
  <2> SUFFICES ASSUME NEW a \in Admins, rpc[a] # Nil, rpc[a].op = "create"
               PROVE  \A j \in Cars : join'[j].race # rpc[a].race
    BY <1>2 DEF Inv, CreatingIsFresh
  <2>1. rpc[a].race \in RaceIds /\ rpc[a].race # Nil
    BY RpcKinds, RaceAssumption DEF Inv, TypeOK
  <2> QED
    BY <1>1, <2>1 DEF Inv, CreatingIsFresh
<1>6. \A j \in Cars \ {k} : JoinOK(j)' /\ IndexOK(j)'
  <2> SUFFICES ASSUME NEW j \in Cars \ {k} PROVE JoinOK(j)' /\ IndexOK(j)'
    OBVIOUS
  <2>1. JoinOK(j) /\ IndexOK(j) /\ join'[j] = join[j] /\ join[j] \in Joins
    BY <1>1 DEF Inv, BotsOK, TypeOK, Joins
  <2>2. JoinOK(j)'
    BY <1>2, <2>1 DEF JoinOK
  <2>3. IndexOK(j)'
    BY <1>2, <2>1 DEF IndexOK, Joins, Inv, TypeOK
  <2> QED
    BY <2>2, <2>3
<1>7. IndicesDistinct'
  <2>1. \A j \in Cars \ {k} : /\ join'[j].race = q.race /\ join'[j].index # 0 /\ q.index # 0
                              => join'[j].index # q.index
    <3> SUFFICES ASSUME NEW j \in Cars \ {k}, join[j].race = q.race, join[j].index # 0,
                        q.index # 0
                 PROVE  join[j].index # q.index
      BY <1>1
    <3>1. CASE q.index = join[k].index /\ q.race = join[k].race
      BY <3>1 DEF Inv, IndicesDistinct
    <3>2. CASE q.index = nextIndex /\ Holds(q.race)
      <4>1. join[j].index < nextIndex
        BY <3>2 DEF Inv, BotsOK, IndexOK
      <4> QED
        BY <3>2, <4>1 DEF Inv, TypeOK
    <3> QED
      BY <3>1, <3>2
  <2> QED
    BY <1>1, <2>1 DEF Inv, IndicesDistinct
<1> QED
  BY <1>3, <1>4, <1>5, <1>6, <1>7 DEF Inv, BotsOK

\* Counts survive a step that hands out no index and takes back no entry.
LEMMA CountsKept ==
    ASSUME Inv, NEW k \in Cars, NEW q \in Joins, join' = [join EXCEPT ![k] = q],
           UNCHANGED <<engineRace, participants, nextIndex>>,
           store = Nil <=> store' = Nil, store # Nil => store'.id = store.id,
           k \in Past => q.pc \notin {"new", "spawn", "register"}
    PROVE  CountsOK'
<1>1. Past \subseteq Past' /\ Past' \subseteq Cars
  BY DEF Inv, TypeOK, Past
<1>2. /\ Cardinality(Past) \in Nat /\ Cardinality(Past') \in Nat
      /\ Cardinality(Past) <= Cardinality(Past')
  <2>1. IsFiniteSet(Past')
    BY <1>1, RaceAssumption, FS_Subset
  <2> QED
    BY <1>1, <2>1, FS_Subset, FS_CardinalityType
<1>3. Registered' = Registered
  BY DEF Registered
<1> QED
  BY <1>2, <1>3 DEF Inv, TypeOK, CountsOK

\* Any step of a bot that changes neither store nor indices.
LEMMA PlainStep ==
    ASSUME Inv, NEW k \in Cars, NEW q \in Joins, join' = [join EXCEPT ![k] = q],
           UNCHANGED <<raceStore, engineRace, rpc, tick, now>>,
           engineCars' \subseteq Cars, driven' \subseteq engineCars',
           \A j \in Cars \ {k} : j \in engineCars' <=> j \in engineCars,
           q.race \in {join[k].race, Nil} \/ Holds(q.race),
           q.index = 0 \/ (q.index = join[k].index /\ q.race = join[k].race),
           k \in Past => q.pc \notin {"new", "spawn", "register"},
           q.slot # 0 => /\ q.index # 0
                         /\ q.slot = ((q.index - 1) % StartSlots) + 1,
           JoinOK(k)'
    PROVE  Inv'
<1>1. CountsOK'
  BY CountsKept DEF raceStore
<1>2. join'[k] = q /\ join[k] \in Joins
  BY DEF Inv, TypeOK, Joins
<1>3. IndexOK(k)'
  BY <1>2 DEF Inv, BotsOK, IndexOK, raceStore, Holds
<1>4. /\ UNCHANGED <<store, participants, nextIndex, freeze>>
      /\ store \in Race \cup {Nil} /\ participants \in [Cars -> 0..Cardinality(Cars)]
      /\ nextIndex \in 1..(Cardinality(Cars) + 1) /\ nextIndex >= nextIndex
  BY DEF Inv, TypeOK, raceStore
<1> QED
  BY <1>1, <1>3, <1>4, BotStep

\* A bot that leaves.
LEMMA GoneType == Gone \in Joins
BY RaceAssumption, CarsCount DEF Gone, Joins, JoinSteps

\* A bot that moves on.
LEMMA MoveType ==
    ASSUME TypeOK, NEW k \in Cars, NEW pc \in JoinSteps
    PROVE  /\ [join[k] EXCEPT !.pc = pc] \in Joins
           /\ [join EXCEPT ![k].pc = pc] = [join EXCEPT ![k] = [join[k] EXCEPT !.pc = pc]]
           /\ join[k] \in Joins
BY DEF TypeOK, Joins

\* Steps that move a bot on without touching store or world.
LEMMA MoveInv ==
    ASSUME Inv, NEW k \in Cars, NEW pc \in JoinSteps, Move(k, pc),
           UNCHANGED <<raceStore, engineRace, engineCars, rpc, tick, now>>,
           driven' \subseteq engineCars,
           \/ join[k].pc = "place" /\ pc = "publish"
           \/ join[k].pc = "place" /\ pc = "despawn" /\ ~InWorld(join[k].race, k)
           \/ join[k].pc \in {"publish", "joined", "checked"} /\ pc \in {"joined", "checked"}
           \/ join[k].pc = "checked" /\ pc = "leaving" /\ ~InWorld(join[k].race, k)
    PROVE  Inv'
<1> DEFINE q == [join[k] EXCEPT !.pc = pc]
<1>1. q \in Joins /\ join' = [join EXCEPT ![k] = q] /\ join[k] \in Joins
  BY MoveType DEF Inv, Move
<1>2. /\ q.pc = pc /\ q.race = join[k].race /\ q.index = join[k].index
      /\ q.slot = join[k].slot
  BY <1>1 DEF Joins
<1>3. join'[k] = q
  BY <1>1 DEF Inv, TypeOK
<1> HIDE DEF q
<1>4. JoinOK(k) /\ IndexOK(k)
  BY DEF Inv, BotsOK
<1>5. JoinOK(k)'
  BY <1>2, <1>3, <1>4 DEF JoinOK, InWorld, raceStore, Holds
<1>6. pc \notin {"new", "spawn", "register"}
  OBVIOUS
<1> QED
  BY <1>1, <1>2, <1>4, <1>5, <1>6, PlainStep DEF Inv, TypeOK, IndexOK

\* local_race_join reads the race from the store.
LEMMA BeginJoinInv ==
    ASSUME Inv, NEW k \in Cars, BeginJoin(k)
    PROVE  Inv'
<1> DEFINE q == [pc |-> "spawn", race |-> store.id, index |-> 0, slot |-> 0]
<1>1. /\ q \in Joins /\ q.pc = "spawn" /\ q.race = store.id /\ q.index = 0 /\ q.slot = 0
      /\ Holds(q.race) /\ q.race # Nil
  BY RaceAssumption, CarsCount DEF BeginJoin, Inv, TypeOK, Race, Joins, JoinSteps, Holds
<1>2. join' = [join EXCEPT ![k] = q] /\ join'[k] = q
  BY DEF BeginJoin, Inv, TypeOK
<1> HIDE DEF q
<1>3. JoinOK(k) /\ join[k].pc = "new"
  BY DEF BeginJoin, Inv, BotsOK
<1>4. JoinOK(k)'
  BY <1>1, <1>2, <1>3 DEF BeginJoin, JoinOK, raceStore, engine
<1>5. k \notin Past
  BY <1>3 DEF Past
<1> QED
  BY <1>1, <1>2, <1>4, <1>5, PlainStep DEF BeginJoin, Inv, TypeOK, engine

\* A bot leaves once it has no vehicle and, while its entry may stay, no index.
LEMMA LeaveInv ==
    ASSUME Inv, NEW k \in Cars, Leave(k), k \notin engineCars',
           UNCHANGED <<raceStore, engineRace, rpc, tick, now>>,
           engineCars' \subseteq Cars, driven' \subseteq engineCars',
           \A j \in Cars \ {k} : j \in engineCars' <=> j \in engineCars
    PROVE  Inv'
<1>1. /\ Gone \in Joins /\ join' = [join EXCEPT ![k] = Gone] /\ join'[k] = Gone
      /\ Gone.pc = "left" /\ Gone.race = Nil /\ Gone.index = 0 /\ Gone.slot = 0
  BY GoneType DEF Leave, Gone, Inv, TypeOK
<1>2. JoinOK(k)'
  BY <1>1 DEF JoinOK
<1> QED
  BY <1>1, <1>2, PlainStep

\* The vehicle enters the world of the race, if the worker still runs it.
LEMMA SpawnInv ==
    ASSUME Inv, NEW k \in Cars, JoinSpawn(k)
    PROVE  Inv'
<1>1. JoinOK(k) /\ join[k].pc = "spawn" /\ k \notin Past
  BY DEF JoinSpawn, Inv, BotsOK, Past
<1>2. CASE engineCars' = engineCars /\ Leave(k)
  BY <1>1, <1>2, LeaveInv DEF JoinSpawn, JoinOK, Inv, TypeOK
<1>3. CASE /\ engineRace = join[k].race
           /\ engineCars' = engineCars \cup {k} /\ Move(k, "register")
  <2> DEFINE q == [join[k] EXCEPT !.pc = "register"]
  <2>1. q \in Joins /\ join' = [join EXCEPT ![k] = q] /\ join[k] \in Joins
    BY <1>3, MoveType DEF Inv, Move, JoinSteps
  <2>2. /\ q.pc = "register" /\ q.race = join[k].race /\ q.index = join[k].index
        /\ q.slot = join[k].slot
    BY <2>1 DEF Joins
  <2>3. join'[k] = q
    BY <2>1 DEF Inv, TypeOK
  <2> HIDE DEF q
  <2>4. JoinOK(k)'
    BY <1>1, <1>3, <2>2, <2>3 DEF JoinSpawn, JoinOK, raceStore, Holds
  <2>5. IndexOK(k)
    BY DEF Inv, BotsOK
  <2> QED
    BY <1>1, <1>3, <2>1, <2>2, <2>4, <2>5, PlainStep DEF JoinSpawn, Inv, TypeOK, IndexOK
<1> QED
  BY <1>2, <1>3 DEF JoinSpawn

\* The slot is computed from the index, if the world still stands.
LEMMA SlotsInv ==
    ASSUME Inv, NEW k \in Cars, JoinSlots(k)
    PROVE  Inv'
<1>1. JoinOK(k) /\ join[k].pc = "slots" /\ join[k] \in Joins
  BY DEF JoinSlots, Inv, BotsOK, TypeOK, Joins
<1>2. CASE engineRace # join[k].race /\ Leave(k)
  BY <1>1, <1>2, LeaveInv DEF JoinSlots, JoinOK, Inv, TypeOK, engine
<1>3. CASE join' = [join EXCEPT ![k].pc = "place",
                                ![k].slot = ((join[k].index - 1) % StartSlots) + 1]
  <2> DEFINE s == ((join[k].index - 1) % StartSlots) + 1
             q == [join[k] EXCEPT !.pc = "place", !.slot = s]
  <2>1. join[k].index \in Nat \ {0}
    BY <1>1, CarsCount DEF JoinOK, Joins
  <2>2. s \in 0..StartSlots
    BY <2>1, SlotOfIndex, RaceAssumption
  <2>3. join' = [join EXCEPT ![k] = q] /\ join'[k] = q
    BY <1>3 DEF Inv, TypeOK
  <2> HIDE DEF s
  <2>4. /\ q \in Joins /\ q.pc = "place" /\ q.race = join[k].race
        /\ q.index = join[k].index /\ q.slot = s
    BY <1>1, <2>2 DEF Joins, JoinSteps
  <2> HIDE DEF q
  <2>5. JoinOK(k)'
    BY <1>1, <2>3, <2>4 DEF JoinSlots, JoinOK, raceStore, engine, Holds
  <2>6. q.slot # 0 => q.index # 0 /\ q.slot = ((q.index - 1) % StartSlots) + 1
    BY <2>1, <2>4 DEF s
  <2> QED
    BY <2>3, <2>4, <2>5, <2>6, PlainStep DEF JoinSlots, Inv, TypeOK, engine
<1> QED
  BY <1>2, <1>3 DEF JoinSlots

\* The vehicle is taken out of the world it is in.
LEMMA DespawnFacts ==
    ASSUME Inv, NEW k \in Cars, Despawn(k)
    PROVE  /\ k \notin engineCars' /\ engineCars' \subseteq Cars
           /\ driven' \subseteq engineCars' /\ engineRace' = engineRace
           /\ \A j \in Cars \ {k} : j \in engineCars' <=> j \in engineCars
BY DEF Inv, BotsOK, JoinOK, TypeOK, Despawn

\* A refused join takes its vehicle out; one that had an index goes on to give its
\* entry back.  A bot whose stream ends takes its vehicle out.
LEMMA DespawnInv ==
    ASSUME Inv, NEW k \in Cars, JoinDespawn(k) \/ Disconnect(k)
    PROVE  Inv'
<1>1. JoinOK(k) /\ IndexOK(k) /\ Despawn(k) /\ join[k] \in Joins
  BY DEF JoinDespawn, Disconnect, Inv, BotsOK, TypeOK, Joins
<1>2. /\ k \notin engineCars' /\ engineCars' \subseteq Cars
      /\ driven' \subseteq engineCars' /\ engineRace' = engineRace
      /\ \A j \in Cars \ {k} : j \in engineCars' <=> j \in engineCars
  BY <1>1, DespawnFacts
<1>3. UNCHANGED <<raceStore, engineRace, rpc, tick, now>>
  BY <1>2 DEF JoinDespawn, Disconnect
<1>4. CASE Leave(k)
  BY <1>2, <1>3, <1>4, LeaveInv
<1>5. ASSUME NEW pc \in {"unregister", "leaving"}, Move(k, pc),
             pc = "unregister" => join[k].pc = "despawn" /\ join[k].index # 0,
             join[k].pc \in {"despawn", "joined"}
      PROVE  Inv'
  <2> DEFINE q == [join[k] EXCEPT !.pc = pc]
  <2>1. q \in Joins /\ join' = [join EXCEPT ![k] = q]
    BY <1>5, MoveType DEF Inv, Move, JoinSteps
  <2>2. /\ q.pc = pc /\ q.race = join[k].race /\ q.index = join[k].index
        /\ q.slot = join[k].slot
    BY <1>1 DEF Joins
  <2>3. join'[k] = q
    BY <2>1 DEF Inv, TypeOK
  <2> HIDE DEF q
  <2>4. JoinOK(k)'
    BY <1>1, <1>2, <1>3, <1>5, <2>2, <2>3 DEF JoinOK, raceStore, Holds
  <2> QED
    BY <1>1, <1>2, <1>3, <1>5, <2>1, <2>2, <2>4, PlainStep DEF IndexOK
<1> QED
  BY <1>4, <1>5 DEF JoinDespawn, Disconnect

\* Registration under the store's lock: a refused join keeps no index, an accepted
\* one gets the next.
LEMMA RegisterInv ==
    ASSUME Inv, NEW k \in Cars, JoinRegister(k)
    PROVE  Inv'
<1>1. /\ JoinOK(k) /\ join[k].pc = "register" /\ join[k] \in Joins
      /\ join[k].index = 0 /\ participants[k] = 0 /\ IndexOK(k)
  BY DEF JoinRegister, Inv, BotsOK, TypeOK, Joins, JoinOK
<1>2. /\ store' \in Race \cup {Nil}
      /\ store = Nil <=> store' = Nil
      /\ store # Nil => store'.id = store.id /\ store'.countdownEnd = store.countdownEnd
  <2>1. CASE Holds(join[k].race)
    BY <2>1, NormalizeStore DEF JoinRegister, Inv, Holds
  <2> QED
    BY <2>1 DEF JoinRegister, Inv, TypeOK
<1>3. UNCHANGED <<engineRace, engineCars, driven, rpc, tick, now, freeze>>
  BY DEF JoinRegister, engine
<1>4. CASE Move(k, "despawn") /\ UNCHANGED <<participants, nextIndex>>
  <2> DEFINE q == [join[k] EXCEPT !.pc = "despawn"]
  <2>1. q \in Joins /\ join' = [join EXCEPT ![k] = q]
    BY <1>4, MoveType DEF Inv, Move, JoinSteps
  <2>2. /\ q.pc = "despawn" /\ q.race = join[k].race /\ q.index = 0
        /\ q.slot = join[k].slot
    BY <1>1 DEF Joins
  <2>3. join'[k] = q
    BY <2>1 DEF Inv, TypeOK
  <2> HIDE DEF q
  <2>4. JoinOK(k)' /\ IndexOK(k)'
    BY <1>1, <1>2, <1>3, <1>4, <2>2, <2>3 DEF JoinOK, IndexOK, Holds
  <2>5. CountsOK'
    BY <1>2, <1>3, <1>4, <2>1, <2>2, CountsKept
  <2>6. nextIndex >= nextIndex
    BY DEF Inv, TypeOK
  <2> QED
    BY <1>2, <1>3, <1>4, <2>1, <2>2, <2>4, <2>5, <2>6, BotStep DEF Inv, TypeOK
<1>5. CASE /\ CanRegister(join[k].race)
           /\ participants' = [participants EXCEPT ![k] = nextIndex]
           /\ nextIndex' = nextIndex + 1
           /\ join' = [join EXCEPT ![k].pc = "slots", ![k].index = nextIndex]
  <2> DEFINE q == [join[k] EXCEPT !.pc = "slots", !.index = nextIndex]
  <2>1. /\ Holds(join[k].race) /\ Cardinality(Registered) < MaxParticipants
        /\ join[k].race = store.id /\ store # Nil
    BY <1>5 DEF CanRegister, Holds
  <2>2. /\ IsFiniteSet(Past) /\ IsFiniteSet(Registered) /\ IsFiniteSet(Cars)
        /\ Cardinality(Past) \in Nat /\ Cardinality(Registered) \in Nat
    BY RaceAssumption, FS_Subset, FS_CardinalityType DEF Past, Registered
  <2>3. Past' = Past \cup {k} /\ k \notin Past /\ Past \cup {k} \subseteq Cars
    BY <1>1, <1>5 DEF Inv, TypeOK, Past
  <2>4. Registered' = Registered \cup {k} /\ k \notin Registered
    BY <1>1, <1>5 DEF Inv, TypeOK, Registered
  <2>5. /\ Cardinality(Past') = Cardinality(Past) + 1
        /\ Cardinality(Past') <= Cardinality(Cars)
        /\ Cardinality(Registered') = Cardinality(Registered) + 1
    <3>1. /\ Cardinality(Past \cup {k}) = Cardinality(Past) + 1
          /\ Cardinality(Registered \cup {k}) = Cardinality(Registered) + 1
      BY <2>2, <2>3, <2>4, FS_AddElement
    <3>2. Cardinality(Past \cup {k}) <= Cardinality(Cars)
      BY <2>2, <2>3, FS_Subset
    <3> QED
      BY <2>3, <2>4, <3>1, <3>2
  <2>6. /\ nextIndex \in Nat \ {0} /\ Cardinality(Cars) \in Nat
        /\ nextIndex <= Cardinality(Past) + 1
        /\ engineRace = store.id => nextIndex = Cardinality(Registered) + 1
    BY <2>1, CarsCount DEF Inv, TypeOK, CountsOK
  <2>7. nextIndex \in 0..Cardinality(Cars) /\ nextIndex' \in 1..(Cardinality(Cars) + 1)
    BY <1>5, <2>2, <2>5, <2>6
  <2>8. CountsOK'
    BY <1>2, <1>3, <1>5, <2>2, <2>5, <2>6 DEF CountsOK
  <2>9. /\ q \in Joins /\ q.pc = "slots" /\ q.race = join[k].race /\ q.index = nextIndex
        /\ q.slot = join[k].slot
    BY <1>1, <2>7 DEF Joins, JoinSteps
  <2>10. join' = [join EXCEPT ![k] = q] /\ join'[k] = q
    BY <1>5 DEF Inv, TypeOK
  <2>11. participants' \in [Cars -> 0..Cardinality(Cars)] /\ participants'[k] = nextIndex
    BY <1>5, <2>7 DEF Inv, TypeOK
  <2>12. \A j \in Cars \ {k} : participants'[j] = participants[j]
    BY <1>5 DEF Inv, TypeOK
  <2> HIDE DEF q
  <2>13. JoinOK(k)'
    BY <1>1, <1>2, <1>3, <2>1, <2>6, <2>9, <2>10 DEF JoinOK, Holds
  <2>14. IndexOK(k)'
    <3>1. join[k].slot = 0
      BY <1>1 DEF IndexOK
    <3>2. engineRace = join[k].race => nextIndex <= MaxParticipants
      BY <2>1, <2>2, <2>6, RaceAssumption
    <3> QED
      BY <1>3, <1>5, <2>6, <2>9, <2>10, <3>1, <3>2 DEF IndexOK
  <2>15. nextIndex' >= nextIndex
    BY <1>5, <2>6
  <2> QED
    BY <1>2, <1>3, <2>1, <2>7, <2>8, <2>9, <2>10, <2>11, <2>12, <2>13, <2>14, <2>15, BotStep
       DEF Inv, TypeOK
<1> QED
  BY <1>4, <1>5 DEF JoinRegister

\* An entry is given back only once the race's world is gone, when no index is
\* turned into a slot any more.
LEMMA UnregisterInv ==
    ASSUME Inv, NEW k \in Cars, JoinUnregister(k)
    PROVE  Inv'
<1>1. /\ JoinOK(k) /\ join[k].pc = "unregister" /\ engineRace # join[k].race
      /\ k \notin engineCars
  BY DEF JoinUnregister, Inv, BotsOK, JoinOK
<1>2. /\ Gone \in Joins /\ join' = [join EXCEPT ![k] = Gone] /\ join'[k] = Gone
      /\ Gone.pc = "left" /\ Gone.race = Nil /\ Gone.index = 0 /\ Gone.slot = 0
  BY GoneType DEF JoinUnregister, Leave, Gone, Inv, TypeOK
<1>3. UNCHANGED <<store, nextIndex, freeze, engineRace, engineCars, driven, rpc, tick, now>>
  BY DEF JoinUnregister, engine
<1>4. CASE participants[k] = 0
  <2>1. participants' = participants
    BY <1>4 DEF JoinUnregister, Inv, TypeOK
  <2> QED
    BY <1>1, <1>2, <1>3, <2>1, LeaveInv DEF Inv, TypeOK, raceStore, JoinUnregister
<1>5. CASE participants[k] # 0
  <2>1. Holds(join[k].race) /\ engineRace # store.id
    BY <1>1, <1>5 DEF JoinOK, Holds
  <2>2. CountsOK'
    <3>1. Past \subseteq Past' /\ Past' \subseteq Cars
      BY <1>2 DEF Inv, TypeOK, Past
    <3>2. /\ Cardinality(Past) \in Nat /\ Cardinality(Past') \in Nat
          /\ Cardinality(Past) <= Cardinality(Past')
      BY <3>1, RaceAssumption, FS_Subset, FS_CardinalityType
    <3> QED
      BY <1>3, <2>1, <3>2 DEF Inv, TypeOK, CountsOK
  <2>3. /\ participants' \in [Cars -> 0..Cardinality(Cars)]
        /\ \A j \in Cars \ {k} : participants'[j] = participants[j]
    BY CarsCount DEF JoinUnregister, Inv, TypeOK
  <2>4. JoinOK(k)' /\ IndexOK(k)'
    BY <1>1, <1>2, <1>3 DEF JoinOK, IndexOK
  <2>5. nextIndex >= nextIndex
    BY DEF Inv, TypeOK
  <2> QED
    BY <1>2, <1>3, <2>2, <2>3, <2>4, <2>5, BotStep DEF Inv, TypeOK
<1> QED
  BY <1>4, <1>5

\* Every step of a bot keeps the invariant.
LEMMA BotInv ==
    ASSUME Inv, NEW k \in Cars, Bot(k)
    PROVE  Inv'
<1>1. CASE JoinPlace(k) \/ JoinPublish(k) \/ DriveCheck(k) \/ DriveApply(k)
  <2>1. PICK pc \in JoinSteps :
            /\ Move(k, pc)
            /\ \/ join[k].pc = "place" /\ pc = "publish"
               \/ join[k].pc = "place" /\ pc = "despawn" /\ ~InWorld(join[k].race, k)
               \/ /\ join[k].pc \in {"publish", "joined", "checked"}
                  /\ pc \in {"joined", "checked"}
               \/ join[k].pc = "checked" /\ pc = "leaving" /\ ~InWorld(join[k].race, k)
    BY <1>1 DEF JoinPlace, JoinPublish, DriveCheck, DriveApply, JoinSteps
  <2>2. /\ UNCHANGED <<raceStore, engineRace, engineCars, rpc, tick, now>>
        /\ driven' \subseteq engineCars
    BY <1>1 DEF JoinPlace, JoinPublish, DriveCheck, DriveApply, InWorld, engine, Inv, TypeOK
  <2> QED
    BY <2>1, <2>2, MoveInv
<1>2. CASE RemoveCar(k)
  <2>1. k \notin engineCars
    BY <1>2 DEF RemoveCar, Inv, BotsOK, JoinOK
  <2> QED
    BY <1>2, <2>1, LeaveInv DEF RemoveCar, Inv, TypeOK, engine
<1> QED
  BY <1>1, <1>2, BeginJoinInv, SpawnInv, RegisterInv, SlotsInv, DespawnInv, UnregisterInv
     DEF Bot

\* No race, no bot.
LEMMA InitInv == Init => Inv
<1> SUFFICES ASSUME Init PROVE Inv
  OBVIOUS
<1>1. TypeOK
  <2>1. 0 \in 0..Cardinality(Cars) /\ 1 \in 1..(Cardinality(Cars) + 1)
    BY CarsCount
  <2>2. now \in Times /\ 0 \in 0..StartSlots
    BY RaceAssumption DEF Init, Times
  <2> QED
    BY <2>1, <2>2 DEF Init, TypeOK, JoinSteps
<1>2. WithinHorizon /\ CreatingIsFresh /\ BotsOK /\ IndicesDistinct
  BY DEF Init, WithinHorizon, CreatingIsFresh, BotsOK, JoinOK, IndexOK, IndicesDistinct
<1>3. CountsOK
  <2>1. Cardinality(Past) \in Nat
    BY RaceAssumption, FS_Subset, FS_CardinalityType DEF Past
  <2> QED
    BY <2>1 DEF Init, CountsOK
<1> QED
  BY <1>1, <1>2, <1>3 DEF Inv

\* Every step keeps the invariant.
LEMMA StepInv == Inv /\ [Next]_vars => Inv'
<1> SUFFICES ASSUME Inv, [Next]_vars PROVE Inv'
  OBVIOUS
<1>1. CASE UNCHANGED vars
  <2>1. Quiet
    BY <1>1 DEF vars, raceStore, engine, Quiet, Follows
  <2>2. TypeOK' /\ WithinHorizon'
    BY <1>1 DEF vars, raceStore, engine, Inv, TypeOK, WithinHorizon
  <2> QED
    BY <2>1, <2>2, QuietInv
<1> QED
  BY <1>1, AdminInv, BotInv DEF Next

-----------------------------------------------------------------------------
(* However many admins act at once. *)

\* The invariant holds at every moment, however many admins act at once.
THEOREM Invariance == Spec => []Inv
BY InitInv, StepInv, PTL DEF Spec

\* Distinct indices within the grid are distinct slots.
LEMMA InvSlots == Inv => GridSlotsDistinct
<1> SUFFICES ASSUME Inv, MaxParticipants <= StartSlots, NEW j \in Cars, NEW k \in Cars,
                    j # k, join[j].race = engineRace, join[k].race = engineRace,
                    join[j].slot # 0, join[k].slot # 0
             PROVE  join[j].slot # join[k].slot
  BY DEF GridSlotsDistinct
<1>1. ASSUME NEW c \in Cars, join[c].race = engineRace, join[c].slot # 0
      PROVE  join[c].index # 0 /\ join[c].slot = join[c].index
  <2>1. /\ join[c].index # 0 /\ join[c].index <= MaxParticipants
        /\ join[c].slot = ((join[c].index - 1) % StartSlots) + 1
    BY <1>1 DEF Inv, BotsOK, IndexOK
  <2>2. join[c].index \in Nat \ {0} /\ join[c].index <= StartSlots
    BY <2>1, CarsCount, RaceAssumption DEF Inv, TypeOK
  <2> QED
    BY <2>1, <2>2, SlotOfIndex
<1> QED
  BY <1>1 DEF Inv, IndicesDistinct

\* Two bots of a race never start on the same grid slot, and no vehicle stands in
\* the world without its bot, with any number of admins creating, starting,
\* aborting and closing races side by side (local_race_join, register_participant).
THEOREM GridAndVehicles == Spec => [](TypeOK /\ GridSlotsDistinct /\ NoOrphanVehicles)
<1>1. Inv => TypeOK /\ GridSlotsDistinct /\ NoOrphanVehicles
  <2>1. Inv => NoOrphanVehicles
    BY DEF Inv, BotsOK, JoinOK, NoOrphanVehicles, TypeOK
  <2> QED
    BY <2>1, InvSlots DEF Inv
<1> QED
  BY <1>1, Invariance, PTL

-----------------------------------------------------------------------------
(* With one admin at a time. *)

\* Normalising keeps times and phase in step, never goes back and leaves a race
\* that has not started alone.
LEMMA NormalizeFits ==
    ASSUME NEW r \in Race, now \in Times, Fits(r)
    PROVE  /\ Fits(Normalize(r))
           /\ Rank[Normalize(r).phase] >= Rank[r.phase]
           /\ r.phase = "Staging" <=> Normalize(r).phase = "Staging"
<1> USE NilAssumption, RaceAssumption DEF Race, Phases, Times
<1>1. CASE r.phase = "Countdown" /\ r.countdownEnd # Nil /\ now >= r.countdownEnd
  <2>1. Normalize(r) = [r EXCEPT !.phase = "Running",
                                 !.plannedEnd = r.countdownEnd + Duration]
    BY <1>1 DEF Normalize, Fits
  <2>2. /\ Normalize(r).phase = "Running"
        /\ Normalize(r).plannedEnd = r.countdownEnd + Duration
        /\ Normalize(r).countdownEnd = r.countdownEnd
    BY <2>1
  <2>3. Fits(Normalize(r))
    BY <1>1, <2>2 DEF Fits
  <2> QED
    BY <1>1, <2>2, <2>3 DEF Rank
<1>2. CASE r.phase = "Running" /\ r.plannedEnd # Nil /\ now >= r.plannedEnd
  <2>1. /\ Normalize(r).phase = "Finished" /\ Normalize(r).plannedEnd = r.plannedEnd
        /\ Normalize(r).countdownEnd = r.countdownEnd
    BY <1>2 DEF Normalize
  <2> QED
    BY <1>2, <2>1 DEF Fits, Rank
<1>3. CASE Normalize(r) = r
  BY <1>3 DEF Rank
<1> QED
  BY <1>1, <1>2, <1>3 DEF Normalize

\* What a step may make of the race in the store.
StoreAdvances ==
    \/ store' = store /\ now' >= now
    \/ store # Nil /\ store' = Normalize(store) /\ now' = now
    \/ store' = Nil

\* No request newly stands at a start's update.
NoNewStart ==
    \A a \in Admins : At(a, "start", "update")' => /\ At(a, "start", "update")
                                                   /\ rpc'[a].race = rpc[a].race

\* What an admin's step does, apart from the four that write a race.
LEMMA AdminClock ==
    ASSUME Inv, NEW a \in Admins, Begin(a) \/ Handle(a),
           ~CreateStore(a), ~StartCheck(a), ~StartUpdate(a), ~AbortUpdate(a)
    PROVE  StoreAdvances /\ NoNewStart
<1>1. TypeOK /\ WithinHorizon /\ now >= now
  BY DEF Inv, TypeOK, Times
<1>2. CASE Begin(a)
  <2>1. OnlyRequest(a) /\ (rpc'[a].op = "start" => rpc'[a].pc = "check")
    BY <1>2, BeginTypes
  <2> QED
    BY <1>1, <2>1 DEF OnlyRequest, raceStore, StoreAdvances, NoNewStart, At
<1>3. CASE CreateEngine(a) \/ AbortEngine(a) \/ CloseEngine(a) \/ StartBump(a) \/ CloseClear(a)
  <2>1. StoreAdvances
    BY <1>1, <1>3 DEF CreateEngine, AbortEngine, CloseEngine, StartBump, CloseClear,
                      raceStore, StoreAdvances
  <2>2. ASSUME NEW b \in Admins, At(b, "start", "update")'
        PROVE  At(b, "start", "update") /\ rpc'[b].race = rpc[b].race
    <3>1. PICK q \in Rpcs \cup {Nil} :
              /\ BumpAnd(a, q) \/ Done(a)
              /\ q = Nil \/ q.op # "start"
      <4>1. CASE CreateEngine(a)
        <5> DEFINE q == [rpc[a] EXCEPT !.pc = "store", !.fresh = FALSE]
        <5>1. rpc[a] \in CreateRpcs
          BY <1>1, <4>1, AtType, RpcKinds DEF CreateEngine
        <5>2. q \in Rpcs /\ q.op # "start"
          BY <5>1 DEF Rpcs, CreateRpcs
        <5>3. BumpAnd(a, q) \/ Done(a)
          BY <4>1 DEF CreateEngine
        <5> HIDE DEF q
        <5> QED
          BY <5>2, <5>3
      <4>2. CASE CloseEngine(a)
        <5> DEFINE q == [rpc[a] EXCEPT !.pc = "clear", !.fresh = FALSE]
        <5>1. rpc[a] \in CloseRpcs
          BY <1>1, <4>2, AtType, RpcKinds DEF CloseEngine
        <5>2. q \in Rpcs /\ q.op # "start"
          BY <5>1 DEF Rpcs, CloseRpcs
        <5>3. BumpAnd(a, q) \/ Done(a)
          BY <4>2 DEF CloseEngine
        <5> HIDE DEF q
        <5> QED
          BY <5>2, <5>3
      <4>3. CASE AbortEngine(a) \/ StartBump(a) \/ CloseClear(a)
        BY <4>3 DEF AbortEngine, StartBump, CloseClear
      <4> QED
        BY <1>3, <4>1, <4>2, <4>3
    <3>2. b # a
      BY <1>1, <2>2, <3>1, BumpAndType, DoneTypes DEF At
    <3>3. rpc'[b] = Stale(rpc[b]) \/ rpc'[b] = rpc[b]
      BY <1>1, <3>1, <3>2, BumpAndType, DoneTypes
    <3> QED
      BY <1>1, <2>2, <3>3, StaleType DEF At, TypeOK
  <2> QED
    BY <2>1, <2>2 DEF NoNewStart
<1> QED
  BY <1>2, <1>3 DEF Handle

\* What every other step does.
LEMMA OtherClock ==
    ASSUME Inv, \/ Tick \/ OtherServiceBumps \/ AdvanceClock
                \/ \E k \in Cars : Bot(k)
                \/ UNCHANGED vars
    PROVE  StoreAdvances /\ NoNewStart
<1>1. TypeOK /\ now \in Nat
  BY RaceAssumption DEF Inv, TypeOK, Times
<1>2. StoreAdvances
  <2>1. CASE UNCHANGED <<store, now>>
    BY <1>1, <2>1 DEF StoreAdvances
  <2>2. CASE TickReconcile
    BY <2>2 DEF TickReconcile, StoreAdvances
  <2>3. ASSUME NEW k \in Cars, JoinRegister(k) PROVE StoreAdvances
    BY <1>1, <2>3 DEF JoinRegister, Holds, StoreAdvances
  <2>4. CASE AdvanceClock
    BY <1>1, <2>4 DEF AdvanceClock, raceStore, StoreAdvances
  <2>5. \/ UNCHANGED <<store, now>> \/ TickReconcile \/ AdvanceClock
        \/ \E k \in Cars : JoinRegister(k)
    BY DEF Tick, TickSteady, TickRead, TickBump, TickFreeze, TickMark, TickApply,
       OtherServiceBumps, Bot, BeginJoin, JoinSpawn, JoinSlots, JoinPlace, JoinDespawn,
       JoinUnregister, JoinPublish, DriveCheck, DriveApply, Disconnect, RemoveCar,
       vars, raceStore
  <2> QED
    BY <2>1, <2>2, <2>3, <2>4, <2>5
<1>3. rpc' = rpc \/ rpc' = [a \in Admins |-> Stale(rpc[a])]
  BY DEF Tick, TickReconcile, TickSteady, TickRead, TickBump, TickFreeze, TickMark,
     TickApply, OtherServiceBumps, Bump, AdvanceClock, Bot, BeginJoin, JoinSpawn,
     JoinRegister, JoinSlots, JoinPlace, JoinDespawn, JoinUnregister, JoinPublish,
     DriveCheck, DriveApply, Disconnect, RemoveCar, vars
<1>4. NoNewStart
  <2>1. CASE rpc' = rpc
    BY <2>1 DEF NoNewStart, At
  <2>2. CASE rpc' = [a \in Admins |-> Stale(rpc[a])]
    BY <1>1, <2>2, StaleType DEF NoNewStart, At, TypeOK
  <2> QED
    BY <1>3, <2>1, <2>2
<1> QED
  BY <1>2, <1>4

\* The phase of a race never goes back in this step.
InOrder ==
    store # Nil /\ store' # Nil /\ store'.id = store.id
        => Rank[store'.phase] >= Rank[store.phase]

\* A step after which the store holds what it held, normalised or not, or nothing.
LEMMA AdvancesKeeps ==
    ASSUME ClockInv, TypeOK', StoreAdvances, NoNewStart
    PROVE  TimesFitPhase' /\ StartSeesStaging' /\ InOrder
<1>1. /\ store \in Race \cup {Nil} /\ store' \in Race \cup {Nil}
      /\ now \in Times /\ now' \in Times /\ (store # Nil => Fits(store))
  BY DEF ClockInv, Inv, TypeOK, TimesFitPhase
<1>2. store # Nil => /\ Fits(Normalize(store)) /\ Normalize(store).id = store.id
                     /\ Rank[Normalize(store).phase] >= Rank[store.phase]
                     /\ (store.phase = "Staging" => Normalize(store).phase = "Staging")
  BY <1>1, NormalizeFits, NormalizeStore DEF ClockInv, Inv
<1>3. CASE store' = store /\ now' >= now
  <2>1. TimesFitPhase'
    <3> SUFFICES ASSUME store # Nil PROVE Fits(store)'
      BY <1>3 DEF TimesFitPhase
    <3>1. store.phase = "Finished" => store.plannedEnd \in Nat
      BY <1>1, RaceAssumption, NilAssumption DEF Fits, Race, Times
    <3> QED
      BY <1>1, <1>3, <3>1, RaceAssumption DEF Fits, Times
  <2>2. StartSeesStaging'
    BY <1>3 DEF NoNewStart, ClockInv, StartSeesStaging, Holds
  <2>3. InOrder
    BY <1>1, <1>3 DEF InOrder, Rank, Race, Phases
  <2> QED
    BY <2>1, <2>2, <2>3
<1>4. CASE store # Nil /\ store' = Normalize(store) /\ now' = now
  <2>1. TimesFitPhase' /\ InOrder
    BY <1>2, <1>4 DEF TimesFitPhase, InOrder, Fits
  <2>2. StartSeesStaging'
    BY <1>2, <1>4 DEF NoNewStart, ClockInv, StartSeesStaging, Holds
  <2> QED
    BY <2>1, <2>2
<1>5. CASE store' = Nil
  BY <1>5 DEF TimesFitPhase, StartSeesStaging, InOrder, Holds
<1> QED
  BY <1>3, <1>4, <1>5 DEF StoreAdvances

\* The handlers' writes, when no other admin acts meanwhile: a countdown is set on
\* a race in staging, an abort comes last, a new race has its own id.
LEMMA WritesKeep ==
    ASSUME ClockInv, TypeOK', OneAdmin, NEW a \in Admins,
           CreateStore(a) \/ StartCheck(a) \/ StartUpdate(a) \/ AbortUpdate(a)
    PROVE  TimesFitPhase' /\ StartSeesStaging' /\ InOrder
<1>1. /\ Inv /\ TypeOK /\ WithinHorizon /\ store \in Race \cup {Nil} /\ now \in Times
      /\ (store # Nil => Fits(store))
  BY DEF ClockInv, Inv, TypeOK, TimesFitPhase
<1>2. Admins = {a}
  BY DEF OneAdmin
<1>3. CASE CreateStore(a)
  <2>1. /\ store' # Nil /\ store'.id = rpc[a].race /\ store'.phase = "Staging"
        /\ store'.countdownEnd = Nil /\ store'.plannedEnd = Nil /\ rpc'[a] = Nil
    BY <1>1, <1>3, CreateStoreTypes
  <2>2. rpc[a] # Nil /\ rpc[a].op = "create" /\ ~Holds(rpc[a].race)
    BY <1>1, <1>3 DEF CreateStore, At, Inv, CreatingIsFresh
  <2> QED
    BY <1>2, <2>1, <2>2 DEF TimesFitPhase, Fits, StartSeesStaging, At, InOrder, Holds
<1>4. CASE StartCheck(a)
  <2>1. UNCHANGED <<store, now>>
    BY <1>4 DEF StartCheck, raceStore
  <2>2. /\ TimesFitPhase' /\ InOrder
    BY <1>1, <2>1 DEF TimesFitPhase, Fits, InOrder, Rank, Race, Phases
  <2>3. CASE Done(a)
    BY <1>1, <1>2, <2>2, <2>3, DoneTypes DEF StartSeesStaging, At
  <2>4. CASE Holds(rpc[a].race) /\ Phase = "Staging"
    <3>1. store # Nil /\ store.phase = "Staging"
      BY <1>1, <2>4, NormalizeFits DEF Holds, Phase
    <3> QED
      BY <1>2, <2>1, <2>2, <3>1 DEF StartSeesStaging
  <2> QED
    BY <1>4, <2>3, <2>4 DEF StartCheck
<1>5. CASE StartUpdate(a)
  <2>1. At(a, "start", "update") /\ rpc[a] \in StartRpcs
    BY <1>1, <1>5, AtType, RpcKinds DEF StartUpdate
  <2>2. CASE Done(a) /\ UNCHANGED store
    <3>1. store' = store /\ now' >= now
      BY <1>1, <1>5, <2>2 DEF StartUpdate, Times
    <3>2. NoNewStart
      BY <1>1, <1>2, <2>2, DoneTypes DEF NoNewStart, At
    <3> QED
      BY <3>1, <3>2, AdvancesKeeps DEF StoreAdvances
  <2>3. CASE /\ Holds(rpc[a].race)
             /\ store' = Normalize(CountdownFrom(Normalize(store), rpc[a]))
             /\ Step(a, [rpc[a] EXCEPT !.pc = "bump"])
    <3> DEFINE r == CountdownFrom(Normalize(store), rpc[a])
    <3>1. /\ store # Nil /\ store.phase = "Staging" /\ Normalize(store) \in Race
          /\ Normalize(store).plannedEnd = Nil
      <4>1. store # Nil /\ store.phase = "Staging"
        BY <2>1, <2>3 DEF ClockInv, StartSeesStaging, Holds
      <4> QED
        BY <1>1, <4>1, NormalizeFits, NormalizeStore DEF Fits
    <3>2. /\ rpc[a].end \in Times /\ rpc[a].end # Nil
          /\ rpc[a].end + Duration \in Times /\ rpc[a].end + Duration <= MaxTime
      BY <1>1, <2>1, NilAssumption, RaceAssumption
         DEF StartRpcs, WithinHorizon, Times, At
    <3>3. /\ r \in Race /\ r.countdownEnd = rpc[a].end
          /\ \/ r.phase = "Running" /\ r.plannedEnd = rpc[a].end + Duration
             \/ r.phase = "Countdown" /\ r.plannedEnd = Nil
      BY <3>1, <3>2 DEF CountdownFrom, Race, Phases
    <3> HIDE DEF r
    <3>4. Fits(r)
      BY <3>2, <3>3 DEF Fits
    <3>5. store' = Normalize(r) /\ now' = now
      BY <1>5, <2>3 DEF StartUpdate, r
    <3>6. TimesFitPhase'
      BY <1>1, <3>3, <3>4, <3>5, NormalizeFits DEF TimesFitPhase, Fits
    <3>7. InOrder
      BY <3>1, NilAssumption DEF InOrder, Rank, Phases, TypeOK, Race
    <3>8. StartSeesStaging'
      <4> DEFINE q == [rpc[a] EXCEPT !.pc = "bump"]
      <4>1. q \in Rpcs /\ q.pc = "bump"
        BY <2>1 DEF Rpcs, StartRpcs
      <4>2. Step(a, q)
        BY <2>3
      <4> HIDE DEF q
      <4>3. rpc'[a] = q
        BY <1>1, <4>1, <4>2, StepType
      <4> QED
        BY <1>2, <4>1, <4>3 DEF StartSeesStaging, At
    <3> QED
      BY <3>6, <3>7, <3>8
  <2> QED
    BY <1>5, <2>2, <2>3 DEF StartUpdate
<1>6. CASE AbortUpdate(a)
  <2>1. At(a, "abort", "update") /\ rpc[a] \in AbortRpcs
    BY <1>1, <1>6, AtType, RpcKinds DEF AbortUpdate
  <2>2. CASE Done(a) /\ UNCHANGED store
    <3>1. store' = store /\ now' >= now
      BY <1>1, <1>6, <2>2 DEF AbortUpdate, Times
    <3>2. NoNewStart
      BY <1>1, <1>2, <2>2, DoneTypes DEF NoNewStart, At
    <3> QED
      BY <3>1, <3>2, AdvancesKeeps DEF StoreAdvances
  <2>3. CASE /\ Holds(rpc[a].race)
             /\ store' = [Normalize(store) EXCEPT !.phase = "Aborted"]
             /\ Step(a, [rpc[a] EXCEPT !.pc = "engine"])
    <3>1. store # Nil /\ Normalize(store) \in Race /\ store'.phase = "Aborted"
      BY <1>1, <2>3, NormalizeStore DEF Holds, Race
    <3>2. TimesFitPhase'
      BY <3>1 DEF TimesFitPhase, Fits
    <3>3. InOrder
      BY <1>1, <3>1 DEF InOrder, Rank, Phases, Race
    <3>4. StartSeesStaging'
      <4> DEFINE q == [rpc[a] EXCEPT !.pc = "engine"]
      <4>1. q \in Rpcs /\ q.pc = "engine"
        BY <2>1 DEF Rpcs, AbortRpcs
      <4>2. Step(a, q)
        BY <2>3
      <4> HIDE DEF q
      <4>3. rpc'[a] = q
        BY <1>1, <4>1, <4>2, StepType
      <4> QED
        BY <1>2, <4>1, <4>3 DEF StartSeesStaging, At
    <3> QED
      BY <3>2, <3>3, <3>4
  <2> QED
    BY <1>6, <2>2, <2>3 DEF AbortUpdate
<1> QED
  BY <1>3, <1>4, <1>5, <1>6

\* Every step keeps times and phases in step, and takes no race back.
LEMMA StepClock ==
    ASSUME OneAdmin, ClockInv, [Next]_vars
    PROVE  ClockInv' /\ InOrder
<1>1. Inv /\ Inv' /\ TypeOK'
  BY StepInv DEF ClockInv, Inv
<1>2. TimesFitPhase' /\ StartSeesStaging' /\ InOrder
  <2>1. ASSUME NEW a \in Admins, Begin(a) \/ Handle(a)
        PROVE  TimesFitPhase' /\ StartSeesStaging' /\ InOrder
    BY <1>1, <2>1, AdminClock, AdvancesKeeps, WritesKeep
  <2>2. CASE \/ Tick \/ OtherServiceBumps \/ AdvanceClock
             \/ \E k \in Cars : Bot(k)
             \/ UNCHANGED vars
    BY <1>1, <2>2, OtherClock, AdvancesKeeps
  <2> QED
    BY <2>1, <2>2 DEF Next
<1> QED
  BY <1>1, <1>2 DEF ClockInv

\* The store starts without a race.
LEMMA InitClock == Init => ClockInv
BY InitInv DEF Init, ClockInv, TimesFitPhase, StartSeesStaging, At

\* With one admin at a time a race is finished only after its whole duration, on
\* top of what holds for any number of them (normalize_race_phase_at, whoever
\* calls it and however late).
THEOREM RaceSound == ASSUME OneAdmin PROVE Spec => []RaceIsSound
<1>1. ClockInv /\ [Next]_vars => ClockInv'
  BY StepClock
<1>2. ClockInv => RaceIsSound
  <2> SUFFICES ASSUME ClockInv PROVE RaceIsSound
    OBVIOUS
  <2>1. TypeOK /\ GridSlotsDistinct /\ NoOrphanVehicles
    BY InvSlots DEF ClockInv, Inv, BotsOK, JoinOK, NoOrphanVehicles, TypeOK
  <2>2. RunsFullDuration
    BY DEF ClockInv, TimesFitPhase, Fits, RunsFullDuration
  <2> QED
    BY <2>1, <2>2 DEF RaceIsSound
<1> QED
  BY <1>1, <1>2, InitClock, PTL DEF Spec

\* With one admin at a time no race goes back to an earlier phase, although the
\* lifecycle task and every registration write the phase too.
THEOREM PhasesInOrder == ASSUME OneAdmin PROVE Spec => PhaseOrder
<1>1. ClockInv /\ [Next]_vars => ClockInv'
  BY StepClock
<1>2. ClockInv /\ [Next]_vars
         => [store # Nil /\ store' # Nil /\ store'.id = store.id
                => Rank[store'.phase] >= Rank[store.phase]]_vars
  BY StepClock DEF InOrder
<1> QED
  BY <1>1, <1>2, InitClock, PTL DEF Spec, PhaseOrder

=============================================================================
