--------------------------- MODULE PitStateProofs ---------------------------
(***************************************************************************)
(* Proofs about PitState, for every set of tyres, commands and clients and *)
(* every cooldown, lock, window and history length.                        *)
(***************************************************************************)
EXTENDS PitState, SequenceTheorems, TLAPS

Visits == [source: Sources, before: Tyres, after: Tyres]

\* HistoryChains, of any history.
Chained(h) == \A i \in 1..(Len(h) - 1) : h[i].before = h[i + 1].after

\* From the sample to the update of the pit state.
Sampling == {"plan", "apply", "mark", "update"}

\* The inductive strengthening of HistoryChains: where the tyres the last visit
\* ended on are to be found until the next visit is recorded.
HistoryInv ==
    /\ Chained(pit.history)
    /\ pit.wasInFix <=> pit.session # Nil
    /\ pit.session # Nil /\ pit.history # <<>>
          => pit.session.before = pit.history[1].after
    /\ pit.session = Nil /\ pit.history # <<>> /\ hub.pc \in Sampling
          => hub.seen.tyre = pit.history[1].after
    /\ pit.session = Nil /\ pit.history # <<>> /\ hub.pc \notin Sampling
          => vehicle.tyre = pit.history[1].after
    /\ hub.pc \in Sampling /\ hub.seen.place # "box" => vehicle.tyre = hub.seen.tyre
    /\ hub.pc \in {"apply", "mark"} => hub.seen.place = "box"

-----------------------------------------------------------------------------
(* The operations of the pit state. *)

\* Trimming keeps the newest visits and respects the bound.
LEMMA NewestType ==
    ASSUME NEW h \in Seq(Visits)
    PROVE  /\ Newest(h) \in Seq(Visits)
           /\ Len(Newest(h)) <= HistoryMax
           /\ Len(Newest(h)) <= Len(h)
           /\ \A i \in 1..Len(Newest(h)) : Newest(h)[i] = h[i]
<1>1. CASE Len(h) <= HistoryMax
  BY <1>1 DEF Newest
<1>2. CASE ~(Len(h) <= HistoryMax)
  <2>1. HistoryMax \in Nat /\ HistoryMax >= 1 /\ Len(h) \in Nat
    BY PitAssumption
  <2>2. \A i \in 1..HistoryMax : h[i] \in Visits
    BY <2>1, <1>2, ElementOfSeq
  <2>3. /\ SubSeq(h, 1, HistoryMax) \in Seq(Visits)
        /\ Len(SubSeq(h, 1, HistoryMax)) = HistoryMax
        /\ \A i \in 1..HistoryMax : SubSeq(h, 1, HistoryMax)[i] = h[i]
    <3>1. /\ SubSeq(h, 1, HistoryMax) \in Seq(Visits)
          /\ Len(SubSeq(h, 1, HistoryMax)) =
                IF 1 <= HistoryMax THEN HistoryMax - 1 + 1 ELSE 0
          /\ \A i \in 1..(HistoryMax - 1 + 1) : SubSeq(h, 1, HistoryMax)[i] = h[1 + i - 1]
      BY <2>1, <2>2, SubSeqProperties
    <3> QED
      BY <3>1, <2>1
  <2> QED
    BY <2>1, <2>3, <1>2 DEF Newest
<1> QED
  BY <1>1, <1>2

\* Recording a visit: the newest first, the order of the others kept.
LEMMA RecordVisit ==
    ASSUME NEW h \in Seq(Visits), NEW v \in Visits
    PROVE  LET n == Newest(<<v>> \o h) IN
           /\ n \in Seq(Visits)
           /\ Len(n) <= HistoryMax
           /\ n # <<>> => n[1] = v
           /\ Chained(h) /\ (h # <<>> => v.before = h[1].after) => Chained(n)
<1> DEFINE g == <<v>> \o h
           n == Newest(g)
<1>1. <<v>> \in Seq(Visits) /\ Len(<<v>>) = 1 /\ <<v>>[1] = v
  OBVIOUS
<1>2. /\ g \in Seq(Visits)
      /\ Len(g) = Len(h) + 1
      /\ g[1] = v
      /\ \A i \in 2..(Len(h) + 1) : g[i] = h[i - 1]
  <2>1. /\ g \in Seq(Visits)
        /\ Len(g) = 1 + Len(h)
        /\ \A i \in 1..(1 + Len(h)) : g[i] = IF i <= 1 THEN <<v>>[i] ELSE h[i - 1]
    BY <1>1, ConcatProperties
  <2>2. Len(h) \in Nat
    OBVIOUS
  <2> QED
    BY <2>1, <2>2, <1>1
<1>3. /\ n \in Seq(Visits) /\ Len(n) <= HistoryMax /\ Len(n) <= Len(g)
      /\ \A i \in 1..Len(n) : n[i] = g[i]
  BY <1>2, NewestType
<1>4. Len(n) \in Nat /\ Len(h) \in Nat
  BY <1>3
<1>5. n # <<>> => n[1] = v
  BY <1>2, <1>3, <1>4, EmptySeq
<1>6. ASSUME Chained(h), h # <<>> => v.before = h[1].after
      PROVE  Chained(n)
  <2> SUFFICES ASSUME NEW i \in 1..(Len(n) - 1)
               PROVE  n[i].before = n[i + 1].after
    BY DEF Chained
  <2>1. i \in 1..Len(n) /\ i + 1 \in 1..Len(n) /\ i <= Len(h) /\ h # <<>>
    BY <1>2, <1>3, <1>4
  <2>2. n[i] = g[i] /\ n[i + 1] = g[i + 1]
    BY <2>1, <1>3
  <2>3. i + 1 \in 2..(Len(h) + 1) /\ g[i + 1] = h[i]
    BY <2>1, <1>2, <1>4
  <2>4. CASE i = 1
    BY <2>4, <2>1, <2>2, <2>3, <1>2, <1>6
  <2>5. CASE i # 1
    <3>1. i \in 2..(Len(h) + 1) /\ g[i] = h[i - 1] /\ i - 1 \in 1..(Len(h) - 1)
      BY <2>5, <2>1, <1>2, <1>4
    <3>2. h[i - 1].before = h[i - 1 + 1].after
      BY <3>1, <1>6 DEF Chained
    <3>3. i - 1 + 1 = i
      BY <1>4
    <3> QED
      BY <3>1, <3>2, <3>3, <2>2, <2>3
  <2> QED
    BY <2>4, <2>5
<1> QED
  BY <1>3, <1>5, <1>6

\* The parts of a pit state the two arguments are about.
SameVisits(p, q) ==
    q.history = p.history /\ q.session = p.session /\ q.wasInFix = p.wasInFix

SameTyres(p, q) ==
    /\ q.mode = p.mode /\ q.botTyre = p.botTyre /\ q.nextTyre = p.nextTyre
    /\ q.lastTyre = p.lastTyre /\ q.revApplied = p.revApplied

\* WithdrawnChoiceYields, of any pit state.
Yields(p) ==
    p.mode = "Auto" => p.nextTyre = IF p.botTyre = Nil THEN "Unspecified" ELSE p.botTyre

\* A choice of the team moves the revision and leaves the visits alone.
LEMMA FrontendChooses ==
    ASSUME NEW p \in Pits, NEW t \in Choices
    PROVE  LET q == set_next_tire_from_frontend(p, t) IN
           /\ q \in Pits /\ SameVisits(p, q)
           /\ q.lastTyre = p.lastTyre /\ ~q.revApplied /\ Yields(q)
BY PitAssumption DEF set_next_tire_from_frontend, Pits, SameVisits, Yields, Choices

\* A choice of the bot moves the revision or changes no choice.
LEMMA BotChooses ==
    ASSUME NEW p \in Pits, NEW t \in Choices
    PROVE  LET q == set_next_tire_from_bot(p, t) IN
           /\ q \in Pits /\ SameVisits(p, q)
           /\ q.lastTyre = p.lastTyre
           /\ ~q.revApplied \/ (q.revApplied = p.revApplied /\ q.nextTyre = p.nextTyre)
           /\ Yields(q)
BY PitAssumption DEF set_next_tire_from_bot, Pits, SameVisits, Yields, Choices

\* Cooldowns, locks and windows touch neither tyres nor visits.
LEMMA TeleportMarks ==
    ASSUME NEW p \in Pits, NEW t \in Nat
    PROVE  /\ mark_back_to_track_applied(p, t) \in Pits
           /\ SameVisits(p, mark_back_to_track_applied(p, t))
           /\ SameTyres(p, mark_back_to_track_applied(p, t))
           /\ mark_emergency_pitstop_requested(p, t) \in Pits
           /\ SameVisits(p, mark_emergency_pitstop_requested(p, t))
           /\ SameTyres(p, mark_emergency_pitstop_requested(p, t))
<1>1. t + Cooldown \in Nat /\ t + LockTime \in Nat /\ t + IdleWindow \in Nat
  BY PitAssumption
<1>2. \A a, b \in Nat : Later(a, b) \in Nat
  BY DEF Later
<1> QED
  BY <1>1, <1>2 DEF mark_back_to_track_applied, mark_emergency_pitstop_requested,
                    Pits, SameVisits, SameTyres

\* Leaving the box forgets the tyres applied in it and nothing else.
LEMMA Forgets ==
    ASSUME NEW p \in Pits
    PROVE  LET q == ForgetApplied(p) IN
           /\ q \in Pits /\ SameVisits(p, q)
           /\ q.mode = p.mode /\ q.botTyre = p.botTyre /\ q.nextTyre = p.nextTyre
           /\ q.lastTyre = Nil /\ ~q.revApplied
BY DEF ForgetApplied, Pits, SameVisits

\* The update from a sample: what becomes of the tyres and of the visits.
LEMMA Updates ==
    ASSUME NEW p \in Pits, NEW seen \in Sample,
           Len(p.history) <= HistoryMax,
           Chained(p.history),
           p.wasInFix <=> p.session # Nil,
           p.session # Nil /\ p.history # <<>> => p.session.before = p.history[1].after,
           p.session = Nil /\ p.history # <<>> => seen.tyre = p.history[1].after
    PROVE  LET q == update_pit_state_from_runtime(p, seen) IN
           /\ q \in Pits
           /\ Len(q.history) <= HistoryMax
           /\ Chained(q.history)
           /\ q.wasInFix <=> q.session # Nil
           /\ q.session # Nil /\ q.history # <<>> => q.session.before = q.history[1].after
           /\ q.session = Nil /\ q.history # <<>>
                 => seen.tyre = q.history[1].after /\ ~InFix(seen.place)
           /\ q.mode = p.mode /\ q.botTyre = p.botTyre /\ q.nextTyre = p.nextTyre
           /\ \/ q.lastTyre = p.lastTyre /\ q.revApplied = p.revApplied
              \/ q.lastTyre = Nil /\ ~q.revApplied
<1> DEFINE o == OpenSession(p, seen)
           c == CloseSession(o, seen)
           w == [c EXCEPT !.wasInFix = InFix(seen.place)]
<1>1. /\ o \in Pits /\ SameTyres(p, o)
      /\ o.history = p.history /\ o.wasInFix = p.wasInFix
      /\ InFix(seen.place) => o.session # Nil
      /\ ~InFix(seen.place) => o.session = p.session
      /\ o.session # Nil /\ o.history # <<>> => o.session.before = o.history[1].after
  <2>1. CASE InFix(seen.place) /\ ~p.wasInFix
    <3>1. EntrySource(p) \in Sources
      BY DEF EntrySource, Sources
    <3>2. [source |-> EntrySource(p), before |-> seen.tyre] \in Sessions
      BY <3>1 DEF Sample, Sessions
    <3>3. [source |-> EntrySource(p), before |-> seen.tyre] # Nil
      BY <3>2, NilAssumption
    <3> QED
      BY <2>1, <3>2, <3>3 DEF OpenSession, Pits, SameTyres
  <2>2. CASE ~(InFix(seen.place) /\ ~p.wasInFix)
    BY <2>2 DEF OpenSession, SameTyres
  <2> QED
    BY <2>1, <2>2
<1>2. /\ c \in Pits /\ SameTyres(p, c)
      /\ Len(c.history) <= HistoryMax /\ Chained(c.history)
      /\ InFix(seen.place) <=> c.session # Nil
      /\ c.session # Nil /\ c.history # <<>> => c.session.before = c.history[1].after
      /\ c.session = Nil /\ c.history # <<>> => seen.tyre = c.history[1].after
  <2>1. CASE ~InFix(seen.place) /\ o.wasInFix /\ o.session # Nil
    <3> DEFINE v == [source |-> o.session.source, before |-> o.session.before,
                     after |-> seen.tyre]
               n == Newest(<<v>> \o o.history)
    <3>1. v \in Visits /\ v.before = o.session.before /\ v.after = seen.tyre
      BY <2>1, <1>1 DEF Pits, Sessions, Visits, Sample
    <3>2. o.history \in Seq(Visits)
      BY <1>1 DEF Pits, Visits
    <3>3. /\ n \in Seq(Visits) /\ Len(n) <= HistoryMax
          /\ n # <<>> => n[1] = v
          /\ Chained(n)
      <4>1. o.history # <<>> => v.before = o.history[1].after
        BY <3>1, <2>1, <1>1
      <4>2. Chained(o.history)
        BY <1>1
      <4> HIDE DEF v, n
      <4> QED
        BY <3>1, <3>2, <4>1, <4>2, RecordVisit DEF n
    <3>4. c = [o EXCEPT !.session = Nil, !.history = n]
      BY <2>1 DEF CloseSession
    <3> HIDE DEF o, c, n, v
    <3>5. c \in Pits /\ c.history = n /\ c.session = Nil /\ SameTyres(o, c)
      BY <3>3, <3>4, <1>1 DEF Pits, Visits, SameTyres
    <3> QED
      BY <3>1, <3>3, <3>5, <2>1, <1>1 DEF SameTyres
  <2>2. CASE ~(~InFix(seen.place) /\ o.wasInFix /\ o.session # Nil)
    <3>1. c = o
      BY <2>2 DEF CloseSession
    <3> HIDE DEF o, c
    <3> QED
      BY <3>1, <2>2, <1>1
  <2> QED
    BY <2>1, <2>2
<1>3. /\ w \in Pits /\ SameTyres(p, w)
      /\ w.history = c.history /\ w.session = c.session /\ w.wasInFix = InFix(seen.place)
  <2>1. ASSUME NEW b \in BOOLEAN
        PROVE  LET u == [c EXCEPT !.wasInFix = b] IN
               /\ u \in Pits /\ SameTyres(c, u)
               /\ u.history = c.history /\ u.session = c.session /\ u.wasInFix = b
    <3> HIDE DEF c
    <3> QED
      BY <1>2 DEF Pits, SameTyres
  <2>2. InFix(seen.place) \in BOOLEAN
    BY DEF InFix
  <2> HIDE DEF c
  <2> QED
    BY <2>1, <2>2, <1>2 DEF SameTyres
<1>4. CASE seen.place = "box"
  <2>1. update_pit_state_from_runtime(p, seen) = w
    BY <1>4 DEF update_pit_state_from_runtime
  <2> HIDE DEF w, c
  <2> QED
    BY <2>1, <1>2, <1>3 DEF SameTyres
<1>5. CASE seen.place # "box"
  <2>1. update_pit_state_from_runtime(p, seen) = ForgetApplied(w)
    BY <1>5 DEF update_pit_state_from_runtime
  <2> HIDE DEF w, c
  <2>2. LET q == ForgetApplied(w) IN
        /\ q \in Pits /\ SameVisits(w, q)
        /\ q.mode = w.mode /\ q.botTyre = w.botTyre /\ q.nextTyre = w.nextTyre
        /\ q.lastTyre = Nil /\ ~q.revApplied
    BY <1>3, Forgets
  <2> QED
    BY <2>1, <2>2, <1>2, <1>3 DEF SameTyres, SameVisits
<1> QED
  BY <1>4, <1>5

-----------------------------------------------------------------------------
(* The invariant. *)

Inv ==
    /\ TypeOK
    /\ TyreInv
    /\ Yields(pit)
    /\ HistoryInv

\* A new car satisfies it, and so does one forced on hard tyres.
LEMMA InitInv == Init => Inv
<1> SUFFICES ASSUME Init PROVE Inv
  OBVIOUS
<1>1. NewPit \in Pits /\ NewPit.history = <<>> /\ NewPit.session = Nil
      /\ ~NewPit.wasInFix /\ NewPit.lastTyre = Nil /\ ~NewPit.revApplied /\ Yields(NewPit)
  BY EmptySeq DEF NewPit, Pits, Choices, Yields
<1>2. pit \in Pits /\ pit.history = <<>> /\ pit.session = Nil
      /\ ~pit.wasInFix /\ pit.lastTyre = Nil /\ ~pit.revApplied /\ Yields(pit)
  <2>1. Hard \in Choices
    BY PitAssumption DEF Choices
  <2> QED
    BY <1>1, <2>1, FrontendChooses DEF Init, SameVisits
<1>3. TypeOK
  <2>1. vehicle \in [place: Places, tyre: Tyres, controls: {"bot", "idle", "hold"}]
    BY PitAssumption DEF Init, Places
  <2>2. hub \in Hubs /\ frame \in [time: Nat, place: Places] /\ now \in Nat
    BY DEF Init, Hubs, Places
  <2>3. cmd \in [Clients -> Cmds \cup {Nil}]
    BY DEF Init
  <2>4. Len(pit.history) <= HistoryMax
    BY <1>2, PitAssumption
  <2> QED
    BY <1>2, <2>1, <2>2, <2>3, <2>4 DEF TypeOK
<1>4. TyreInv
  BY <1>2 DEF Init, TyreInv
<1>5. HistoryInv
  BY <1>2 DEF Init, HistoryInv, Chained, Sampling
<1> QED
  BY <1>2, <1>3, <1>4, <1>5 DEF Inv

\* A step of another actor that leaves the vehicle's tyres, the collection and
\* the visits alone, and whose tyre choice moves the revision, keeps it.
LEMMA ByStander ==
    ASSUME Inv,
           pit' \in Pits, SameVisits(pit, pit'), pit'.lastTyre = pit.lastTyre,
           ~pit'.revApplied \/ (pit'.revApplied = pit.revApplied
                                /\ pit'.nextTyre = pit.nextTyre),
           Yields(pit'),
           vehicle' \in [place: Places, tyre: Tyres, controls: {"bot", "idle", "hold"}],
           vehicle'.tyre = vehicle.tyre,
           hub' = hub, frame' = frame, now' \in Nat,
           cmd' \in [Clients -> Cmds \cup {Nil}]
    PROVE  Inv'
<1>1. TypeOK'
  BY DEF Inv, TypeOK, SameVisits
<1>2. TyreInv'
  BY DEF Inv, TyreInv
<1>3. HistoryInv'
  BY DEF Inv, HistoryInv, SameVisits
<1>4. Yields(pit)'
  BY DEF Yields
<1> QED
  BY <1>1, <1>2, <1>3, <1>4 DEF Inv

\* The steps of the clients, the vehicle and the clock.
LEMMA OthersPreserve ==
    ASSUME Inv,
           \/ \E c \in Clients : Client(c)
           \/ RequestPitstop \/ Drive \/ AdvanceClock
    PROVE  Inv'
<1> DEFINE Vehicles == [place: Places, tyre: Tyres, controls: {"bot", "idle", "hold"}]
<1>1. /\ pit \in Pits /\ vehicle \in Vehicles /\ now \in Nat
      /\ cmd \in [Clients -> Cmds \cup {Nil}] /\ frame.time \in Nat /\ Yields(pit)
  BY DEF Inv, TypeOK
<1>2. SameVisits(pit, pit) /\ SameTyres(pit, pit)
  BY DEF SameVisits, SameTyres
<1>3. ASSUME NEW c \in Clients, NEW q \in Cmds \cup {Nil}
      PROVE  [cmd EXCEPT ![c] = q] \in [Clients -> Cmds \cup {Nil}]
  BY <1>1
<1>4. ASSUME NEW c \in Clients, BeginBackToTrack(c) \/ BeginEmergency(c)
      PROVE  Inv'
  <2>1. \E q \in Cmds : cmd' = [cmd EXCEPT ![c] = q]
    <3>1. \A op \in {"back", "emergency"} :
            [op |-> op, at |-> frame.time, pc |-> "move"] \in Cmds
      BY <1>1 DEF Cmds
    <3> QED
      BY <3>1, <1>4 DEF BeginBackToTrack, BeginEmergency
  <2>2. cmd' \in [Clients -> Cmds \cup {Nil}]
    BY <2>1, <1>3
  <2>3. UNCHANGED <<pit, vehicle, hub, frame, now>>
    BY <1>4 DEF BeginBackToTrack, BeginEmergency
  <2> QED
    BY <2>2, <2>3, <1>1, <1>2, ByStander
<1>5. ASSUME NEW c \in Clients, Teleport(c)
      PROVE  Inv'
  <2>1. cmd[c] \in Cmds /\ cmd[c].pc = "move"
    BY <1>1, <1>5 DEF Teleport, Moving
  <2>2. [cmd[c] EXCEPT !.pc = "mark"] \in Cmds
    BY <2>1 DEF Cmds
  <2>3. cmd' \in [Clients -> Cmds \cup {Nil}]
    BY <2>2, <1>3, <1>1, <1>5 DEF Teleport
  <2>4. vehicle' \in Vehicles /\ vehicle'.tyre = vehicle.tyre
    <3>1. PICK p \in Places : vehicle' = [vehicle EXCEPT !.place = p]
      BY <1>5 DEF Teleport, Places
    <3> QED
      BY <3>1, <1>1
  <2>5. UNCHANGED <<pit, hub, frame, now>>
    BY <1>5 DEF Teleport
  <2> QED
    BY <2>3, <2>4, <2>5, <1>1, <1>2, ByStander
<1>6. ASSUME NEW c \in Clients, TeleportRefused(c)
      PROVE  Inv'
  BY <1>6, <1>1, <1>2, <1>3, ByStander DEF TeleportRefused, Finish
<1>7. ASSUME NEW c \in Clients, MarkTeleport(c)
      PROVE  Inv'
  <2>1. cmd[c].at \in Nat
    BY <1>1, <1>7 DEF MarkTeleport, Cmds
  <2>2. pit' \in Pits /\ SameVisits(pit, pit') /\ SameTyres(pit, pit')
    BY <2>1, <1>1, <1>7, TeleportMarks DEF MarkTeleport
  <2>3. cmd' \in [Clients -> Cmds \cup {Nil}] /\ UNCHANGED <<vehicle, hub, frame, now>>
    BY <1>3, <1>7 DEF MarkTeleport, Finish
  <2>4. Yields(pit')
    BY <2>2, <1>1 DEF SameTyres, Yields
  <2>5. pit'.lastTyre = pit.lastTyre /\ pit'.revApplied = pit.revApplied
        /\ pit'.nextTyre = pit.nextTyre
    BY <2>2 DEF SameTyres
  <2> QED
    BY <2>2, <2>3, <2>4, <2>5, <1>1, ByStander
<1>8. ASSUME NEW c \in Clients, SetNextPitTireType(c)
      PROVE  Inv'
  <2>1. PICK t \in Choices : \/ pit' = set_next_tire_from_frontend(pit, t)
                            \/ pit' = set_next_tire_from_bot(pit, t)
    BY <1>8 DEF SetNextPitTireType
  <2>2. /\ pit' \in Pits /\ SameVisits(pit, pit') /\ pit'.lastTyre = pit.lastTyre
        /\ ~pit'.revApplied \/ (pit'.revApplied = pit.revApplied
                                 /\ pit'.nextTyre = pit.nextTyre)
        /\ Yields(pit')
    BY <2>1, <1>1, FrontendChooses, BotChooses
  <2>3. UNCHANGED <<vehicle, hub, frame, cmd, now>>
    BY <1>8 DEF SetNextPitTireType
  <2> QED
    BY <2>2, <2>3, <1>1, ByStander
<1>9. ASSUME NEW c \in Clients, ControlsCheck(c)
      PROVE  Inv'
  <2>1. \E q \in Cmds : cmd' = [cmd EXCEPT ![c] = q]
    <3>1. \A k \in {"bot", "hold"} :
            [op |-> "controls", at |-> frame.time, pc |-> "apply", controls |-> k] \in Cmds
      BY <1>1 DEF Cmds
    <3> QED
      BY <3>1, <1>9 DEF ControlsCheck
  <2>2. cmd' \in [Clients -> Cmds \cup {Nil}] /\ UNCHANGED <<pit, vehicle, hub, frame, now>>
    BY <2>1, <1>3, <1>9 DEF ControlsCheck
  <2> QED
    BY <2>2, <1>1, <1>2, ByStander
<1>10. ASSUME NEW c \in Clients, ControlsApply(c)
       PROVE  Inv'
  <2>1. cmd[c].controls \in {"bot", "hold"}
    BY <1>1, <1>10 DEF ControlsApply, Cmds
  <2>2. vehicle' \in Vehicles /\ vehicle'.tyre = vehicle.tyre
    BY <2>1, <1>1, <1>10 DEF ControlsApply
  <2>3. cmd' \in [Clients -> Cmds \cup {Nil}] /\ UNCHANGED <<pit, hub, frame, now>>
    BY <1>3, <1>10 DEF ControlsApply, Finish
  <2> QED
    BY <2>2, <2>3, <1>1, <1>2, ByStander
<1>11. CASE RequestPitstop
  <2>1. PICK active \in BOOLEAN : pit' = [pit EXCEPT !.request = active]
    BY <1>11 DEF RequestPitstop
  <2>2. pit' \in Pits /\ SameVisits(pit, pit') /\ SameTyres(pit, pit')
    BY <2>1, <1>1 DEF Pits, SameVisits, SameTyres
  <2>3. Yields(pit') /\ pit'.lastTyre = pit.lastTyre /\ pit'.revApplied = pit.revApplied
        /\ pit'.nextTyre = pit.nextTyre
    BY <2>2, <1>1 DEF SameTyres, Yields
  <2>4. UNCHANGED <<vehicle, hub, frame, cmd, now>>
    BY <1>11 DEF RequestPitstop
  <2> QED
    BY <2>2, <2>3, <2>4, <1>1, ByStander
<1>12. CASE Drive
  <2>1. PICK p \in Neighbours[vehicle.place] : vehicle' = [vehicle EXCEPT !.place = p]
    BY <1>12 DEF Drive
  <2>2. p \in Places
    BY <2>1, <1>1 DEF Neighbours, Places
  <2>3. vehicle' \in Vehicles /\ vehicle'.tyre = vehicle.tyre
    BY <2>1, <2>2, <1>1
  <2>4. UNCHANGED <<pit, hub, frame, cmd, now>>
    BY <1>12 DEF Drive
  <2> QED
    BY <2>3, <2>4, <1>1, <1>2, ByStander
<1>13. CASE AdvanceClock
  BY <1>13, <1>1, <1>2, ByStander DEF AdvanceClock
<1> QED
  BY <1>4, <1>5, <1>6, <1>7, <1>8, <1>9, <1>10, <1>11, <1>12, <1>13 DEF Client

\* The steps of the frame hub.
LEMMA HubPreserves ==
    ASSUME Inv, Hub
    PROVE  Inv'
<1> DEFINE Vehicles == [place: Places, tyre: Tyres, controls: {"bot", "idle", "hold"}]
<1>1. /\ pit \in Pits /\ vehicle \in Vehicles /\ hub \in Hubs /\ now \in Nat
      /\ frame \in [time: Nat, place: Places]
      /\ cmd \in [Clients -> Cmds \cup {Nil}]
      /\ Len(pit.history) <= HistoryMax /\ Yields(pit)
  BY DEF Inv, TypeOK
<1>2. CASE HubTick
  <2>1. hub' \in Hubs /\ hub.pc = "idle" /\ hub'.pc = "read"
        /\ UNCHANGED <<pit, vehicle, frame, cmd, now>>
    BY <1>1, <1>2 DEF HubTick, Hubs
  <2>2. TypeOK'
    BY <2>1, <1>1 DEF TypeOK
  <2>3. TyreInv' /\ HistoryInv'
    BY <2>1 DEF Inv, TyreInv, HistoryInv, Sampling
  <2> QED
    BY <2>1, <2>2, <2>3, <1>1 DEF Inv
<1>3. CASE HubRead
  <2>1. /\ hub' \in Hubs /\ hub.pc = "read" /\ hub'.pc = "plan"
        /\ hub'.seen.tyre = vehicle.tyre
        /\ UNCHANGED <<pit, vehicle, frame, cmd, now>>
    BY <1>1, <1>3 DEF HubRead, Hubs, Sample
  <2>2. TypeOK'
    BY <2>1, <1>1 DEF TypeOK
  <2>3. TyreInv' /\ HistoryInv'
    BY <2>1 DEF Inv, TyreInv, HistoryInv, Sampling
  <2> QED
    BY <2>1, <2>2, <2>3, <1>1 DEF Inv
<1>4. CASE HubPlan
  <2>1. hub.pc = "plan" /\ hub.seen \in Sample /\ hub.want = Nil
    BY <1>1, <1>4 DEF HubPlan, Hubs
  <2>2. CASE hub.seen.place # "box"
    <3>1. /\ pit' = ForgetApplied(pit) /\ hub' \in Hubs /\ hub'.pc = "update"
          /\ hub'.seen = hub.seen /\ UNCHANGED <<vehicle, frame, cmd, now>>
      BY <2>1, <2>2, <1>1, <1>4 DEF HubPlan, Hubs
    <3>2. /\ pit' \in Pits /\ SameVisits(pit, pit') /\ Yields(pit')
          /\ pit'.lastTyre = Nil /\ ~pit'.revApplied
      BY <3>1, <1>1, Forgets DEF Yields
    <3>3. TypeOK'
      BY <3>1, <3>2, <1>1 DEF TypeOK, SameVisits
    <3>4. TyreInv' /\ HistoryInv'
      BY <2>1, <3>1, <3>2 DEF Inv, TyreInv, HistoryInv, Sampling, SameVisits
    <3> QED
      BY <3>2, <3>3, <3>4 DEF Inv, Yields
  <2>3. CASE hub.seen.place = "box" /\ tyre_pending(pit, hub.seen.tyre)
    <3> DEFINE d == Desired(pit, hub.seen.tyre)
    <3>1. d \in Tyres /\ pit.nextTyre \in {"Unspecified", d}
      BY <2>1, <1>1 DEF Desired, Pits, Choices, Sample
    <3>2. hub' = [hub EXCEPT !.pc = "apply", !.want = d]
          /\ UNCHANGED <<pit, vehicle, frame, cmd, now>>
      BY <2>3, <1>4 DEF HubPlan
    <3> HIDE DEF d
    <3>3. hub' \in Hubs /\ hub'.pc = "apply" /\ hub'.seen = hub.seen /\ hub'.want = d
      BY <2>1, <3>1, <3>2, <1>1 DEF Hubs
    <3>4. TypeOK'
      BY <3>2, <3>3, <1>1 DEF TypeOK
    <3>5. TyreInv' /\ HistoryInv'
      BY <2>1, <2>3, <3>1, <3>2, <3>3 DEF Inv, TyreInv, HistoryInv, Sampling
    <3> QED
      BY <3>2, <3>4, <3>5, <1>1 DEF Inv
  <2>4. CASE hub.seen.place = "box" /\ ~tyre_pending(pit, hub.seen.tyre)
    <3>1. /\ hub' \in Hubs /\ hub'.pc = "update" /\ hub'.seen = hub.seen
          /\ UNCHANGED <<pit, vehicle, frame, cmd, now>>
      BY <2>1, <2>4, <1>1, <1>4 DEF HubPlan, Hubs
    <3>2. TypeOK'
      BY <3>1, <1>1 DEF TypeOK
    <3>3. TyreInv' /\ HistoryInv'
      BY <2>1, <2>4, <3>1 DEF Inv, TyreInv, HistoryInv, Sampling
    <3> QED
      BY <3>1, <3>2, <3>3, <1>1 DEF Inv
  <2> QED
    BY <2>2, <2>3, <2>4
<1>5. CASE HubApply
  <2>1. hub.pc = "apply" /\ hub.want \in Tyres /\ hub.seen \in Sample
    BY <1>1, <1>5 DEF HubApply, Hubs
  <2>2. CASE vehicle.place = "box"
    <3>1. /\ hub' \in Hubs /\ hub'.pc = "mark" /\ hub'.seen = hub.seen /\ hub'.want = hub.want
          /\ vehicle' \in Vehicles /\ vehicle'.tyre = hub.want
          /\ UNCHANGED <<pit, frame, cmd, now>>
      BY <2>1, <2>2, <1>1, <1>5 DEF HubApply, Hubs
    <3>2. TypeOK'
      BY <3>1, <1>1 DEF TypeOK
    <3>3. TyreInv' /\ HistoryInv'
      BY <2>1, <3>1 DEF Inv, TyreInv, HistoryInv, Sampling
    <3> QED
      BY <3>1, <3>2, <3>3, <1>1 DEF Inv
  <2>3. CASE vehicle.place # "box"
    <3>1. /\ hub' \in Hubs /\ hub'.pc = "update" /\ hub'.seen = hub.seen
          /\ UNCHANGED <<pit, vehicle, frame, cmd, now>>
      BY <2>1, <2>3, <1>1, <1>5 DEF HubApply, Hubs
    <3>2. TypeOK'
      BY <3>1, <1>1 DEF TypeOK
    <3>3. TyreInv' /\ HistoryInv'
      BY <2>1, <3>1 DEF Inv, TyreInv, HistoryInv, Sampling
    <3> QED
      BY <3>1, <3>2, <3>3, <1>1 DEF Inv
  <2> QED
    BY <2>2, <2>3
<1>6. CASE HubMark
  <2>1. hub.pc = "mark" /\ hub.want \in Tyres /\ hub.seen \in Sample
    BY <1>1, <1>6 DEF HubMark, Hubs
  <2>2. /\ hub' \in Hubs /\ hub'.pc = "update" /\ hub'.seen = hub.seen
        /\ UNCHANGED <<vehicle, frame, cmd, now>>
    BY <2>1, <1>1, <1>6 DEF HubMark, Hubs
  <2>3. /\ pit' \in Pits /\ SameVisits(pit, pit') /\ pit'.lastTyre = hub.want
        /\ pit'.mode = pit.mode /\ pit'.botTyre = pit.botTyre /\ pit'.nextTyre = pit.nextTyre
    BY <2>1, <1>1, <1>6 DEF HubMark, Pits, SameVisits
  <2>4. TypeOK'
    BY <2>2, <2>3, <1>1 DEF TypeOK, SameVisits
  <2>5. TyreInv' /\ HistoryInv'
    BY <2>1, <2>2, <2>3 DEF Inv, TyreInv, HistoryInv, Sampling, SameVisits
  <2>6. Yields(pit')
    BY <2>3, <1>1 DEF Yields
  <2> QED
    BY <2>4, <2>5, <2>6 DEF Inv, Yields
<1>7. CASE HubUpdate
  <2>1. hub.pc = "update" /\ hub.want = Nil /\ hub.seen \in Sample
    BY <1>1, <1>7 DEF HubUpdate, Hubs
  <2>2. /\ hub' \in Hubs /\ hub'.pc \in {"enforce", "publish"}
        /\ UNCHANGED <<vehicle, frame, cmd, now>>
    BY <2>1, <1>1, <1>7 DEF HubUpdate, Hubs
  <2>3. /\ Chained(pit.history)
        /\ pit.wasInFix <=> pit.session # Nil
        /\ pit.session # Nil /\ pit.history # <<>> => pit.session.before = pit.history[1].after
        /\ pit.session = Nil /\ pit.history # <<>> => hub.seen.tyre = pit.history[1].after
        /\ hub.seen.place # "box" => vehicle.tyre = hub.seen.tyre
    BY <2>1 DEF Inv, HistoryInv, Sampling
  <2>4. pit' = update_pit_state_from_runtime(pit, hub.seen)
    BY <1>7 DEF HubUpdate
  <2>5. /\ pit' \in Pits
        /\ Len(pit'.history) <= HistoryMax
        /\ Chained(pit'.history)
        /\ pit'.wasInFix <=> pit'.session # Nil
        /\ pit'.session # Nil /\ pit'.history # <<>>
              => pit'.session.before = pit'.history[1].after
        /\ pit'.session = Nil /\ pit'.history # <<>>
              => hub.seen.tyre = pit'.history[1].after /\ ~InFix(hub.seen.place)
        /\ pit'.mode = pit.mode /\ pit'.botTyre = pit.botTyre /\ pit'.nextTyre = pit.nextTyre
        /\ \/ pit'.lastTyre = pit.lastTyre /\ pit'.revApplied = pit.revApplied
           \/ pit'.lastTyre = Nil /\ ~pit'.revApplied
    BY <2>1, <2>3, <2>4, <1>1, Updates
  <2>6. TypeOK'
    BY <2>2, <2>5, <1>1 DEF TypeOK
  <2>7. TyreInv'
    BY <2>1, <2>2, <2>5 DEF Inv, TyreInv
  <2>8. HistoryInv'
    BY <2>1, <2>2, <2>3, <2>5 DEF HistoryInv, Sampling, InFix, Chained
  <2>9. Yields(pit')
    BY <2>5, <1>1 DEF Yields
  <2> QED
    BY <2>6, <2>7, <2>8, <2>9 DEF Inv, Yields
<1>8. CASE HubEnforce
  <2>1. hub.pc = "enforce" /\ hub.want \in {"idle", "hold"} /\ hub.seen \in Sample
    BY <1>1, <1>8 DEF HubEnforce, Hubs
  <2>2. /\ hub' \in Hubs /\ hub'.pc = "publish"
        /\ vehicle' \in Vehicles /\ vehicle'.tyre = vehicle.tyre
        /\ UNCHANGED <<pit, frame, cmd, now>>
    BY <2>1, <1>1, <1>8 DEF HubEnforce, Hubs
  <2>3. TypeOK'
    BY <2>2, <1>1 DEF TypeOK
  <2>4. TyreInv' /\ HistoryInv'
    BY <2>1, <2>2 DEF Inv, TyreInv, HistoryInv, Sampling
  <2> QED
    BY <2>2, <2>3, <2>4, <1>1 DEF Inv
<1>9. CASE HubPublish
  <2>1. hub.pc = "publish" /\ hub.want = Nil /\ hub.seen \in Sample /\ hub.time \in Nat
    BY <1>1, <1>9 DEF HubPublish, Hubs
  <2>2. /\ hub' \in Hubs /\ hub'.pc = "idle"
        /\ frame' \in [time: Nat, place: Places]
        /\ UNCHANGED <<pit, vehicle, cmd, now>>
    BY <2>1, <1>1, <1>9 DEF HubPublish, Hubs, Sample
  <2>3. TypeOK'
    BY <2>2, <1>1 DEF TypeOK
  <2>4. TyreInv' /\ HistoryInv'
    BY <2>1, <2>2 DEF Inv, TyreInv, HistoryInv, Sampling
  <2> QED
    BY <2>2, <2>3, <2>4, <1>1 DEF Inv
<1> QED
  BY <1>2, <1>3, <1>4, <1>5, <1>6, <1>7, <1>8, <1>9 DEF Hub

-----------------------------------------------------------------------------
\* Every reachable pit state satisfies the invariant: types and history bound,
\* the recorded tyres, the choice in force, and the chain of visits.
THEOREM PitInvariant == Spec => []Inv
<1>1. ASSUME Inv, [Next]_vars PROVE Inv'
  <2>1. CASE Hub
    BY <2>1, <1>1, HubPreserves
  <2>2. CASE (\E c \in Clients : Client(c)) \/ RequestPitstop \/ Drive \/ AdvanceClock
    BY <2>2, <1>1, OthersPreserve
  <2>3. CASE UNCHANGED vars
    BY <2>3, <1>1 DEF vars, Inv, TypeOK, TyreInv, Yields, HistoryInv
  <2> QED
    BY <1>1, <2>1, <2>2, <2>3 DEF Next
<1> QED
  BY <1>1, InitInv, PTL DEF Spec

\* The pit state stays well typed and its history within its bound.
THEOREM PitTypeCorrect == Spec => []TypeOK
<1>1. Inv => TypeOK
  BY DEF Inv
<1> QED
  BY <1>1, PitInvariant, PTL

\* No tyre choice is lost between the hub's plan, engine call and mark.
THEOREM TyreChoicesKept == Spec => []NoLostTyreChoice
<1>1. Inv => NoLostTyreChoice
  BY DEF Inv, TyreInv, NoLostTyreChoice, tyre_pending, Desired
<1> QED
  BY <1>1, PitInvariant, PTL

\* A withdrawn choice yields to the bot's latest wish.
THEOREM BotWishInForce == Spec => []WithdrawnChoiceYields
<1>1. Inv => WithdrawnChoiceYields
  BY DEF Inv, Yields, WithdrawnChoiceYields
<1> QED
  BY <1>1, PitInvariant, PTL

\* Consecutive visits in the pit history fit together.
THEOREM VisitsFitTogether == Spec => []HistoryChains
<1>1. Inv => HistoryChains
  BY DEF Inv, HistoryInv, Chained, HistoryChains
<1> QED
  BY <1>1, PitInvariant, PTL

-----------------------------------------------------------------------------
(* The cooldown of emergency pitstops.  The frame read before the engine call  *)
(* gives its start, so the spacing rests on nobody else marking in between.    *)

\* Only one source gives emergency commands, and not the exit monitor, which
\* skips the check.
SingleSource ==
    \A c, d \in Clients :
        <<c, "emergency">> \in Commands /\ <<d, "emergency">> \in Commands
            => c = d /\ c # "monitor"

\* What the check of a command in flight saw still holds when it is marked.
CooldownInv ==
    \A c \in Clients : cmd[c] # Nil /\ cmd[c].op = "emergency"
        => <<c, "emergency">> \in Commands /\ pit.emergencyUntil <= cmd[c].at

\* No other operation of the pit state touches the emergency cooldown.
LEMMA CooldownKept ==
    ASSUME NEW p \in Pits
    PROVE  /\ \A t \in Choices :
                 /\ set_next_tire_from_frontend(p, t).emergencyUntil = p.emergencyUntil
                 /\ set_next_tire_from_bot(p, t).emergencyUntil = p.emergencyUntil
           /\ \A t \in Nat : mark_back_to_track_applied(p, t).emergencyUntil = p.emergencyUntil
           /\ ForgetApplied(p).emergencyUntil = p.emergencyUntil
           /\ \A s \in Sample :
                 update_pit_state_from_runtime(p, s).emergencyUntil = p.emergencyUntil
<1>1. /\ \A t \in Choices :
            /\ set_next_tire_from_frontend(p, t).emergencyUntil = p.emergencyUntil
            /\ set_next_tire_from_bot(p, t).emergencyUntil = p.emergencyUntil
      /\ \A t \in Nat : mark_back_to_track_applied(p, t).emergencyUntil = p.emergencyUntil
      /\ ForgetApplied(p).emergencyUntil = p.emergencyUntil
  BY DEF Pits, set_next_tire_from_frontend, set_next_tire_from_bot,
         mark_back_to_track_applied, ForgetApplied
<1>2. ASSUME NEW s \in Sample
      PROVE  update_pit_state_from_runtime(p, s).emergencyUntil = p.emergencyUntil
  <2> DEFINE o == OpenSession(p, s)
             c == CloseSession(o, s)
             w == [c EXCEPT !.wasInFix = InFix(s.place)]
  <2>1. o.emergencyUntil = p.emergencyUntil /\ DOMAIN o = DOMAIN p
    BY DEF Pits, OpenSession
  <2>2. c.emergencyUntil = o.emergencyUntil /\ DOMAIN c = DOMAIN o
    <3> HIDE DEF o
    <3> QED
      BY <2>1 DEF Pits, CloseSession
  <2>3. w.emergencyUntil = c.emergencyUntil /\ DOMAIN w = DOMAIN c
    <3> HIDE DEF c
    <3> QED
      BY <2>1, <2>2 DEF Pits
  <2>4. ForgetApplied(w).emergencyUntil = w.emergencyUntil
    <3> HIDE DEF w
    <3> QED
      BY <2>1, <2>2, <2>3 DEF Pits, ForgetApplied
  <2>5. update_pit_state_from_runtime(p, s) \in {w, ForgetApplied(w)}
    BY DEF update_pit_state_from_runtime
  <2> HIDE DEF o, c, w
  <2> QED
    BY <2>1, <2>2, <2>3, <2>4, <2>5
<1> QED
  BY <1>1, <1>2

\* Marks start the cooldown no earlier than the one before has ended; no other
\* step moves it.
LEMMA CooldownStep ==
    ASSUME SingleSource, Inv, CooldownInv, [Next]_vars
    PROVE  /\ CooldownInv'
           /\ pit'.emergencyUntil # pit.emergencyUntil
                 => pit'.emergencyUntil >= pit.emergencyUntil + Cooldown
<1>1. /\ pit \in Pits /\ hub \in Hubs /\ frame.time \in Nat /\ pit.emergencyUntil \in Nat
      /\ cmd \in [Clients -> Cmds \cup {Nil}] /\ Cooldown \in Nat
  BY PitAssumption DEF Inv, TypeOK, Pits
<1>2. ASSUME pit'.emergencyUntil = pit.emergencyUntil,
             \A c \in Clients : cmd'[c] # Nil /\ cmd'[c].op = "emergency" =>
                \/ cmd[c] # Nil /\ cmd[c].op = "emergency" /\ cmd'[c].at = cmd[c].at
                \/ <<c, "emergency">> \in Commands /\ pit.emergencyUntil <= cmd'[c].at
      PROVE  CooldownInv' /\ pit'.emergencyUntil = pit.emergencyUntil
  BY <1>2 DEF CooldownInv
<1>3. CASE Hub
  <2>1. cmd' = cmd
    BY <1>3 DEF Hub, HubTick, HubRead, HubPlan, HubApply, HubMark, HubUpdate, HubEnforce,
                HubPublish
  <2>2. pit'.emergencyUntil = pit.emergencyUntil
    <3>1. CASE HubPlan
      BY <3>1, <1>1, CooldownKept DEF HubPlan
    <3>2. CASE HubMark
      BY <3>2, <1>1 DEF HubMark, Pits
    <3>3. CASE HubUpdate
      <4>1. hub.seen \in Sample
        BY <3>3, <1>1 DEF HubUpdate, Hubs
      <4> QED
        BY <3>3, <4>1, <1>1, CooldownKept DEF HubUpdate
    <3>4. CASE HubTick \/ HubRead \/ HubApply \/ HubEnforce \/ HubPublish
      BY <3>4 DEF HubTick, HubRead, HubApply, HubEnforce, HubPublish
    <3> QED
      BY <1>3, <3>1, <3>2, <3>3, <3>4 DEF Hub
  <2> QED
    BY <2>1, <2>2, <1>2
<1>4. ASSUME NEW c \in Clients, BeginBackToTrack(c) \/ BeginEmergency(c) \/ ControlsCheck(c)
      PROVE  CooldownInv' /\ pit'.emergencyUntil = pit.emergencyUntil
  <2>1. CASE BeginEmergency(c)
    <3>1. c # "monitor" /\ <<c, "emergency">> \in Commands
      BY <2>1 DEF BeginEmergency, SingleSource
    <3>2. /\ pit' = pit /\ pit.emergencyUntil <= frame.time
          /\ cmd' = [cmd EXCEPT ![c] = [op |-> "emergency", at |-> frame.time, pc |-> "move"]]
      BY <2>1, <3>1 DEF BeginEmergency
    <3> QED
      BY <3>1, <3>2, <1>1, <1>2
  <2>2. CASE BeginBackToTrack(c)
    BY <2>2, <1>1, <1>2 DEF BeginBackToTrack
  <2>3. CASE ControlsCheck(c)
    BY <2>3, <1>1, <1>2 DEF ControlsCheck
  <2> QED
    BY <1>4, <2>1, <2>2, <2>3
<1>5. ASSUME NEW c \in Clients, Teleport(c)
      PROVE  CooldownInv' /\ pit'.emergencyUntil = pit.emergencyUntil
  <2>1. cmd[c] \in Cmds /\ cmd[c].pc = "move" /\ pit' = pit
    BY <1>1, <1>5 DEF Teleport, Moving
  <2>2. cmd' = [cmd EXCEPT ![c] = [cmd[c] EXCEPT !.pc = "mark"]]
    BY <1>1, <1>5 DEF Teleport
  <2>3. /\ [cmd[c] EXCEPT !.pc = "mark"].op = cmd[c].op
        /\ [cmd[c] EXCEPT !.pc = "mark"].at = cmd[c].at
        /\ cmd[c] # Nil
    BY <2>1, <1>5 DEF Cmds, Teleport, Moving
  <2> QED
    BY <2>1, <2>2, <2>3, <1>1, <1>2
<1>6. ASSUME NEW c \in Clients, TeleportRefused(c) \/ ControlsApply(c)
      PROVE  CooldownInv' /\ pit'.emergencyUntil = pit.emergencyUntil
  BY <1>6, <1>1, <1>2 DEF TeleportRefused, ControlsApply, Finish
<1>7. ASSUME NEW c \in Clients, MarkTeleport(c)
      PROVE  /\ CooldownInv'
             /\ pit'.emergencyUntil # pit.emergencyUntil
                   => pit'.emergencyUntil >= pit.emergencyUntil + Cooldown
  <2>1. cmd[c] # Nil /\ cmd[c].op \in {"back", "emergency"} /\ cmd[c].at \in Nat
        /\ cmd' = [cmd EXCEPT ![c] = Nil]
    BY <1>1, <1>7 DEF MarkTeleport, Finish, Cmds
  <2>2. CASE cmd[c].op = "back"
    <3>1. pit'.emergencyUntil = pit.emergencyUntil
      BY <2>1, <2>2, <1>1, <1>7, CooldownKept DEF MarkTeleport
    <3> QED
      BY <3>1, <2>1, <1>1, <1>2
  <2>3. CASE cmd[c].op = "emergency"
    <3>1. /\ <<c, "emergency">> \in Commands
          /\ pit.emergencyUntil <= cmd[c].at
      BY <2>1, <2>3 DEF CooldownInv
    <3>2. pit'.emergencyUntil = Later(pit.emergencyUntil, cmd[c].at + Cooldown)
      BY <2>3, <1>1, <1>7 DEF MarkTeleport, mark_emergency_pitstop_requested, Pits
    <3>3. pit'.emergencyUntil >= pit.emergencyUntil + Cooldown
      BY <2>1, <3>1, <3>2, <1>1 DEF Later
    <3>4. \A d \in Clients : cmd'[d] # Nil => cmd'[d].op # "emergency"
      BY <2>1, <3>1, <1>1 DEF CooldownInv, SingleSource
    <3> QED
      BY <3>3, <3>4 DEF CooldownInv
  <2> QED
    BY <2>1, <2>2, <2>3
<1>8. ASSUME NEW c \in Clients, SetNextPitTireType(c)
      PROVE  CooldownInv' /\ pit'.emergencyUntil = pit.emergencyUntil
  <2>1. pit'.emergencyUntil = pit.emergencyUntil /\ cmd' = cmd
    BY <1>8, <1>1, CooldownKept DEF SetNextPitTireType
  <2> QED
    BY <2>1, <1>2
<1>9. CASE RequestPitstop \/ Drive \/ AdvanceClock \/ UNCHANGED vars
  <2>1. pit'.emergencyUntil = pit.emergencyUntil /\ cmd' = cmd
    BY <1>9, <1>1 DEF RequestPitstop, Drive, AdvanceClock, vars, Pits
  <2> QED
    BY <2>1, <1>2
<1> QED
  BY <1>3, <1>4, <1>5, <1>6, <1>7, <1>8, <1>9 DEF Next, Client

\* With a single source of emergency commands, accepted emergency pitstops are at
\* least the cooldown apart, although the cooldown is checked before the awaited
\* engine call and starts at the time of the frame read before it.
THEOREM EmergenciesSpaced == ASSUME SingleSource PROVE Spec => CooldownSpacing
<1>1. Init => CooldownInv
  BY DEF Init, CooldownInv
<1>2. Inv /\ CooldownInv /\ [Next]_vars => CooldownInv'
  BY CooldownStep
<1>3. Inv /\ CooldownInv /\ [Next]_vars
         => [pit.emergencyUntil # 0 /\ pit'.emergencyUntil # pit.emergencyUntil
                => pit'.emergencyUntil >= pit.emergencyUntil + Cooldown]_vars
  BY CooldownStep
<1> QED
  BY <1>1, <1>2, <1>3, PitInvariant, PTL DEF Spec, CooldownSpacing

=============================================================================
