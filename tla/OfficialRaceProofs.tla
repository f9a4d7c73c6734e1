------------------------- MODULE OfficialRaceProofs -------------------------
(***************************************************************************)
(* Proofs about official race sessions (OfficialRace), for any number of   *)
(* teams, cars, containers, rosters, restarts and failures: a team has one *)
(* race car at most, the bot of an entry is watched, a session is recorded *)
(* while it is on, only dead bots are parked and each start has a signal   *)
(* of its own.                                                             *)
(***************************************************************************)
EXTENDS OfficialRace, FiniteSetTheorems, WellFoundedInduction, TLAPS

-----------------------------------------------------------------------------
(* The inductive invariant. *)

\* The steps between the clean-up of a prepare and its record.
Gridding == {"switch", "grid", "run", "follow", "select", "undo"}
Cleaning == {"clean", "despawn", "stale"}
Resting == {"tick", "tail", "refresh", "refollow"}

\* The locals of the launcher, of the poller and of a monitor at each of their steps.
LauncherOK(l) ==
    /\ l.index # 0
    /\ l.at \in {"run", "follow", "select", "undo", "refollow"} => l.team \in Teams /\ l.cur \in Entries
    /\ l.at = "despawn" => l.cur \in Entries
    /\ l.at \in {"follow", "select", "refollow"} => l.cur.box \in Boxes

PollerOK(p) ==
    /\ p.at \in {"remove", "mark", "swap", "follow"} => p.team \in Teams
    /\ p.at \in {"mark", "swap", "follow"} => p.cur \in Entries /\ p.slot \in Slots
    /\ p.at = "follow" => p.new \in Boxes

MonitorOK(m) ==
    /\ m.at \notin {"wait", "delay"} => m.cur \in Entries
    /\ m.at = "follow" => m.new \in Boxes
    /\ m.at \in {"check", "start", "follow"} /\ m.started => m.cur.attempts < MaxAttempts

TypeInv == TypeOK /\ LauncherOK(launcher) /\ PollerOK(poller)
           /\ \A m \in monitors : MonitorOK(m)

\* No two cars of a team; while the grid is filled the cars on it are those of the
\* roster lines read so far.
GridOK(l, st) ==
    /\ \A c, d \in Cars : st[c] # Nil /\ st[c] = st[d] => c = d
    /\ l.at \in Gridding => \A c \in Cars : st[c] # Nil => st[c] \in l.seen

\* What the launcher's locals say of the published session (se), of the results (res)
\* and of the failed writes (unw).
SessionOK(l, se, res, unw) ==
    /\ \A s \in Sessions : res[s] = "running" => s = l.rec \/ s \in unw
    /\ l.rec # Nil => res[l.rec] = "running"
    /\ ~l.prepared => l.rec = Nil
    /\ l.at \in Gridding \cup Cleaning \cup {"load", "close"} => l.rec = Nil
    /\ l.at \in Resting /\ l.prepared =>
         l.rec # Nil /\ se = IF l.started THEN "started" ELSE "prepared"
    /\ l.at \in {"refresh", "refollow"} => l.prepared /\ ~l.started
    /\ l.at \in Gridding \cup {"load"} => l.why # "close"
    /\ l.at \in Gridding \cup Cleaning \cup {"load"} /\ l.why = "implicit" => ~l.prepared
    /\ l.at \in Resting \cup {"close"} => l.why = "prepare"

\* A ".start" that rose since the last tick and has not been served is fresh; one that
\* was served in this tick is forgotten at its end, as a race that has just started is
\* not closed (el: its time is up).
SignalOK(l, sg, fr, el) ==
    /\ l.at \notin {"tick", "off"} => l.saw = sg
    /\ l.at = "tick" /\ sg.start /\ ~l.prev.start => fr
    /\ l.at \notin {"tick", "off", "tail"} /\ l.saw.start /\ ~l.prev.start => fr
    /\ l.at = "tail" /\ l.saw.start /\ ~l.prev.start => fr \/ ~el
    /\ l.at \in {"refresh", "refollow"} => l.saw.start /\ ~l.prev.start

\* A container that is started but not yet in the registry, or, for the launcher, not
\* yet watched.
PendingBox(x) ==
    \/ launcher.at \in {"follow", "select", "refollow"} /\ x = launcher.cur.box
    \/ poller.at = "follow" /\ x = poller.new
    \/ \E m \in monitors : m.at = "follow" /\ x = m.new

\* Watching: box numbers in use are below the counter, a container that waits to be
\* registered is nobody else's, a monitor that has woken watched a bot that is dead, and
\* one that is about to end no longer owns its entry.
NumbersOK ==
    /\ \A x \in Boxes : PendingBox(x) => x <= used.boxes
    /\ \A m \in monitors : m.box <= used.boxes
    /\ \A t \in Teams : bots[t] # Nil /\ bots[t].box \in Boxes => bots[t].box <= used.boxes
PendingOK ==
    /\ \A x \in Boxes : PendingBox(x) => \A m \in monitors : m.box # x
    /\ \A m \in monitors : m.at = "follow" =>
         /\ \A n \in monitors : n.at = "follow" /\ n.new = m.new => n = m
         /\ launcher.at \in {"follow", "select", "refollow"} => launcher.cur.box # m.new
         /\ poller.at = "follow" => poller.new # m.new
    /\ launcher.at \in {"follow", "select", "refollow"} /\ poller.at = "follow" =>
         launcher.cur.box # poller.new
    /\ \A t \in Teams : bots[t] # Nil /\ bots[t].box \in Boxes =>
         /\ launcher.at = "follow" => bots[t].box # launcher.cur.box
         /\ launcher.at = "select" /\ bots[t].box = launcher.cur.box => t = launcher.team
EndingOK ==
    \A m \in monitors :
        /\ m.at # "wait" => Dead(m.team, m.box)
        /\ m.at \in {"park", "despawn"} /\ bots[m.team] # Nil => bots[m.team].box # m.box
WatchInv == NumbersOK /\ PendingOK /\ EndingOK /\ BotIsWatched

Inv == /\ TypeInv
       /\ GridOK(launcher, stored)
       /\ SessionOK(launcher, session, results, unwritten)
       /\ SignalOK(launcher, signals, fresh, elapsed)
       /\ WatchInv

-----------------------------------------------------------------------------
(* Constants and helpers. *)

Containers == [id: Boxes, running: BOOLEAN, slot: Slots]
Uses == [cars: 0..MaxCars, boxes: 0..MaxBoxes, signals: 0..MaxSignals,
         faults: 0..MaxFaults, events: 0..MaxEvents, sessions: 0..MaxSignals]

\* What the constants are.
LEMMA Constants ==
    /\ StartSlots \in Nat /\ MaxAttempts \in Nat /\ MaxCars \in Nat /\ MaxBoxes \in Nat
    /\ MaxSignals \in Nat /\ MaxFaults \in Nat /\ MaxEvents \in Nat
    /\ Nil \notin Teams /\ Nil \notin Slots /\ Nil \notin Cars /\ Nil \notin Boxes
    /\ Nil \notin Sessions /\ Switching \notin Boxes /\ Awaiting \notin Boxes
    /\ Switching # Awaiting
<1>1. \A x \in {Nil, Switching, Awaiting} : x \notin Teams /\ x \notin Nat
  BY RaceAssumption
<1>2. Cars \subseteq Nat /\ Boxes \subseteq Nat /\ Sessions \subseteq Nat /\ Slots \subseteq Nat
  BY RaceAssumption DEF Cars, Boxes, Sessions
<1>3. QED
  BY <1>1, <1>2, RaceAssumption

\* resolve_lowest_runnable_slot_submission finds a slot.
LEMMA LowestIs == LowestSlot \in Slots
<1>1. Slots \subseteq Nat /\ Slots # {}
  BY RaceAssumption
<1> DEFINE Less == {p \in Nat \X Nat : p[1] < p[2]}
<1>w. IsWellFoundedOn(Less, Nat)
  BY NatLessThanWellFounded, Zenon DEF OpToRel
<1>r. \A r, s \in Nat : r < s => <<r, s>> \in Less
  OBVIOUS
<1> HIDE DEF Less
<1>2. PICK s \in Slots : \A r \in Slots : ~(<<r, s>> \in Less)
  BY <1>1, <1>w, WFMin
<1>3. ASSUME NEW r \in Slots PROVE s <= r
  <2>1. r \in Nat /\ s \in Nat /\ ~(r < s)
    BY <1>1, <1>2, <1>r
  <2>2. QED
    BY <2>1
<1>4. QED
  BY <1>3 DEF LowestSlot

\* What is used of the bounds after a fault, and after a container was started.
LEMMA FaultIs ==
    ASSUME used \in Uses, Fault
    PROVE  /\ used' \in Uses /\ used'.boxes = used.boxes /\ used'.sessions = used.sessions
           /\ used'.cars = used.cars
<1>1. PICK n \in 0..MaxFaults : n = used.faults + 1
  BY Constants DEF Fault, Uses
<1>2. used' = [used EXCEPT !.faults = n]
  BY <1>1 DEF Fault
<1>3. QED
  BY <1>2 DEF Uses

\* A container's name and number.
LEMMA StartIs ==
    ASSUME used \in Uses, docker \in [Teams -> Containers \cup {Nil}],
           NEW t \in Teams, NEW slot \in Slots, StartContainer(t, slot)
    PROVE  /\ used' \in Uses /\ used'.boxes = used.boxes + 1 /\ used'.boxes \in Boxes
           /\ used'.sessions = used.sessions /\ used'.cars = used.cars
           /\ docker' \in [Teams -> Containers \cup {Nil}]
           /\ \A u \in Teams : docker'[u] = docker[u] \/ docker'[u].id = used.boxes + 1
<1>1. PICK n \in 0..MaxBoxes : n = used.boxes + 1 /\ n \in Boxes
  BY Constants DEF StartContainer, Uses, Boxes
<1>2. used' = [used EXCEPT !.boxes = n]
  BY <1>1 DEF StartContainer
<1>3. /\ used' \in Uses /\ used'.boxes = n /\ used'.sessions = used.sessions /\ used'.cars = used.cars
  BY <1>2 DEF Uses
<1>4. docker' = [docker EXCEPT ![t] = [id |-> n, running |-> TRUE, slot |-> slot]]
  BY <1>1 DEF StartContainer
<1>5. [id |-> n, running |-> TRUE, slot |-> slot] \in Containers
  BY <1>1 DEF Containers
<1>6. QED
  BY <1>1, <1>3, <1>4, <1>5

\* What a failed start leaves: no other container than the one it may have started.
LEMMA StartFailsIs ==
    ASSUME used \in Uses, docker \in [Teams -> Containers \cup {Nil}],
           NEW t \in Teams, NEW slot \in Slots, StartFails(t, slot)
    PROVE  /\ used' \in Uses /\ used'.boxes \in {used.boxes, used.boxes + 1}
           /\ used'.sessions = used.sessions /\ used'.cars = used.cars
           /\ docker' \in [Teams -> Containers \cup {Nil}]
           /\ \A u \in Teams : \/ docker'[u] \in {docker[u], Nil}
                               \/ docker'[u].id = used.boxes + 1
<1>1. CASE Fault /\ docker' \in {docker, [docker EXCEPT ![t] = Nil]}
  BY <1>1, FaultIs
<1>2. CASE /\ used.faults < MaxFaults /\ used.boxes < MaxBoxes
           /\ used' = [used EXCEPT !.faults = used.faults + 1, !.boxes = used.boxes + 1]
           /\ docker' = [docker EXCEPT ![t] = [id |-> used.boxes + 1, running |-> TRUE, slot |-> slot]]
  <2>1. PICK n \in 0..MaxBoxes : n = used.boxes + 1 /\ n \in Boxes
    BY <1>2, Constants DEF Uses, Boxes
  <2>2. PICK k \in 0..MaxFaults : k = used.faults + 1
    BY <1>2, Constants DEF Uses
  <2>3. used' = [used EXCEPT !.faults = k, !.boxes = n]
    BY <1>2, <2>1, <2>2
  <2>4. /\ used' \in Uses /\ used'.boxes = n /\ used'.sessions = used.sessions /\ used'.cars = used.cars
    BY <2>3 DEF Uses
  <2>5. docker' = [docker EXCEPT ![t] = [id |-> n, running |-> TRUE, slot |-> slot]]
    BY <1>2, <2>1
  <2>6. [id |-> n, running |-> TRUE, slot |-> slot] \in Containers
    BY <2>1 DEF Containers
  <2>7. QED
    BY <2>1, <2>4, <2>5, <2>6
<1>3. QED
  BY <1>1, <1>2 DEF StartFails

\* What a removal, done or refused, leaves.
LEMMA RemoveIs ==
    ASSUME used \in Uses, docker \in [Teams -> Containers \cup {Nil}],
           NEW t \in Teams, RemoveContainer(t)
    PROVE  /\ used' \in Uses /\ used'.boxes = used.boxes /\ used'.sessions = used.sessions
           /\ used'.cars = used.cars
           /\ docker' \in [Teams -> Containers \cup {Nil}]
           /\ \A u \in Teams : docker'[u] \in {docker[u], Nil}
<1>1. CASE docker' = [docker EXCEPT ![t] = Nil] /\ UNCHANGED used
  BY <1>1
<1>2. CASE Fault /\ UNCHANGED docker
  BY <1>2, FaultIs
<1>3. QED
  BY <1>1, <1>2 DEF RemoveContainer

\* An event of the world outside.
LEMMA EventIs ==
    ASSUME used \in Uses, Event
    PROVE  /\ used' \in Uses /\ used'.boxes = used.boxes /\ used'.sessions = used.sessions
           /\ used'.cars = used.cars
<1>1. PICK n \in 0..MaxEvents : n = used.events + 1
  BY Constants DEF Event, Uses
<1>2. used' = [used EXCEPT !.events = n]
  BY <1>1 DEF Event
<1>3. QED
  BY <1>2 DEF Uses

\* The types, one by one.
LEMMA Types ==
    ASSUME TypeInv
    PROVE  /\ race \in BOOLEAN /\ vehicle \subseteq Cars
           /\ stored \in [Cars -> Teams \cup {Nil}] /\ switching \subseteq Cars
           /\ session \in {"none", "prepared", "started"} /\ elapsed \in BOOLEAN
           /\ bots \in [Teams -> Entries \cup {Nil}]
           /\ docker \in [Teams -> Containers \cup {Nil}]
           /\ selected \in [Teams -> Slots \cup {Nil}]
           /\ monitors \subseteq Monitors /\ lost \subseteq Boxes
           /\ launcher \in Launchers /\ poller \in Pollers
           /\ lock \in {"launcher", "poller", Nil} /\ signals \in Marks
           /\ results \in [Sessions -> {"absent", "running", "finalized"}]
           /\ unwritten \subseteq Sessions /\ used \in Uses /\ fresh \in BOOLEAN
           /\ LauncherOK(launcher) /\ PollerOK(poller) /\ \A m \in monitors : MonitorOK(m)
BY DEF TypeInv, TypeOK, Containers, Uses

\* A car forgotten.
LEMMA ForgetIs ==
    ASSUME TypeInv, NEW c \in Cars, ForgetCar(c)
    PROVE  /\ stored' \in [Cars -> Teams \cup {Nil}] /\ switching' \subseteq Cars
           /\ \A d \in Cars : stored'[d] \in {stored[d], Nil}
BY DEF TypeInv, TypeOK, ForgetCar

\* The copy of the registry.
LEMMA SnapshotIs == ASSUME TypeInv PROVE Snapshot \in SUBSET [team: Teams, entry: Entries]
<1>1. ASSUME NEW t \in Teams, bots[t] # Nil PROVE [team |-> t, entry |-> bots[t]] \in [team: Teams, entry: Entries]
  <2>1. bots[t] \in Entries
    BY <1>1, Types
  <2>2. QED
    BY <2>1
<1>2. QED
  BY <1>1 DEF Snapshot

-----------------------------------------------------------------------------
(* What the launcher's steps do to its locals. *)

SameMarks(q, l) == q.saw = l.saw /\ q.prev = l.prev
SameRace(q, l) == q.prepared = l.prepared /\ q.started = l.started /\ q.rec = l.rec
SameWork(q, l) == q.why = l.why /\ q.seen = l.seen

\* The locals of a launcher that has finished or given up a prepare.
LEMMA IdleIs ==
    ASSUME TypeInv
    PROVE  /\ Idle \in Launchers /\ SameMarks(Idle, launcher) /\ SameRace(Idle, launcher)
           /\ Idle.at = launcher.at /\ Idle.why = "prepare" /\ Idle.index = 1
<1>1. launcher \in Launchers
  BY Types
<1>2. QED
  BY <1>1 DEF Idle, Launchers, SameMarks, SameRace

\* What follows the prepare part of a tick.
LEMMA AfterPrepareIs ==
    ASSUME TypeInv, NEW f \in Launchers, f.index # 0
    PROVE  /\ AfterPrepare(f) \in Launchers /\ LauncherOK(AfterPrepare(f))
           /\ SameMarks(AfterPrepare(f), f) /\ SameRace(AfterPrepare(f), f)
           /\ \/ AfterPrepare(f).at = "tail" /\ AfterPrepare(f).why = f.why
              \/ /\ AfterPrepare(f).at = "load" /\ AfterPrepare(f).why = "implicit"
                 /\ ~f.prepared
              \/ /\ AfterPrepare(f).at = "refresh" /\ AfterPrepare(f).why = f.why
                 /\ f.prepared /\ ~f.started /\ f.saw.start /\ ~f.prev.start
<1> DEFINE a == [f EXCEPT !.at = "tail"]
           b == [f EXCEPT !.at = "load", !.why = "implicit"]
<1>s. PICK S \in SUBSET [team: Teams, entry: Entries] : S = Snapshot
  BY SnapshotIs
<1> DEFINE c == [f EXCEPT !.at = "refresh", !.todo = S]
<1>a. a \in Launchers /\ LauncherOK(a) /\ SameMarks(a, f) /\ SameRace(a, f) /\ a.at = "tail" /\ a.why = f.why
  BY DEF Launchers, LauncherSteps, LauncherOK, SameMarks, SameRace
<1>b. b \in Launchers /\ LauncherOK(b) /\ SameMarks(b, f) /\ SameRace(b, f) /\ b.at = "load" /\ b.why = "implicit"
  BY DEF Launchers, LauncherSteps, LauncherOK, SameMarks, SameRace
<1>c. c \in Launchers /\ LauncherOK(c) /\ SameMarks(c, f) /\ SameRace(c, f) /\ c.at = "refresh" /\ c.why = f.why
  BY DEF Launchers, LauncherSteps, LauncherOK, SameMarks, SameRace
<1>1. \/ AfterPrepare(f) = a
      \/ AfterPrepare(f) = b /\ ~f.prepared
      \/ AfterPrepare(f) = c /\ f.prepared /\ ~f.started /\ f.saw.start /\ ~f.prev.start
  BY <1>s DEF AfterPrepare, Rising
<1> HIDE DEF a, b, c
<1>2. QED
  BY <1>1, <1>a, <1>b, <1>c

\* What follows a failed prepare.
LEMMA AfterFailureIs ==
    ASSUME TypeInv
    PROVE  /\ AfterFailure \in Launchers /\ LauncherOK(AfterFailure)
           /\ SameMarks(AfterFailure, launcher) /\ AfterFailure.rec = launcher.rec
           /\ ~launcher.started => ~AfterFailure.started
           /\ launcher.why = "prepare" => ~AfterFailure.prepared
           /\ launcher.why # "prepare" =>
                /\ AfterFailure.prepared = launcher.prepared
                /\ AfterFailure.at = "tail"
           /\ \/ AfterFailure.at = "tail" /\ AfterFailure.why = "prepare"
              \/ AfterFailure.at = "load" /\ AfterFailure.why = "implicit"
<1>l. launcher \in Launchers
  BY Types
<1>1. CASE launcher.why = "prepare"
  <2> DEFINE i == Idle
             f == [i EXCEPT !.prepared = FALSE, !.started = FALSE]
  <2>0. /\ i \in Launchers /\ i.index = 1 /\ i.why = "prepare" /\ i.rec = launcher.rec
        /\ i.saw = launcher.saw /\ i.prev = launcher.prev
    BY IdleIs DEF SameRace, SameMarks
  <2>1. AfterFailure = AfterPrepare(f)
    BY <1>1 DEF AfterFailure
  <2> HIDE DEF i
  <2>2. f \in Launchers
    BY <2>0 DEF Launchers
  <2>3. /\ f.index = 1 /\ f.saw = launcher.saw /\ f.prev = launcher.prev /\ f.rec = launcher.rec
        /\ f.prepared = FALSE /\ f.started = FALSE /\ f.why = "prepare"
    BY <2>0 DEF Launchers
  <2> HIDE DEF f
  <2>4. QED
    BY <1>1, <2>1, <2>2, <2>3, AfterPrepareIs DEF SameMarks, SameRace
<1>2. CASE launcher.why # "prepare"
  <2> DEFINE f == [Idle EXCEPT !.at = "tail"]
  <2>1. /\ f \in Launchers /\ f.index # 0 /\ SameMarks(f, launcher) /\ f.rec = launcher.rec
        /\ f.prepared = launcher.prepared /\ f.started = launcher.started
        /\ f.why = "prepare" /\ f.at = "tail"
    BY IdleIs DEF Launchers, LauncherSteps, SameMarks, SameRace
  <2>2. AfterFailure = f
    BY <1>2 DEF AfterFailure
  <2> HIDE DEF f
  <2>3. QED
    BY <1>2, <2>1, <2>2 DEF LauncherOK
<1>3. QED
  BY <1>1, <1>2

\* The next line of the roster.
LEMMA NextLineIs ==
    ASSUME NEW f \in Launchers
    PROVE  /\ NextLine(f) \in Launchers /\ LauncherOK(NextLine(f)) /\ NextLine(f).at = "grid"
           /\ SameMarks(NextLine(f), f) /\ SameRace(NextLine(f), f) /\ SameWork(NextLine(f), f)
<1>1. PICK n \in Nat \ {0} : n = f.index + 1
  BY DEF Launchers
<1> DEFINE q == [f EXCEPT !.at = "grid", !.index = n, !.team = Nil, !.cur = Nil]
<1>2. /\ q \in Launchers /\ q.at = "grid" /\ q.index = n
      /\ SameMarks(q, f) /\ SameRace(q, f) /\ SameWork(q, f)
  BY DEF Launchers, LauncherSteps, SameMarks, SameRace, SameWork
<1>3. NextLine(f) = q
  BY <1>1 DEF NextLine
<1> HIDE DEF q
<1>4. QED
  BY <1>1, <1>2, <1>3 DEF LauncherOK

\* The launcher begins to clean up.
LEMMA CleanupIs ==
    ASSUME TypeInv, NEW f \in Launchers, f.index # 0, BeginCleanup(f)
    PROVE  /\ launcher' \in Launchers /\ LauncherOK(launcher') /\ launcher'.at = "clean"
           /\ SameMarks(launcher', f) /\ SameRace(launcher', f) /\ SameWork(launcher', f)
<1>1. PICK S \in SUBSET [team: Teams, entry: Entries] : S = Snapshot
  BY SnapshotIs
<1> DEFINE q == [f EXCEPT !.at = "clean", !.todo = S]
<1>2. launcher' = q
  BY <1>1 DEF BeginCleanup
<1>3. /\ q \in Launchers /\ q.at = "clean" /\ q.index = f.index
      /\ SameMarks(q, f) /\ SameRace(q, f) /\ SameWork(q, f)
  BY DEF Launchers, LauncherSteps, SameMarks, SameRace, SameWork
<1> HIDE DEF q
<1>4. QED
  BY <1>2, <1>3 DEF LauncherOK

-----------------------------------------------------------------------------
(* The launcher: types, grid, session and signal. *)

LaunchInv == /\ TypeInv
             /\ GridOK(launcher, stored)
             /\ SessionOK(launcher, session, results, unwritten)
             /\ SignalOK(launcher, signals, fresh, elapsed)

\* Steps where a container started by the launcher is not yet watched.
Pend == {"follow", "select", "refollow"}

\* finalize closes the file of the launcher's recorder, or leaves it among the unwritten.
LEMMA FinalizeIs ==
    ASSUME TypeInv, Finalize
    PROVE  /\ results' \in [Sessions -> {"absent", "running", "finalized"}]
           /\ unwritten' \subseteq Sessions /\ used' \in Uses
           /\ used'.boxes = used.boxes
           /\ \A s \in Sessions : results'[s] = "running" =>
                /\ results[s] = "running"
                /\ s = launcher.rec => s \in unwritten'
           /\ unwritten \subseteq unwritten'
<1>t. /\ launcher.rec \in Sessions \cup {Nil} /\ used \in Uses
      /\ results \in [Sessions -> {"absent", "running", "finalized"}] /\ unwritten \subseteq Sessions
  BY Types DEF Launchers
<1>1. CASE launcher.rec = Nil /\ UNCHANGED <<results, unwritten, used>>
  BY <1>1, <1>t, Constants
<1>2. CASE /\ launcher.rec # Nil /\ UNCHANGED <<unwritten, used>>
           /\ results' = [results EXCEPT ![launcher.rec] = "finalized"]
  BY <1>2, <1>t
<1>3. CASE /\ launcher.rec # Nil /\ Fault /\ UNCHANGED results
           /\ unwritten' = unwritten \cup {launcher.rec}
  BY <1>3, <1>t, FaultIs
<1>4. QED
  BY <1>1, <1>2, <1>3 DEF Finalize

\* A tick reads the files; the appearance of ".prepare" ends the results.
LEMMA TickStep ==
    ASSUME LaunchInv, Tick
    PROVE  LaunchInv' /\ launcher'.at \notin Pend /\ used'.boxes = used.boxes
<1> USE DEF Gridding, Cleaning, Resting, Pend
<1>t. /\ TypeInv /\ launcher \in Launchers /\ signals \in Marks /\ launcher.at = "tick"
      /\ LauncherOK(launcher) /\ used \in Uses
  BY Types DEF LaunchInv, Tick, LAt
<1>o. /\ GridOK(launcher, stored) /\ SessionOK(launcher, session, results, unwritten)
      /\ SignalOK(launcher, signals, fresh, elapsed)
  BY DEF LaunchInv
<1>u. UNCHANGED <<race, vehicle, stored, switching, session, elapsed, bots, docker, selected,
                  monitors, lost, poller, lock, signals, fresh>>
  BY DEF Tick, engine, store
<1> DEFINE l == launcher
           f == [l EXCEPT !.saw = signals]
<1>f. /\ f \in Launchers /\ f.saw = signals /\ f.prev = l.prev /\ f.prepared = l.prepared
      /\ f.started = l.started /\ f.rec = l.rec /\ f.why = l.why /\ f.seen = l.seen
      /\ f.index = l.index /\ f.at = "tick"
  BY <1>t DEF Launchers
<1>1. CASE Finalize /\ launcher' = [f EXCEPT !.at = "load", !.rec = Nil]
  <2> DEFINE q == [f EXCEPT !.at = "load", !.rec = Nil]
  <2> HIDE DEF f, l
  <2>1. /\ q \in Launchers /\ q.at = "load" /\ q.rec = Nil /\ q.saw = signals /\ q.prev = f.prev
        /\ q.prepared = f.prepared /\ q.why = f.why /\ q.index = f.index
    BY <1>f DEF Launchers, LauncherSteps
  <2>2. launcher' = q
    BY <1>1
  <2> HIDE DEF q
  <2>3. LauncherOK(q)
    BY <1>f, <1>t, <2>1 DEF LauncherOK, l
  <2>4. TypeInv'
    BY <1>t, <1>u, <1>1, <2>1, <2>2, <2>3, FinalizeIs DEF TypeInv, TypeOK, Uses
  <2>5. GridOK(q, stored)
    BY <1>o, <2>1 DEF GridOK
  <2>6. SessionOK(q, session, results', unwritten')
    BY <1>1, <1>f, <1>o, <1>t, <2>1, FinalizeIs, Constants DEF SessionOK, l
  <2>7. SignalOK(q, signals, fresh, elapsed)
    BY <1>f, <1>o, <1>t, <2>1 DEF SignalOK, l
  <2>8. QED
    BY <1>1, <1>t, <1>u, <2>1, <2>2, <2>4, <2>5, <2>6, <2>7, FinalizeIs DEF LaunchInv
<1>2. CASE launcher' = AfterPrepare(f) /\ UNCHANGED <<results, unwritten, used>>
  <2> DEFINE q == AfterPrepare(f)
  <2> HIDE DEF f, l
  <2>1. /\ q \in Launchers /\ LauncherOK(q) /\ SameMarks(q, f) /\ SameRace(q, f)
        /\ \/ q.at = "tail" /\ q.why = f.why
           \/ q.at = "load" /\ q.why = "implicit" /\ ~f.prepared
           \/ /\ q.at = "refresh" /\ q.why = f.why
              /\ f.prepared /\ ~f.started /\ f.saw.start /\ ~f.prev.start
    BY <1>f, <1>t, AfterPrepareIs DEF LauncherOK, l
  <2>2. launcher' = q
    BY <1>2
  <2> HIDE DEF q
  <2>3. TypeInv'
    BY <1>t, <1>u, <1>2, <2>1, <2>2 DEF TypeInv, TypeOK
  <2>4. GridOK(q, stored)
    BY <1>o, <2>1 DEF GridOK
  <2>5. SessionOK(q, session, results, unwritten)
    BY <1>f, <1>o, <1>t, <2>1 DEF SessionOK, SameRace, l
  <2>6. SignalOK(q, signals, fresh, elapsed)
    BY <1>f, <1>o, <1>t, <2>1 DEF SignalOK, SameMarks, l
  <2>7. QED
    BY <1>2, <1>u, <2>1, <2>2, <2>3, <2>4, <2>5, <2>6 DEF LaunchInv
<1>3. QED
  BY <1>1, <1>2 DEF Tick, LUpd

\* A failed prepare, at whichever of its steps.
LEMMA FailureStep ==
    ASSUME LaunchInv, launcher.at \in {"load", "switch", "grid"}, launcher' = AfterFailure,
           TypeOK', UNCHANGED <<poller, monitors, stored, signals, fresh>>,
           \A s \in Sessions : results'[s] = "running" => results[s] = "running" \/ s \in unwritten',
           unwritten \subseteq unwritten'
    PROVE  LaunchInv' /\ launcher'.at \notin Pend
<1> USE DEF Gridding, Cleaning, Resting, Pend
<1>t. TypeInv /\ launcher \in Launchers
  BY Types DEF LaunchInv
<1>o. /\ GridOK(launcher, stored) /\ SessionOK(launcher, session, results, unwritten)
      /\ SignalOK(launcher, signals, fresh, elapsed)
  BY DEF LaunchInv
<1> DEFINE l == launcher
           q == AfterFailure
<1>1. /\ q \in Launchers /\ LauncherOK(q) /\ SameMarks(q, l) /\ q.rec = l.rec
      /\ l.why = "prepare" => ~q.prepared
      /\ l.why # "prepare" => q.prepared = l.prepared /\ q.at = "tail"
      /\ \/ q.at = "tail" /\ q.why = "prepare"
         \/ q.at = "load" /\ q.why = "implicit"
  BY <1>t, AfterFailureIs
<1>w. l.why \in {"prepare", "implicit", "close"}
  BY <1>t DEF Launchers
<1> HIDE DEF q, l
<1>2. ~q.prepared /\ q.rec = Nil
  BY <1>1, <1>o, <1>w DEF SessionOK, l
<1>3. TypeInv'
  BY <1>1, <1>t DEF TypeInv, q
<1>4. GridOK(q, stored)
  BY <1>1, <1>o DEF GridOK
<1>5. SessionOK(q, session', results', unwritten')
  BY <1>1, <1>2, <1>o DEF SessionOK, l
<1>6. SignalOK(q, signals, fresh, elapsed')
  BY <1>1, <1>o DEF SignalOK, SameMarks, l
<1>7. QED
  BY <1>1, <1>3, <1>4, <1>5, <1>6 DEF LaunchInv, q

\* A step inside the clean-up, inside the filling of the grid or inside the refresh.
LEMMA WorkMoves ==
    ASSUME LaunchInv, launcher' \in Launchers, LauncherOK(launcher'), TypeOK',
           PollerOK(poller'), \A m \in monitors' : MonitorOK(m),
           \A c \in Cars : stored'[c] \in {stored[c], Nil},
           UNCHANGED <<session, results, unwritten, signals, fresh, elapsed>>,
           SameMarks(launcher', launcher), SameRace(launcher', launcher),
           launcher'.why = launcher.why, launcher.seen \subseteq launcher'.seen,
           \/ launcher.at \in Gridding /\ launcher'.at \in Gridding
           \/ launcher.at \in Cleaning /\ launcher'.at \in Cleaning
           \/ launcher.at \in {"refresh", "refollow"} /\ launcher'.at \in {"refresh", "refollow"}
    PROVE  LaunchInv'
<1> USE DEF Gridding, Cleaning, Resting
<1>o. /\ TypeInv
      /\ GridOK(launcher, stored) /\ SessionOK(launcher, session, results, unwritten)
      /\ SignalOK(launcher, signals, fresh, elapsed)
  BY DEF LaunchInv
<1>1. TypeInv'
  BY DEF TypeInv
<1>2. GridOK(launcher', stored')
  BY <1>o DEF GridOK
<1>3. SessionOK(launcher', session', results', unwritten')
  BY <1>o DEF SessionOK, SameRace
<1>4. SignalOK(launcher', signals', fresh', elapsed')
  BY <1>o DEF SignalOK, SameMarks
<1>5. QED
  BY <1>1, <1>2, <1>3, <1>4 DEF LaunchInv

\* The prepare reads its files.
LEMMA LoadSteps ==
    ASSUME LaunchInv, LoadFails \/ Load
    PROVE  LaunchInv' /\ launcher'.at \notin Pend /\ used'.boxes = used.boxes
<1> USE DEF Gridding, Cleaning, Resting, Pend
<1>t. TypeInv /\ launcher \in Launchers /\ LauncherOK(launcher) /\ used \in Uses
  BY Types DEF LaunchInv
<1>o. /\ GridOK(launcher, stored) /\ SessionOK(launcher, session, results, unwritten)
      /\ SignalOK(launcher, signals, fresh, elapsed)
  BY DEF LaunchInv
<1>1. CASE LoadFails
  <2>1. /\ launcher.at = "load" /\ launcher' = AfterFailure /\ Fault
        /\ UNCHANGED <<race, vehicle, stored, switching, session, elapsed, bots, docker, selected,
                       monitors, lost, poller, lock, signals, results, unwritten, fresh>>
    BY <1>1 DEF LoadFails, LAt, LUpd, engine, store, files
  <2>2. TypeOK'
    BY <1>t, <2>1, FaultIs, AfterFailureIs DEF TypeInv, TypeOK, Uses
  <2>3. QED
    BY <1>t, <2>1, <2>2, FaultIs, FailureStep
<1>2. CASE Load
  <2>0. PICK r \in Rosters : BeginCleanup([launcher EXCEPT !.roster = r, !.index = 1, !.seen = {}])
    BY <1>2 DEF Load
  <2> DEFINE l == launcher
             f == [l EXCEPT !.roster = r, !.index = 1, !.seen = {}]
  <2>r. l \in Launchers /\ r \in Rosters \cup {<<>>} /\ 1 \in Nat /\ {} \in SUBSET Teams
    BY <1>t
  <2>s. BeginCleanup(f)
    BY <2>0
  <2> HIDE DEF l
  <2>1. /\ f \in Launchers /\ f.index # 0 /\ f.saw = l.saw /\ f.prev = l.prev
        /\ f.prepared = l.prepared /\ f.started = l.started /\ f.rec = l.rec /\ f.why = l.why
    <3>1. f \in Launchers
      BY <2>r DEF Launchers
    <3>2. /\ f.index = 1 /\ f.saw = l.saw /\ f.prev = l.prev
          /\ f.prepared = l.prepared /\ f.started = l.started /\ f.rec = l.rec /\ f.why = l.why
      BY <2>r DEF Launchers
    <3>3. QED
      BY <3>1, <3>2
  <2>2. /\ launcher.at = "load" /\ lock' = "launcher" /\ session' = "none" /\ elapsed' = FALSE
        /\ UNCHANGED <<race, vehicle, stored, switching, bots, docker, selected, monitors, lost,
                       poller, signals, results, unwritten, fresh, used>>
    BY <1>2, <2>0 DEF Load, LAt, BeginCleanup, engine, files
  <2>3. BeginCleanup(f)
    BY <2>s
  <2> HIDE DEF f
  <2>4. /\ launcher' \in Launchers /\ LauncherOK(launcher') /\ launcher'.at = "clean"
        /\ SameMarks(launcher', f) /\ SameRace(launcher', f) /\ SameWork(launcher', f)
    BY <1>t, <2>1, <2>3, CleanupIs
  <2>5. TypeInv'
    BY <1>t, <2>2, <2>4 DEF TypeInv, TypeOK
  <2>6. GridOK(launcher', stored)
    BY <1>o, <2>4 DEF GridOK
  <2>7. SessionOK(launcher', session', results, unwritten)
    BY <1>o, <2>1, <2>2, <2>4 DEF SessionOK, SameRace, SameWork, l
  <2>8. SignalOK(launcher', signals, fresh, elapsed')
    BY <1>o, <2>1, <2>2, <2>4 DEF SignalOK, SameMarks, l
  <2>9. QED
    BY <2>2, <2>4, <2>5, <2>6, <2>7, <2>8 DEF LaunchInv
<1>3. QED
  BY <1>1, <1>2

\* The copied entries are cleaned up, then the cars that are left.
LEMMA CleanSteps ==
    ASSUME LaunchInv, CleanRemove \/ CleanDespawn \/ CleanStale
    PROVE  LaunchInv' /\ launcher'.at \notin Pend /\ used'.boxes = used.boxes
<1> USE DEF Gridding, Cleaning, Resting, Pend
<1>t. /\ TypeInv /\ launcher \in Launchers /\ LauncherOK(launcher) /\ used \in Uses
      /\ bots \in [Teams -> Entries \cup {Nil}] /\ docker \in [Teams -> Containers \cup {Nil}]
      /\ PollerOK(poller) /\ \A m \in monitors : MonitorOK(m)
      /\ vehicle \subseteq Cars /\ stored \in [Cars -> Teams \cup {Nil}]
  BY Types DEF LaunchInv
<1>o. /\ GridOK(launcher, stored) /\ SessionOK(launcher, session, results, unwritten)
      /\ SignalOK(launcher, signals, fresh, elapsed)
  BY DEF LaunchInv
<1> DEFINE l == launcher
<1>1. CASE CleanRemove
  <2>0. /\ l.at = "clean"
        /\ UNCHANGED <<race, vehicle, stored, switching, session, elapsed, selected, monitors, lost,
                       poller, lock, signals, results, unwritten, fresh>>
    BY <1>1 DEF CleanRemove, LAt, engine, store, files
  <2>1. CASE launcher' = [l EXCEPT !.at = "stale"] /\ UNCHANGED <<bots, docker, used>>
    <3> DEFINE q == [l EXCEPT !.at = "stale"]
    <3>1. /\ q \in Launchers /\ q.at = "stale" /\ q.index = l.index /\ SameMarks(q, l)
          /\ SameRace(q, l) /\ q.why = l.why /\ q.seen = l.seen
      BY <1>t DEF Launchers, LauncherSteps, SameMarks, SameRace
    <3>2. launcher' = q
      BY <2>1
    <3> HIDE DEF q, l
    <3>3. LauncherOK(q)
      BY <1>t, <3>1 DEF LauncherOK, l
    <3>4. TypeOK'
      BY <1>t, <2>0, <2>1, <3>1, <3>2 DEF TypeInv, TypeOK
    <3>5. \A c \in Cars : stored'[c] \in {stored[c], Nil}
      BY <2>0
    <3>6. QED
      BY <1>t, <2>0, <2>1, <3>1, <3>2, <3>3, <3>4, <3>5, WorkMoves DEF l
  <2>2. ASSUME NEW w \in l.todo, Insert(w.team, Nil), RemoveContainer(w.team),
               launcher' = [l EXCEPT !.at = "despawn", !.cur = w.entry, !.todo = l.todo \ {w}]
        PROVE  LaunchInv' /\ launcher'.at \notin Pend /\ used'.boxes = used.boxes
    <3>0. w.team \in Teams /\ w.entry \in Entries
      BY <1>t, <2>2 DEF Launchers
    <3> DEFINE q == [l EXCEPT !.at = "despawn", !.cur = w.entry, !.todo = l.todo \ {w}]
    <3>1. /\ q \in Launchers /\ q.at = "despawn" /\ q.index = l.index /\ SameMarks(q, l)
          /\ SameRace(q, l) /\ q.why = l.why /\ q.seen = l.seen /\ q.cur = w.entry
      BY <1>t, <3>0 DEF Launchers, LauncherSteps, SameMarks, SameRace
    <3>2. launcher' = q
      BY <2>2
    <3> HIDE DEF q, l
    <3>3. LauncherOK(q)
      BY <1>t, <3>0, <3>1 DEF LauncherOK, l
    <3>b. bots' \in [Teams -> Entries \cup {Nil}]
      BY <1>t, <2>2 DEF Insert
    <3>d. /\ docker' \in [Teams -> Containers \cup {Nil}]
          /\ used' \in Uses /\ used'.boxes = used.boxes
      BY <1>t, <2>2, <3>0, RemoveIs
    <3>4. TypeOK'
      BY <1>t, <2>0, <3>1, <3>2, <3>b, <3>d DEF TypeInv, TypeOK, Containers, Uses
    <3>5. \A c \in Cars : stored'[c] \in {stored[c], Nil}
      BY <2>0
    <3>6. QED
      BY <1>t, <2>0, <3>1, <3>2, <3>3, <3>4, <3>5, <3>d, WorkMoves DEF l
  <2>3. QED
    BY <1>1, <2>1, <2>2 DEF CleanRemove, LUpd
<1>2. CASE CleanDespawn
  <2>0. /\ l.at = "despawn" /\ vehicle' = vehicle \ {l.cur.car} /\ ForgetCar(l.cur.car)
        /\ launcher' = [l EXCEPT !.at = "clean", !.cur = Nil]
        /\ UNCHANGED <<race, session, elapsed, bots, docker, selected, monitors, lost,
                       poller, lock, signals, results, unwritten, fresh, used>>
    BY <1>2 DEF CleanDespawn, LAt, LUpd, ForgetCar, files
  <2>1. l.cur.car \in Cars
    BY <1>t, <2>0 DEF LauncherOK, Entries
  <2> DEFINE q == [l EXCEPT !.at = "clean", !.cur = Nil]
  <2>2. /\ q \in Launchers /\ q.at = "clean" /\ q.index = l.index /\ SameMarks(q, l)
        /\ SameRace(q, l) /\ q.why = l.why /\ q.seen = l.seen
    BY <1>t DEF Launchers, LauncherSteps, SameMarks, SameRace
  <2>3. launcher' = q
    BY <2>0
  <2> HIDE DEF q
  <2>4. LauncherOK(q)
    BY <1>t, <2>2 DEF LauncherOK
  <2>f. /\ stored' \in [Cars -> Teams \cup {Nil}] /\ switching' \subseteq Cars
        /\ \A c \in Cars : stored'[c] \in {stored[c], Nil}
    BY <1>t, <2>0, <2>1, ForgetIs
  <2>5. TypeOK'
    BY <1>t, <2>0, <2>2, <2>3, <2>f DEF TypeInv, TypeOK
  <2>6. QED
    BY <1>t, <2>0, <2>2, <2>3, <2>4, <2>5, <2>f, WorkMoves
<1>3. CASE CleanStale
  <2>0. /\ l.at = "stale"
        /\ UNCHANGED <<race, session, elapsed, bots, docker, selected, monitors, lost,
                       poller, signals, results, unwritten, fresh, used>>
    BY <1>3 DEF CleanStale, LAt, ForgetCar, store, files
  <2>1. CASE /\ UNCHANGED <<launcher, lock>>
             /\ \E c \in Cars : vehicle' = vehicle \ {c} /\ ForgetCar(c)
    <3>1. PICK c \in Cars : vehicle' = vehicle \ {c} /\ ForgetCar(c)
      BY <2>1
    <3>2. /\ stored' \in [Cars -> Teams \cup {Nil}] /\ switching' \subseteq Cars
          /\ \A d \in Cars : stored'[d] \in {stored[d], Nil}
      BY <1>t, <3>1, ForgetIs
    <3>3. TypeOK'
      BY <1>t, <2>0, <2>1, <3>1, <3>2 DEF TypeInv, TypeOK
    <3>4. QED
      BY <1>t, <2>0, <2>1, <3>2, <3>3, WorkMoves DEF SameMarks, SameRace
  <2>2. CASE /\ ~ \E c \in Cars : stored[c] # Nil
             /\ UNCHANGED <<vehicle, stored, switching>>
             /\ l.why = "close" /\ lock' = Nil
             /\ launcher' = [Idle EXCEPT !.at = "tick", !.saw = NoMarks, !.prepared = FALSE,
                                         !.started = FALSE]
    <3> DEFINE i == Idle
               q == [i EXCEPT !.at = "tick", !.saw = NoMarks, !.prepared = FALSE, !.started = FALSE]
    <3>i. /\ i \in Launchers /\ i.prev = l.prev /\ i.rec = l.rec /\ i.why = "prepare" /\ i.index = 1
      BY <1>t, IdleIs DEF SameMarks, SameRace
    <3>m. NoMarks \in Marks
      BY DEF NoMarks, Marks
    <3>1. launcher' = q
      BY <2>2
    <3> HIDE DEF i
    <3>2. /\ q \in Launchers /\ q.at = "tick" /\ q.prev = l.prev /\ q.prepared = FALSE /\ q.rec = l.rec
          /\ q.why = "prepare" /\ q.index = 1
      BY <3>i, <3>m DEF Launchers, LauncherSteps
    <3> HIDE DEF q
    <3>3. LauncherOK(q)
      BY <3>2 DEF LauncherOK
    <3>4. TypeInv'
      BY <1>t, <2>0, <2>2, <3>1, <3>2, <3>3 DEF TypeInv, TypeOK
    <3>5. GridOK(q, stored)
      BY <1>o, <3>2 DEF GridOK
    <3>6. SessionOK(q, session, results, unwritten)
      BY <1>o, <2>0, <3>2 DEF SessionOK
    <3>7. SignalOK(q, signals, fresh, elapsed)
      BY <1>o, <2>0, <3>2 DEF SignalOK
    <3>8. QED
      BY <2>0, <2>2, <3>1, <3>2, <3>4, <3>5, <3>6, <3>7 DEF LaunchInv
  <2>3. CASE /\ ~ \E c \in Cars : stored[c] # Nil
             /\ UNCHANGED <<vehicle, stored, switching, lock>>
             /\ l.why # "close" /\ launcher' = [l EXCEPT !.at = "switch"]
    <3> DEFINE q == [l EXCEPT !.at = "switch"]
    <3>1. launcher' = q
      BY <2>3
    <3>2. /\ q \in Launchers /\ q.at = "switch" /\ q.index = l.index /\ SameMarks(q, l)
          /\ SameRace(q, l) /\ q.why = l.why /\ q.seen = l.seen
      BY <1>t DEF Launchers, LauncherSteps, SameMarks, SameRace
    <3> HIDE DEF q
    <3>3. LauncherOK(q)
      BY <1>t, <3>2 DEF LauncherOK
    <3>4. TypeInv'
      BY <1>t, <2>0, <2>3, <3>1, <3>2, <3>3 DEF TypeInv, TypeOK
    <3>5. GridOK(q, stored)
      BY <1>o, <2>3, <3>2 DEF GridOK
    <3>6. SessionOK(q, session, results, unwritten)
      BY <1>o, <2>0, <2>3, <3>2 DEF SessionOK, SameRace
    <3>7. SignalOK(q, signals, fresh, elapsed)
      BY <1>o, <2>0, <3>2 DEF SignalOK, SameMarks
    <3>8. QED
      BY <2>0, <2>3, <3>1, <3>2, <3>4, <3>5, <3>6, <3>7 DEF LaunchInv
  <2>4. QED
    BY <1>3, <2>1, <2>2, <2>3 DEF CleanStale, LUpd, store
<1>4. QED
  BY <1>1, <1>2, <1>3


\* The race world is built, or is not.
LEMMA SwitchSteps ==
    ASSUME LaunchInv, SwitchRuntime \/ SwitchFails
    PROVE  LaunchInv' /\ launcher'.at \notin Pend /\ used'.boxes = used.boxes
<1> USE DEF Gridding, Cleaning, Pend
<1>t. /\ TypeInv /\ launcher \in Launchers /\ LauncherOK(launcher) /\ used \in Uses
      /\ PollerOK(poller) /\ \A m \in monitors : MonitorOK(m)
  BY Types DEF LaunchInv
<1>1. CASE SwitchRuntime
  <2> DEFINE l == launcher
             q == [l EXCEPT !.at = "grid"]
  <2>0. /\ l.at = "switch" /\ race' = TRUE /\ vehicle' = {} /\ launcher' = q
        /\ UNCHANGED <<stored, switching, session, elapsed, bots, docker, selected, monitors, lost,
                       poller, lock, signals, results, unwritten, fresh, used>>
    BY <1>1 DEF SwitchRuntime, LAt, LUpd, store, files
  <2>1. /\ q \in Launchers /\ q.at = "grid" /\ q.index = l.index /\ SameMarks(q, l)
        /\ SameRace(q, l) /\ q.why = l.why /\ q.seen = l.seen
    BY <1>t DEF Launchers, LauncherSteps, SameMarks, SameRace
  <2> HIDE DEF q
  <2>2. LauncherOK(q)
    BY <1>t, <2>1 DEF LauncherOK
  <2>3. TypeOK'
    BY <1>t, <2>0, <2>1 DEF TypeInv, TypeOK
  <2>4. \A c \in Cars : stored'[c] \in {stored[c], Nil}
    BY <2>0
  <2>5. QED
    BY <1>t, <2>0, <2>1, <2>2, <2>3, <2>4, WorkMoves
<1>2. CASE SwitchFails
  <2>1. /\ launcher.at = "switch" /\ launcher' = AfterFailure /\ Fault /\ lock' = Nil
        /\ race' \in {race, TRUE} /\ vehicle' \in {vehicle, {}}
        /\ UNCHANGED <<stored, switching, session, elapsed, bots, docker, selected,
                       monitors, lost, poller, signals, results, unwritten, fresh>>
    BY <1>2 DEF SwitchFails, LAt, LUpd, store, files
  <2>2. TypeOK'
    BY <1>t, <2>1, FaultIs, AfterFailureIs DEF TypeInv, TypeOK, Uses
  <2>3. QED
    BY <1>t, <2>1, <2>2, FaultIs, FailureStep
<1>3. QED
  BY <1>1, <1>2

\* The roster line the launcher reads names a team.
LEMMA LineIs ==
    ASSUME TypeInv, launcher.index <= Len(launcher.roster)
    PROVE  Line \in Teams
<1>1. /\ launcher.roster \in Rosters \cup {<<>>} /\ launcher.index \in Nat /\ launcher.index # 0
  BY Types DEF Launchers, LauncherOK
<1>2. launcher.roster \in Seq(Teams)
  BY <1>1, RaceAssumption
<1>3. QED
  BY <1>1, <1>2 DEF Line

\* A line is passed over.
LEMMA SkipStep ==
    ASSUME LaunchInv, launcher.at = "grid", NEW S \in SUBSET Teams, launcher.seen \subseteq S,
           launcher' = NextLine([launcher EXCEPT !.seen = S]), used' \in Uses,
           UNCHANGED <<race, vehicle, stored, switching, session, elapsed, bots, docker, selected,
                       monitors, lost, poller, lock, signals, results, unwritten, fresh>>
    PROVE  LaunchInv' /\ launcher'.at \notin Pend
<1> USE DEF Gridding, Cleaning, Pend
<1>t. /\ TypeInv /\ launcher \in Launchers /\ LauncherOK(launcher)
      /\ PollerOK(poller) /\ \A m \in monitors : MonitorOK(m)
  BY Types DEF LaunchInv
<1> DEFINE l == launcher
           f == [l EXCEPT !.seen = S]
           q == NextLine(f)
<1>1. f \in Launchers /\ SameMarks(f, l) /\ SameRace(f, l) /\ f.why = l.why /\ f.seen = S
  BY <1>t DEF Launchers, SameMarks, SameRace
<1>2. launcher' = q
  OBVIOUS
<1> HIDE DEF f
<1>3. /\ q \in Launchers /\ LauncherOK(q) /\ q.at = "grid"
      /\ SameMarks(q, f) /\ SameRace(q, f) /\ SameWork(q, f)
  BY <1>1, NextLineIs
<1> HIDE DEF q
<1>4. TypeOK'
  BY <1>t, <1>2, <1>3 DEF TypeInv, TypeOK, Uses
<1>5. \A c \in Cars : stored'[c] \in {stored[c], Nil}
  OBVIOUS
<1>6. /\ SameMarks(q, l) /\ SameRace(q, l) /\ q.why = l.why /\ q.seen = S
  BY <1>1, <1>3 DEF SameMarks, SameRace, SameWork
<1>7. QED
  BY <1>t, <1>2, <1>3, <1>4, <1>5, <1>6, WorkMoves

\* The roster's lines: skipped, or a car of a team that has none.
LEMMA GridSteps ==
    ASSUME LaunchInv, Grid \/ GridNoSlot
    PROVE  LaunchInv' /\ launcher'.at \notin Pend /\ used'.boxes = used.boxes
<1> USE DEF Gridding, Cleaning, Resting, Pend
<1>t. /\ TypeInv /\ launcher \in Launchers /\ LauncherOK(launcher) /\ used \in Uses
      /\ PollerOK(poller) /\ \A m \in monitors : MonitorOK(m)
      /\ vehicle \subseteq Cars /\ stored \in [Cars -> Teams \cup {Nil}]
  BY Types DEF LaunchInv
<1>o. /\ GridOK(launcher, stored) /\ SessionOK(launcher, session, results, unwritten)
      /\ SignalOK(launcher, signals, fresh, elapsed)
  BY DEF LaunchInv
<1>i. launcher.at = "grid" /\ launcher.index <= Len(launcher.roster)
  BY DEF Grid, GridNoSlot, LAt
<1>w. Line \in Teams
  BY <1>t, <1>i, LineIs
<1>s. launcher.seen \in SUBSET Teams
  BY <1>t DEF Launchers
<1> DEFINE l == launcher
           S == l.seen \cup {Line}
<1>1. CASE Grid
  <2>0. UNCHANGED <<race, switching, session, elapsed, bots, docker, selected,
                    monitors, lost, poller, lock, signals, results, unwritten, fresh>>
    BY <1>1 DEF Grid, files
  <2>1. CASE /\ \E T \in {l.seen, S} : launcher' = NextLine([l EXCEPT !.seen = T])
             /\ UNCHANGED <<vehicle, stored, used>>
    <3>1. PICK T \in {l.seen, S} : launcher' = NextLine([l EXCEPT !.seen = T])
      BY <2>1
    <3>2. T \in SUBSET Teams /\ l.seen \subseteq T
      BY <1>s, <1>w
    <3>3. QED
      BY <1>i, <1>t, <2>0, <2>1, <3>1, <3>2, SkipStep
  <2>2. CASE /\ ~(Line \in l.seen) /\ used.cars # MaxCars
             /\ used' = [used EXCEPT !.cars = used.cars + 1]
             /\ vehicle' = vehicle \cup {used.cars + 1}
             /\ stored' = [stored EXCEPT ![used.cars + 1] = Line]
             /\ launcher' = [l EXCEPT !.at = "run", !.seen = S, !.team = Line,
                                      !.cur = Entry(used.cars + 1, LowestSlot, Switching, 0)]
    <3>1. PICK c \in Cars : c = used.cars + 1 /\ c \in 0..MaxCars
      BY <1>t, <2>2, Constants DEF Uses, Cars
    <3>e. LowestSlot \in Slots /\ 0 \in 0..MaxAttempts
      BY LowestIs, Constants
    <3>2. PICK e \in Entries : e = Entry(c, LowestSlot, Switching, 0)
      <4> HIDE DEF LowestSlot
      <4>1. Entry(c, LowestSlot, Switching, 0) \in Entries
        BY <3>e DEF Entry, Entries
      <4>2. QED
        BY <4>1
    <3> DEFINE q == [l EXCEPT !.at = "run", !.seen = S, !.team = Line, !.cur = e]
    <3>3. launcher' = q
      BY <2>2, <3>1, <3>2
    <3> HIDE DEF S
    <3>4. S \in SUBSET Teams
      BY <1>s, <1>w DEF S
    <3>5. /\ q \in Launchers /\ q.at = "run" /\ q.index = l.index /\ SameMarks(q, l)
          /\ SameRace(q, l) /\ q.why = l.why /\ q.seen = S /\ q.team = Line /\ q.cur = e
      BY <1>t, <1>w, <3>4 DEF Launchers, LauncherSteps, SameMarks, SameRace
    <3> HIDE DEF q
    <3>6. LauncherOK(q)
      BY <1>t, <1>w, <3>5 DEF LauncherOK
    <3>7. used' \in Uses /\ used'.boxes = used.boxes
      BY <1>t, <2>2, <3>1 DEF Uses
    <3>8. vehicle' \subseteq Cars /\ stored' \in [Cars -> Teams \cup {Nil}]
          /\ stored' = [stored EXCEPT ![c] = Line]
      BY <1>t, <1>w, <2>2, <3>1
    <3>9. TypeInv'
      BY <1>t, <2>0, <3>3, <3>5, <3>6, <3>7, <3>8 DEF TypeInv, TypeOK, Uses
    <3>10. GridOK(q, stored')
      <4>1. \A d \in Cars : stored[d] # Nil => stored[d] \in l.seen /\ stored[d] # Line
        BY <1>i, <1>o, <2>2 DEF GridOK
      <4>2. \A d \in Cars : stored'[d] = IF d = c THEN Line ELSE stored[d]
        BY <1>t, <3>8
      <4>3. \A d, x \in Cars : stored'[d] # Nil /\ stored'[d] = stored'[x] => d = x
        BY <1>o, <4>1, <4>2 DEF GridOK
      <4>4. \A d \in Cars : stored'[d] # Nil => stored'[d] \in S
        BY <4>1, <4>2 DEF S
      <4>5. QED
        BY <3>5, <4>3, <4>4 DEF GridOK
    <3>11. SessionOK(q, session, results, unwritten)
      BY <1>i, <1>o, <3>5 DEF SessionOK, SameRace
    <3>12. SignalOK(q, signals, fresh, elapsed)
      BY <1>i, <1>o, <3>5 DEF SignalOK, SameMarks
    <3>13. QED
      BY <2>0, <3>3, <3>5, <3>7, <3>9, <3>10, <3>11, <3>12 DEF LaunchInv
  <2>3. QED
    <3>1. CASE launcher.index > StartSlots \/ Line \in launcher.seen \/ ~race \/ used.cars = MaxCars
      BY <1>1, <2>1, <3>1 DEF Grid, LUpd
    <3>2. CASE ~(launcher.index > StartSlots \/ Line \in launcher.seen \/ ~race \/ used.cars = MaxCars)
      BY <1>1, <2>2, <3>2 DEF Grid, LUpd
    <3>3. QED
      BY <3>1, <3>2
<1>2. CASE GridNoSlot
  <2>0. /\ Fault
        /\ UNCHANGED <<race, vehicle, stored, switching, session, elapsed, bots, docker, selected,
                       monitors, lost, poller, signals, results, unwritten, fresh>>
    BY <1>2 DEF GridNoSlot, engine, store, files
  <2>f. used' \in Uses /\ used'.boxes = used.boxes
    BY <1>t, <2>0, FaultIs
  <2>1. CASE launcher' = NextLine([l EXCEPT !.seen = S]) /\ UNCHANGED lock
    <3>1. S \in SUBSET Teams /\ l.seen \subseteq S
      BY <1>s, <1>w
    <3> HIDE DEF S
    <3>2. QED
      BY <1>i, <2>0, <2>1, <2>f, <3>1, SkipStep
  <2>2. CASE launcher' = AfterFailure /\ lock' = Nil
    <3>1. TypeOK'
      BY <1>t, <2>0, <2>2, <2>f, AfterFailureIs DEF TypeInv, TypeOK, Uses
    <3>2. QED
      BY <1>i, <2>0, <2>2, <2>f, <3>1, FailureStep
  <2>3. QED
    BY <1>2, <2>1, <2>2 DEF GridNoSlot, LUpd
<1>3. QED
  BY <1>1, <1>2

\* A monitor at its start.
LEMMA MonitorIs ==
    ASSUME NEW t \in Teams, NEW b \in Boxes
    PROVE  /\ Monitor(t, b) \in Monitors /\ MonitorOK(Monitor(t, b))
           /\ Monitor(t, b).team = t /\ Monitor(t, b).box = b /\ Monitor(t, b).at = "wait"
BY DEF Monitor, Monitors, MonitorSteps, MonitorOK

\* The locals after the bot of a line was started.
LEMMA RunIs ==
    ASSUME TypeInv, launcher.at = "run", NEW b \in Boxes
    PROVE  LET q == [launcher EXCEPT !.at = "follow", !.cur.box = b]
           IN  /\ q \in Launchers /\ LauncherOK(q) /\ q.at = "follow" /\ q.cur.box = b
               /\ q.team = launcher.team /\ SameMarks(q, launcher) /\ SameRace(q, launcher)
               /\ SameWork(q, launcher)
<1>t. launcher \in Launchers /\ LauncherOK(launcher) /\ launcher.cur \in Entries /\ launcher.team \in Teams
  BY Types DEF LauncherOK
<1> DEFINE l == launcher
           c == l.cur
<1>1. PICK e \in Entries : e = [c EXCEPT !.box = b]
  BY <1>t DEF Entries
<1>2. e.box = b
  BY <1>1, <1>t DEF Entries
<1> DEFINE q == [l EXCEPT !.at = "follow", !.cur = e]
<1>3. [launcher EXCEPT !.at = "follow", !.cur.box = b] = q
  BY <1>1, <1>t DEF Launchers
<1>4. /\ q \in Launchers /\ q.at = "follow" /\ q.cur = e /\ q.team = l.team /\ q.index = l.index
      /\ SameMarks(q, l) /\ SameRace(q, l) /\ SameWork(q, l)
  BY <1>t DEF Launchers, LauncherSteps, SameMarks, SameRace, SameWork
<1> HIDE DEF q
<1>5. LauncherOK(q)
  BY <1>2, <1>4, <1>t DEF LauncherOK
<1>6. QED
  BY <1>2, <1>3, <1>4, <1>5

\* The bot of a line is started and registered, or its car is taken back.
LEMMA LineSteps ==
    ASSUME LaunchInv, Run \/ LaunchFollow \/ LaunchSelect \/ Undo
    PROVE  LaunchInv'
<1> USE DEF Gridding, Cleaning
<1>t. /\ TypeInv /\ launcher \in Launchers /\ LauncherOK(launcher) /\ used \in Uses
      /\ bots \in [Teams -> Entries \cup {Nil}] /\ docker \in [Teams -> Containers \cup {Nil}]
      /\ PollerOK(poller) /\ \A m \in monitors : MonitorOK(m)
      /\ selected \in [Teams -> Slots \cup {Nil}] /\ monitors \subseteq Monitors
      /\ vehicle \subseteq Cars /\ stored \in [Cars -> Teams \cup {Nil}]
  BY Types DEF LaunchInv
<1> DEFINE l == launcher
<1>e. l.cur \in Entries /\ l.cur.car \in Cars /\ l.cur.slot \in Slots /\ l.team \in Teams
  <2>1. l.at \in {"run", "follow", "select", "undo"}
    BY DEF Run, LaunchFollow, LaunchSelect, Undo, LAt
  <2>2. l.cur \in Entries /\ l.team \in Teams
    BY <1>t, <2>1 DEF LauncherOK
  <2>3. QED
    BY <2>2 DEF Entries
<1>1. CASE Run
  <2>0. /\ l.at = "run"
        /\ UNCHANGED <<race, vehicle, stored, switching, session, elapsed, bots, selected, monitors, lost,
                       poller, lock, signals, results, unwritten, fresh>>
    BY <1>1 DEF Run, LAt, engine, store, files
  <2>s. \A c \in Cars : stored'[c] \in {stored[c], Nil}
    BY <2>0
  <2>1. CASE /\ StartContainer(l.team, l.cur.slot)
             /\ launcher' = [l EXCEPT !.at = "follow", !.cur.box = used'.boxes]
    <3>1. /\ used' \in Uses /\ used'.boxes \in Boxes /\ docker' \in [Teams -> Containers \cup {Nil}]
      BY <1>e, <1>t, <2>1, StartIs
    <3>2. PICK b \in Boxes : b = used'.boxes
      BY <3>1
    <3> DEFINE q == [l EXCEPT !.at = "follow", !.cur.box = b]
    <3>3. /\ q \in Launchers /\ LauncherOK(q) /\ q.at = "follow" /\ SameMarks(q, l)
          /\ SameRace(q, l) /\ SameWork(q, l)
      BY <1>t, <2>0, RunIs
    <3>4. launcher' = q
      BY <2>1, <3>2
    <3> HIDE DEF q
    <3>5. TypeOK'
      BY <1>t, <2>0, <3>1, <3>3, <3>4 DEF TypeInv, TypeOK, Containers, Uses
    <3>6. QED
      BY <1>t, <2>0, <2>s, <3>3, <3>4, <3>5, WorkMoves DEF SameWork
  <2>2. CASE /\ launcher' = [l EXCEPT !.at = "undo"]
             /\ \/ UNCHANGED <<docker, used>>
                \/ Fault /\ docker' \in {docker, [docker EXCEPT ![l.team] = Nil]}
    <3>1. used' \in Uses /\ docker' \in [Teams -> Containers \cup {Nil}]
      BY <1>t, <2>2, FaultIs
    <3> DEFINE q == [l EXCEPT !.at = "undo"]
    <3>2. /\ q \in Launchers /\ q.at = "undo" /\ SameMarks(q, l) /\ SameRace(q, l) /\ SameWork(q, l)
          /\ q.index = l.index /\ q.team = l.team /\ q.cur = l.cur
      BY <1>t DEF Launchers, LauncherSteps, SameMarks, SameRace, SameWork
    <3>3. launcher' = q
      BY <2>2
    <3> HIDE DEF q
    <3>4. LauncherOK(q)
      BY <1>e, <1>t, <3>2 DEF LauncherOK
    <3>5. TypeOK'
      BY <1>t, <2>0, <3>1, <3>2, <3>3 DEF TypeInv, TypeOK, Containers, Uses
    <3>6. QED
      BY <1>t, <2>0, <2>s, <3>2, <3>3, <3>4, <3>5, WorkMoves DEF SameWork
  <2>3. QED
    BY <1>1, <2>1, <2>2 DEF Run, LUpd
<1>2. CASE LaunchFollow
  <2>0. /\ l.at = "follow" /\ launcher' = [l EXCEPT !.at = "select"]
        /\ bots' = [bots EXCEPT ![l.team] = l.cur]
        /\ UNCHANGED <<race, vehicle, stored, switching, session, elapsed, docker, selected, monitors, lost,
                       poller, lock, signals, results, unwritten, fresh, used>>
    BY <1>2 DEF LaunchFollow, LAt, LUpd, Insert, engine, store, files
  <2> DEFINE q == [l EXCEPT !.at = "select"]
  <2>1. /\ q \in Launchers /\ q.at = "select" /\ SameMarks(q, l) /\ SameRace(q, l) /\ SameWork(q, l)
        /\ q.index = l.index /\ q.team = l.team /\ q.cur = l.cur
    BY <1>t DEF Launchers, LauncherSteps, SameMarks, SameRace, SameWork
  <2>2. launcher' = q
    BY <2>0
  <2> HIDE DEF q
  <2>3. LauncherOK(q)
    BY <1>e, <1>t, <2>0, <2>1 DEF LauncherOK
  <2>4. bots' \in [Teams -> Entries \cup {Nil}]
    BY <1>e, <1>t, <2>0
  <2>5. TypeOK'
    BY <1>t, <2>0, <2>1, <2>2, <2>4 DEF TypeInv, TypeOK
  <2>6. \A c \in Cars : stored'[c] \in {stored[c], Nil}
    BY <2>0
  <2>7. QED
    BY <1>t, <2>0, <2>1, <2>2, <2>3, <2>5, <2>6, WorkMoves DEF SameWork
<1>3. CASE LaunchSelect
  <2>0. /\ l.at = "select" /\ launcher' = NextLine(l)
        /\ \/ selected' = [selected EXCEPT ![l.team] = l.cur.slot] /\ UNCHANGED used
           \/ Fault /\ UNCHANGED selected
        /\ monitors' = monitors \cup {Monitor(l.team, l.cur.box)}
        /\ UNCHANGED <<race, vehicle, stored, switching, session, elapsed, bots, docker, lost,
                       poller, lock, signals, results, unwritten, fresh>>
    BY <1>3 DEF LaunchSelect, LAt, LUpd, engine, store, files
  <2> DEFINE q == NextLine(l)
  <2>1. /\ q \in Launchers /\ LauncherOK(q) /\ q.at = "grid"
        /\ SameMarks(q, l) /\ SameRace(q, l) /\ SameWork(q, l)
    BY <1>t, NextLineIs
  <2>2. launcher' = q
    BY <2>0
  <2> HIDE DEF q
  <2>3. used' \in Uses /\ selected' \in [Teams -> Slots \cup {Nil}]
    BY <1>e, <1>t, <2>0, FaultIs
  <2>4. l.cur.box \in Boxes
    BY <1>t, <2>0 DEF LauncherOK
  <2>5. monitors' \subseteq Monitors /\ \A m \in monitors' : MonitorOK(m)
    BY <1>e, <1>t, <2>0, <2>4, MonitorIs
  <2>6. TypeOK'
    BY <1>t, <2>0, <2>1, <2>2, <2>3, <2>5 DEF TypeInv, TypeOK, Uses
  <2>7. \A c \in Cars : stored'[c] \in {stored[c], Nil}
    BY <2>0
  <2>8. QED
    BY <1>t, <2>0, <2>1, <2>2, <2>5, <2>6, <2>7, WorkMoves DEF SameWork
<1>4. CASE Undo
  <2>0. /\ l.at = "undo" /\ launcher' = NextLine(l) /\ ForgetCar(l.cur.car)
        /\ vehicle' = vehicle \ {l.cur.car}
        /\ UNCHANGED <<race, session, elapsed, bots, docker, selected, monitors, lost,
                       poller, lock, signals, results, unwritten, fresh, used>>
    BY <1>4 DEF Undo, LAt, LUpd, ForgetCar, files
  <2> DEFINE q == NextLine(l)
  <2>1. /\ q \in Launchers /\ LauncherOK(q) /\ q.at = "grid"
        /\ SameMarks(q, l) /\ SameRace(q, l) /\ SameWork(q, l)
    BY <1>t, NextLineIs
  <2>2. launcher' = q
    BY <2>0
  <2> HIDE DEF q
  <2>3. /\ stored' \in [Cars -> Teams \cup {Nil}] /\ switching' \subseteq Cars
        /\ \A c \in Cars : stored'[c] \in {stored[c], Nil}
    BY <1>e, <1>t, <2>0, ForgetIs
  <2>4. TypeOK'
    BY <1>t, <2>0, <2>1, <2>2, <2>3 DEF TypeInv, TypeOK
  <2>5. QED
    BY <1>t, <2>0, <2>1, <2>2, <2>3, <2>4, WorkMoves DEF SameWork
<1>5. QED
  BY <1>1, <1>2, <1>3, <1>4

\* The prepared session is published and its results begin.
LEMMA RecordStep ==
    ASSUME LaunchInv, Record
    PROVE  LaunchInv' /\ launcher'.at \notin Pend /\ used'.boxes = used.boxes
<1> USE DEF Gridding, Cleaning, Resting, Pend
<1>t. /\ TypeInv /\ launcher \in Launchers /\ LauncherOK(launcher) /\ used \in Uses
      /\ results \in [Sessions -> {"absent", "running", "finalized"}] /\ unwritten \subseteq Sessions
  BY Types DEF LaunchInv
<1>o. /\ GridOK(launcher, stored) /\ SessionOK(launcher, session, results, unwritten)
      /\ SignalOK(launcher, signals, fresh, elapsed)
  BY DEF LaunchInv
<1> DEFINE l == launcher
<1>0. /\ l.at = "grid" /\ session' = "prepared" /\ elapsed' = FALSE /\ lock' = Nil
      /\ used.sessions < MaxSignals
      /\ UNCHANGED <<race, vehicle, stored, switching, bots, docker, selected, monitors, lost,
                     poller, signals, fresh>>
  BY DEF Record, LAt, engine
<1>n. PICK n \in Sessions : n = used.sessions + 1 /\ n \in 0..MaxSignals
  BY <1>0, <1>t, Constants DEF Uses, Sessions
<1>m. n # Nil
  BY Constants
<1>1. CASE /\ results' = [results EXCEPT ![used.sessions + 1] = "running"]
           /\ used' = [used EXCEPT !.sessions = used.sessions + 1]
           /\ launcher' = AfterPrepare([Idle EXCEPT !.prepared = TRUE, !.started = FALSE,
                                                    !.rec = used.sessions + 1])
           /\ UNCHANGED unwritten
  <2> DEFINE i == Idle
             f == [i EXCEPT !.prepared = TRUE, !.started = FALSE, !.rec = n]
             q == AfterPrepare(f)
  <2>0. /\ i \in Launchers /\ i.index = 1 /\ i.why = "prepare"
        /\ i.saw = l.saw /\ i.prev = l.prev
    BY <1>t, IdleIs DEF SameRace, SameMarks
  <2>1. launcher' = q
    BY <1>1, <1>n
  <2> HIDE DEF i
  <2>2. f \in Launchers
    BY <2>0, <1>n DEF Launchers
  <2>3. /\ f.index = 1 /\ f.saw = l.saw /\ f.prev = l.prev /\ f.rec = n
        /\ f.prepared = TRUE /\ f.started = FALSE /\ f.why = "prepare"
    BY <2>0 DEF Launchers
  <2> HIDE DEF f
  <2>4. /\ q \in Launchers /\ LauncherOK(q) /\ SameMarks(q, f) /\ SameRace(q, f)
        /\ \/ q.at = "tail" /\ q.why = f.why
           \/ q.at = "load" /\ q.why = "implicit" /\ ~f.prepared
           \/ /\ q.at = "refresh" /\ q.why = f.why
              /\ f.prepared /\ ~f.started /\ f.saw.start /\ ~f.prev.start
    BY <1>t, <2>2, <2>3, AfterPrepareIs
  <2> HIDE DEF q
  <2>5. /\ used' \in Uses /\ used'.boxes = used.boxes
        /\ results' = [results EXCEPT ![n] = "running"]
    BY <1>1, <1>n, <1>t DEF Uses
  <2>6. results' \in [Sessions -> {"absent", "running", "finalized"}]
        /\ \A s \in Sessions : results'[s] = IF s = n THEN "running" ELSE results[s]
    BY <1>t, <2>5
  <2>7. TypeInv'
    BY <1>0, <1>1, <1>t, <2>1, <2>4, <2>5, <2>6 DEF TypeInv, TypeOK, Uses
  <2>8. GridOK(q, stored)
    BY <1>o, <2>3, <2>4 DEF GridOK
  <2>9. SessionOK(q, "prepared", results', unwritten)
    <3>0. /\ q.rec = n /\ q.prepared = TRUE /\ q.started = FALSE /\ q.why = "prepare"
          /\ q.at \in {"tail", "refresh"}
      BY <2>3, <2>4 DEF SameRace
    <3>1. \A s \in Sessions : results'[s] = "running" => s = q.rec \/ s \in unwritten
      BY <1>0, <1>o, <2>6, <3>0, Constants DEF SessionOK
    <3>2. QED
      BY <1>m, <2>6, <3>0, <3>1 DEF SessionOK
  <2>10. SignalOK(q, signals, fresh, elapsed')
    BY <1>0, <1>o, <2>3, <2>4 DEF SignalOK, SameMarks
  <2>11. QED
    BY <1>0, <1>1, <2>1, <2>3, <2>4, <2>5, <2>7, <2>8, <2>9, <2>10 DEF LaunchInv
<1>2. CASE /\ used.faults < MaxFaults
           /\ used' = [used EXCEPT !.faults = used.faults + 1, !.sessions = used.sessions + 1]
           /\ \E status \in {"absent", "running"} :
                results' = [results EXCEPT ![used.sessions + 1] = status]
           /\ unwritten' = unwritten \cup {used.sessions + 1}
           /\ launcher' = AfterFailure
  <2>1. PICK k \in 0..MaxFaults : k = used.faults + 1
    BY <1>2, <1>t, Constants DEF Uses
  <2>2. used' = [used EXCEPT !.faults = k, !.sessions = n]
    BY <1>2, <1>n, <2>1
  <2>3. used' \in Uses /\ used'.boxes = used.boxes
    BY <1>n, <1>t, <2>1, <2>2 DEF Uses
  <2>4. PICK status \in {"absent", "running"} : results' = [results EXCEPT ![n] = status]
    BY <1>2, <1>n
  <2>5. /\ results' \in [Sessions -> {"absent", "running", "finalized"}]
        /\ unwritten' \subseteq Sessions /\ unwritten \subseteq unwritten'
        /\ \A s \in Sessions : results'[s] = "running" => results[s] = "running" \/ s \in unwritten'
    BY <1>2, <1>n, <1>t, <2>4
  <2>6. TypeOK'
    BY <1>0, <1>2, <1>t, <2>3, <2>5, AfterFailureIs DEF TypeInv, TypeOK, Uses
  <2>7. QED
    BY <1>0, <1>2, <2>3, <2>5, <2>6, FailureStep
<1>3. QED
  BY <1>1, <1>2 DEF Record, LUpd

\* The locals while the bots are started again before the race.
LEMMA RefreshIs ==
    ASSUME TypeInv, launcher.at = "refresh", NEW w \in launcher.todo, NEW b \in Boxes
    PROVE  LET q == [launcher EXCEPT !.at = "refollow", !.team = w.team,
                       !.todo = launcher.todo \ {w},
                       !.cur = [w.entry EXCEPT !.box = b, !.attempts = 0]]
           IN  /\ q \in Launchers /\ LauncherOK(q) /\ q.at = "refollow" /\ q.cur.box = b
               /\ q.team = w.team /\ SameMarks(q, launcher) /\ SameRace(q, launcher)
               /\ SameWork(q, launcher)
<1>t. launcher \in Launchers /\ LauncherOK(launcher)
  BY Types
<1>w. w.team \in Teams /\ w.entry \in Entries /\ launcher.todo \in SUBSET [team: Teams, entry: Entries]
  BY <1>t DEF Launchers
<1> DEFINE l == launcher
           c == w.entry
           T == l.todo \ {w}
<1>T. T \in SUBSET [team: Teams, entry: Entries]
  BY <1>w
<1>z. 0 \in 0..MaxAttempts
  BY Constants
<1>1. PICK e \in Entries : e = [c EXCEPT !.box = b, !.attempts = 0]
  <2> HIDE DEF c
  <2>1. c \in Entries
    BY <1>w DEF c
  <2>2. [c EXCEPT !.box = b, !.attempts = 0] \in Entries
    BY <1>z, <2>1 DEF Entries
  <2>3. QED
    BY <2>2
<1>2. e.box = b
  BY <1>1, <1>w DEF Entries
<1> DEFINE q == [l EXCEPT !.at = "refollow", !.team = w.team, !.todo = T, !.cur = e]
<1>3. [launcher EXCEPT !.at = "refollow", !.team = w.team, !.todo = launcher.todo \ {w},
                       !.cur = [w.entry EXCEPT !.box = b, !.attempts = 0]] = q
  BY <1>1
<1> HIDE DEF T, l
<1>4. /\ q \in Launchers /\ q.at = "refollow" /\ q.cur = e /\ q.team = w.team /\ q.index = l.index
      /\ SameMarks(q, l) /\ SameRace(q, l) /\ SameWork(q, l)
  <2>1. l \in Launchers
    BY <1>t DEF l
  <2>2. QED
    BY <1>T, <1>w, <2>1 DEF Launchers, LauncherSteps, SameMarks, SameRace, SameWork
<1> HIDE DEF q
<1>5. LauncherOK(q)
  BY <1>2, <1>4, <1>t, <1>w DEF LauncherOK, l
<1>6. QED
  BY <1>2, <1>3, <1>4, <1>5 DEF l

\* The bots are started again before the race.
LEMMA RefreshSteps ==
    ASSUME LaunchInv, Refresh \/ Refollow
    PROVE  LaunchInv'
<1> USE DEF Gridding, Cleaning
<1>t. /\ TypeInv /\ launcher \in Launchers /\ LauncherOK(launcher) /\ used \in Uses
      /\ bots \in [Teams -> Entries \cup {Nil}] /\ docker \in [Teams -> Containers \cup {Nil}]
      /\ PollerOK(poller) /\ \A m \in monitors : MonitorOK(m) /\ monitors \subseteq Monitors
  BY Types DEF LaunchInv
<1> DEFINE l == launcher
<1>1. CASE Refresh
  <2>0. /\ l.at = "refresh"
        /\ UNCHANGED <<race, vehicle, stored, switching, session, elapsed, bots, selected, monitors, lost,
                       poller, lock, signals, results, unwritten, fresh>>
    BY <1>1 DEF Refresh, LAt, engine, store, files
  <2>s. \A c \in Cars : stored'[c] \in {stored[c], Nil}
    BY <2>0
  <2>w. PICK w \in l.todo :
          \/ /\ StartContainer(w.team, w.entry.slot)
             /\ launcher' = [l EXCEPT !.at = "refollow", !.team = w.team, !.todo = l.todo \ {w},
                               !.cur = [w.entry EXCEPT !.box = used'.boxes, !.attempts = 0]]
          \/ /\ StartFails(w.team, w.entry.slot)
             /\ launcher' = [l EXCEPT !.todo = l.todo \ {w}]
    BY <1>1 DEF Refresh, LUpd
  <2>e. w.team \in Teams /\ w.entry.slot \in Slots
    <3>1. w.team \in Teams /\ w.entry \in Entries
      BY <1>t DEF Launchers
    <3>2. QED
      BY <3>1 DEF Entries
  <2>1. CASE /\ StartContainer(w.team, w.entry.slot)
             /\ launcher' = [l EXCEPT !.at = "refollow", !.team = w.team, !.todo = l.todo \ {w},
                               !.cur = [w.entry EXCEPT !.box = used'.boxes, !.attempts = 0]]
    <3>1. /\ used' \in Uses /\ used'.boxes \in Boxes /\ docker' \in [Teams -> Containers \cup {Nil}]
      BY <1>t, <2>1, <2>e, StartIs
    <3>2. PICK b \in Boxes : b = used'.boxes
      BY <3>1
    <3> DEFINE q == [l EXCEPT !.at = "refollow", !.team = w.team, !.todo = l.todo \ {w},
                              !.cur = [w.entry EXCEPT !.box = b, !.attempts = 0]]
    <3>3. /\ q \in Launchers /\ LauncherOK(q) /\ q.at = "refollow" /\ SameMarks(q, l)
          /\ SameRace(q, l) /\ SameWork(q, l)
      BY <1>t, <2>0, RefreshIs
    <3>4. launcher' = q
      BY <2>1, <3>2
    <3> HIDE DEF q
    <3>5. TypeOK'
      BY <1>t, <2>0, <3>1, <3>3, <3>4 DEF TypeInv, TypeOK, Containers, Uses
    <3>6. QED
      BY <1>t, <2>0, <2>s, <3>3, <3>4, <3>5, WorkMoves DEF SameWork
  <2>2. CASE /\ StartFails(w.team, w.entry.slot)
             /\ launcher' = [l EXCEPT !.todo = l.todo \ {w}]
    <3>1. /\ used' \in Uses /\ docker' \in [Teams -> Containers \cup {Nil}]
      BY <1>t, <2>2, <2>e, StartFailsIs
    <3> DEFINE q == [l EXCEPT !.todo = l.todo \ {w}]
    <3>2. /\ q \in Launchers /\ q.at = l.at /\ SameMarks(q, l) /\ SameRace(q, l) /\ SameWork(q, l)
          /\ q.index = l.index
      BY <1>t DEF Launchers, SameMarks, SameRace, SameWork
    <3>3. launcher' = q
      BY <2>2
    <3> HIDE DEF q
    <3>4. LauncherOK(q)
      BY <1>t, <2>0, <3>2 DEF LauncherOK
    <3>5. TypeOK'
      BY <1>t, <2>0, <3>1, <3>2, <3>3 DEF TypeInv, TypeOK, Containers, Uses
    <3>6. QED
      BY <1>t, <2>0, <2>s, <3>2, <3>3, <3>4, <3>5, WorkMoves DEF SameWork
  <2>3. QED
    BY <2>1, <2>2, <2>w
<1>2. CASE Refollow
  <2>0. /\ l.at = "refollow" /\ bots' = [bots EXCEPT ![l.team] = l.cur]
        /\ monitors' = monitors \cup {Monitor(l.team, l.cur.box)}
        /\ launcher' = [l EXCEPT !.at = "refresh", !.team = Nil, !.cur = Nil]
        /\ UNCHANGED <<race, vehicle, stored, switching, session, elapsed, docker, selected, lost,
                       poller, lock, signals, results, unwritten, fresh, used>>
    BY <1>2 DEF Refollow, LAt, LUpd, Insert, engine, store, files
  <2>e. l.cur \in Entries /\ l.team \in Teams /\ l.cur.box \in Boxes
    BY <1>t, <2>0 DEF LauncherOK
  <2> DEFINE q == [l EXCEPT !.at = "refresh", !.team = Nil, !.cur = Nil]
  <2>1. /\ q \in Launchers /\ q.at = "refresh" /\ SameMarks(q, l) /\ SameRace(q, l) /\ SameWork(q, l)
        /\ q.index = l.index
    BY <1>t DEF Launchers, LauncherSteps, SameMarks, SameRace, SameWork
  <2>2. launcher' = q
    BY <2>0
  <2> HIDE DEF q
  <2>3. LauncherOK(q)
    BY <1>t, <2>1 DEF LauncherOK
  <2>4. bots' \in [Teams -> Entries \cup {Nil}]
    BY <1>t, <2>0, <2>e
  <2>5. monitors' \subseteq Monitors /\ \A m \in monitors' : MonitorOK(m)
    BY <1>t, <2>0, <2>e, MonitorIs
  <2>6. TypeOK'
    BY <1>t, <2>0, <2>1, <2>2, <2>4, <2>5 DEF TypeInv, TypeOK
  <2>7. \A c \in Cars : stored'[c] \in {stored[c], Nil}
    BY <2>0
  <2>8. QED
    BY <1>t, <2>0, <2>1, <2>2, <2>3, <2>5, <2>6, <2>7, WorkMoves DEF SameWork
<1>3. QED
  BY <1>1, <1>2

\* The race starts.
LEMMA GoStep ==
    ASSUME LaunchInv, Go
    PROVE  LaunchInv' /\ launcher'.at \notin Pend /\ used'.boxes = used.boxes
<1> USE DEF Gridding, Cleaning, Resting, Pend
<1>t. /\ TypeInv /\ launcher \in Launchers /\ LauncherOK(launcher)
  BY Types DEF LaunchInv
<1>o. /\ GridOK(launcher, stored) /\ SessionOK(launcher, session, results, unwritten)
      /\ SignalOK(launcher, signals, fresh, elapsed)
  BY DEF LaunchInv
<1> DEFINE l == launcher
           q == [l EXCEPT !.at = "tail", !.started = TRUE]
<1>0. /\ l.at = "refresh" /\ session' = "started" /\ elapsed' = FALSE /\ fresh' = FALSE
      /\ launcher' = q
      /\ UNCHANGED <<race, vehicle, stored, switching, bots, docker, selected, monitors, lost,
                     poller, lock, signals, results, unwritten, used>>
  BY DEF Go, LAt, LUpd, engine
<1>1. /\ q \in Launchers /\ q.at = "tail" /\ SameMarks(q, l) /\ q.index = l.index
      /\ q.prepared = l.prepared /\ q.rec = l.rec /\ q.started = TRUE /\ q.why = l.why
  BY <1>t DEF Launchers, LauncherSteps, SameMarks
<1> HIDE DEF q
<1>2. LauncherOK(q)
  BY <1>t, <1>1 DEF LauncherOK
<1>3. TypeInv'
  BY <1>t, <1>0, <1>1, <1>2 DEF TypeInv, TypeOK
<1>4. GridOK(q, stored)
  BY <1>o, <1>1 DEF GridOK
<1>5. SessionOK(q, "started", results, unwritten)
  BY <1>o, <1>0, <1>1 DEF SessionOK
<1>6. SignalOK(q, signals, fresh', elapsed')
  BY <1>o, <1>0, <1>1 DEF SignalOK, SameMarks
<1>7. QED
  BY <1>0, <1>1, <1>3, <1>4, <1>5, <1>6 DEF LaunchInv

\* A session given up or over, and the end of a tick.
LEMMA TailSteps ==
    ASSUME LaunchInv, TickTail \/ Shutdown
    PROVE  LaunchInv' /\ launcher'.at \notin Pend /\ used'.boxes = used.boxes
<1> USE DEF Gridding, Cleaning, Resting, Pend
<1>t. /\ TypeInv /\ launcher \in Launchers /\ LauncherOK(launcher) /\ NoMarks \in Marks
      /\ launcher.saw \in Marks /\ elapsed \in BOOLEAN
  BY Types DEF LaunchInv, NoMarks, Marks, Launchers
<1>o. /\ GridOK(launcher, stored) /\ SessionOK(launcher, session, results, unwritten)
      /\ SignalOK(launcher, signals, fresh, elapsed)
  BY DEF LaunchInv
<1> DEFINE l == launcher
<1>0. UNCHANGED <<race, vehicle, stored, switching, bots, docker, selected, monitors, lost,
                  poller, lock, signals, fresh>>
  BY DEF TickTail, Shutdown, engine
<1>1. CASE /\ l.at = "tail" /\ TimeIsUp /\ Finalize /\ UNCHANGED <<session, elapsed>>
           /\ launcher' = [l EXCEPT !.at = "close", !.rec = Nil]
  <2> DEFINE q == [l EXCEPT !.at = "close", !.rec = Nil]
  <2>1. /\ q \in Launchers /\ q.at = "close" /\ q.rec = Nil /\ SameMarks(q, l)
        /\ q.prepared = l.prepared /\ q.why = l.why /\ q.index = l.index
    BY <1>t DEF Launchers, LauncherSteps, SameMarks
  <2>2. launcher' = q
    BY <1>1
  <2> HIDE DEF q
  <2>3. LauncherOK(q)
    BY <1>t, <2>1 DEF LauncherOK
  <2>4. TypeInv'
    BY <1>0, <1>1, <1>t, <2>1, <2>2, <2>3, FinalizeIs DEF TypeInv, TypeOK, Uses
  <2>5. GridOK(q, stored)
    BY <1>o, <2>1 DEF GridOK
  <2>6. SessionOK(q, session, results', unwritten')
    BY <1>1, <1>o, <1>t, <2>1, FinalizeIs DEF SessionOK
  <2>7. SignalOK(q, signals, fresh, elapsed)
    BY <1>1, <1>o, <1>t, <2>1 DEF SignalOK, SameMarks, TimeIsUp
  <2>8. QED
    BY <1>0, <1>1, <1>t, <2>1, <2>2, <2>4, <2>5, <2>6, <2>7, FinalizeIs DEF LaunchInv
<1>2. CASE /\ l.at = "tail" /\ Finalize /\ session' = "none" /\ elapsed' = FALSE
           /\ launcher' = [l EXCEPT !.at = "tick", !.prev = l.saw, !.saw = NoMarks, !.rec = Nil,
                                    !.prepared = FALSE, !.started = FALSE]
  <2> DEFINE q == [l EXCEPT !.at = "tick", !.prev = l.saw, !.saw = NoMarks, !.rec = Nil,
                            !.prepared = FALSE, !.started = FALSE]
  <2>1. q \in Launchers
    BY <1>t DEF Launchers, LauncherSteps
  <2>2. launcher' = q
    BY <1>2
  <2>3. /\ q.at = "tick" /\ q.rec = Nil /\ q.prev = l.saw
        /\ q.prepared = FALSE /\ q.why = l.why /\ q.index = l.index
    BY <1>t DEF Launchers
  <2> HIDE DEF q
  <2>4. LauncherOK(q)
    BY <1>t, <2>3 DEF LauncherOK
  <2>5. TypeInv'
    BY <1>0, <1>2, <1>t, <2>1, <2>2, <2>4, FinalizeIs DEF TypeInv, TypeOK, Uses
  <2>6. GridOK(q, stored)
    BY <1>o, <2>3 DEF GridOK
  <2>7. SessionOK(q, "none", results', unwritten')
    BY <1>2, <1>o, <1>t, <2>3, FinalizeIs DEF SessionOK
  <2>8. SignalOK(q, signals, fresh, FALSE)
    BY <1>2, <1>o, <2>3 DEF SignalOK
  <2>9. QED
    BY <1>0, <1>2, <1>t, <2>2, <2>3, <2>5, <2>6, <2>7, <2>8, FinalizeIs DEF LaunchInv
<1>3. CASE /\ l.at = "tail" /\ UNCHANGED <<session, elapsed, results, unwritten, used>>
           /\ launcher' = [l EXCEPT !.at = "tick", !.prev = l.saw, !.saw = NoMarks]
  <2> DEFINE q == [l EXCEPT !.at = "tick", !.prev = l.saw, !.saw = NoMarks]
  <2>1. q \in Launchers
    BY <1>t DEF Launchers, LauncherSteps
  <2>2. launcher' = q
    BY <1>3
  <2>3. q.at = "tick" /\ SameRace(q, l) /\ q.prev = l.saw /\ q.why = l.why /\ q.index = l.index
    BY <1>t DEF Launchers, SameRace
  <2> HIDE DEF q
  <2>4. LauncherOK(q)
    BY <1>t, <2>3 DEF LauncherOK
  <2>5. TypeInv'
    BY <1>0, <1>3, <1>t, <2>1, <2>2, <2>4 DEF TypeInv, TypeOK
  <2>6. GridOK(q, stored)
    BY <1>o, <2>3 DEF GridOK
  <2>7. SessionOK(q, session, results, unwritten)
    BY <1>3, <1>o, <2>3 DEF SessionOK, SameRace
  <2>8. SignalOK(q, signals, fresh, elapsed)
    BY <1>3, <1>o, <2>3 DEF SignalOK
  <2>9. QED
    BY <1>0, <1>3, <2>2, <2>3, <2>5, <2>6, <2>7, <2>8 DEF LaunchInv
<1>4. CASE Shutdown
  <2>0. /\ l.at = "tick" /\ Finalize /\ session' = "none" /\ elapsed' = FALSE
        /\ launcher' = [l EXCEPT !.at = "off", !.rec = Nil, !.prev = NoMarks]
    BY <1>4 DEF Shutdown, LAt, LUpd
  <2> DEFINE q == [l EXCEPT !.at = "off", !.rec = Nil, !.prev = NoMarks]
  <2>1. q \in Launchers
    BY <1>t DEF Launchers, LauncherSteps
  <2>2. launcher' = q
    BY <2>0
  <2>3. /\ q.at = "off" /\ q.rec = Nil /\ q.prepared = l.prepared /\ q.why = l.why /\ q.index = l.index
    BY <1>t DEF Launchers
  <2> HIDE DEF q
  <2>4. LauncherOK(q)
    BY <1>t, <2>3 DEF LauncherOK
  <2>5. TypeInv'
    BY <1>0, <1>t, <2>0, <2>1, <2>2, <2>4, FinalizeIs DEF TypeInv, TypeOK, Uses
  <2>6. GridOK(q, stored)
    BY <1>o, <2>3 DEF GridOK
  <2>7. SessionOK(q, "none", results', unwritten')
    BY <1>o, <1>t, <2>0, <2>3, FinalizeIs DEF SessionOK
  <2>8. SignalOK(q, signals, fresh, FALSE)
    BY <2>3 DEF SignalOK
  <2>9. QED
    BY <1>0, <1>t, <2>0, <2>2, <2>3, <2>5, <2>6, <2>7, <2>8, FinalizeIs DEF LaunchInv
<1>5. QED
  BY <1>1, <1>2, <1>3, <1>4 DEF TickTail, LAt, LUpd

\* The session is closed.
LEMMA CloseStep ==
    ASSUME LaunchInv, Close
    PROVE  LaunchInv' /\ launcher'.at \notin Pend /\ used'.boxes = used.boxes
<1> USE DEF Gridding, Cleaning, Resting, Pend
<1>t. /\ TypeInv /\ launcher \in Launchers /\ LauncherOK(launcher) /\ used \in Uses
      /\ race \in BOOLEAN /\ vehicle \subseteq Cars
  BY Types DEF LaunchInv
<1>o. /\ GridOK(launcher, stored) /\ SessionOK(launcher, session, results, unwritten)
      /\ SignalOK(launcher, signals, fresh, elapsed)
  BY DEF LaunchInv
<1> DEFINE l == launcher
           f == [l EXCEPT !.why = "close"]
<1>0. /\ l.at = "close" /\ lock' = "launcher" /\ BeginCleanup(f)
      /\ session' = "none" /\ elapsed' = FALSE
      /\ \/ race' = FALSE /\ vehicle' = {} /\ UNCHANGED used
         \/ Fault /\ UNCHANGED <<race, vehicle>>
      /\ UNCHANGED <<stored, switching, bots, docker, selected, monitors, lost,
                     poller, signals, results, unwritten, fresh>>
  BY DEF Close, LAt, BeginCleanup, files
<1>1. used' \in Uses /\ used'.boxes = used.boxes /\ race' \in BOOLEAN /\ vehicle' \subseteq Cars
  BY <1>0, <1>t, FaultIs
<1>2. /\ f \in Launchers /\ f.index = l.index /\ SameMarks(f, l) /\ SameRace(f, l) /\ f.why = "close"
  BY <1>t DEF Launchers, SameMarks, SameRace
<1> HIDE DEF f
<1>i. f.index # 0
  BY <1>2, <1>t DEF LauncherOK
<1>3. /\ launcher' \in Launchers /\ LauncherOK(launcher') /\ launcher'.at = "clean"
      /\ SameMarks(launcher', f) /\ SameRace(launcher', f) /\ SameWork(launcher', f)
  BY <1>0, <1>2, <1>i, <1>t, CleanupIs
<1>4. TypeInv'
  BY <1>0, <1>1, <1>3, <1>t DEF TypeInv, TypeOK, Uses
<1>5. GridOK(launcher', stored)
  BY <1>3, <1>o DEF GridOK
<1>6. SessionOK(launcher', session', results, unwritten)
  BY <1>0, <1>2, <1>3, <1>o DEF SessionOK, SameRace, SameWork
<1>7. SignalOK(launcher', signals, fresh, elapsed')
  BY <1>0, <1>2, <1>3, <1>o DEF SignalOK, SameMarks
<1>8. QED
  BY <1>0, <1>1, <1>3, <1>4, <1>5, <1>6, <1>7 DEF LaunchInv

-----------------------------------------------------------------------------
(* Watching. *)

\* No container that is dead comes back: a started one has a new number.
DockerMoves ==
    \A t \in Teams : \/ docker'[t] \in {docker[t], Nil}
                     \/ docker'[t].id = used.boxes + 1
                     \/ ~docker'[t].running

\* A dead bot stays dead.
LEMMA DeadStays ==
    ASSUME TypeInv, TypeInv', DockerMoves, NEW t \in Teams, NEW b \in Boxes, b <= used.boxes,
           Dead(t, b)
    PROVE  Dead(t, b)'
<1>1. b \in Nat /\ used.boxes \in Nat /\ b # used.boxes + 1
  BY Types, Constants DEF Uses, Boxes
<1>2. QED
  BY <1>1 DEF DockerMoves, Dead

\* Steps that start no container and register none: entries are dropped or given
\* placeholders, monitors move on or end where the entry is no longer theirs.
LEMMA QuietWatch ==
    ASSUME TypeInv, WatchInv, TypeInv', DockerMoves,
           lost \subseteq lost', used.boxes <= used'.boxes,
           \A t \in Teams : \/ bots'[t] \in {bots[t], Nil}
                            \/ bots'[t].box \notin Boxes,
           \A n \in monitors' : \/ n \in monitors
                                \/ \E m \in monitors :
                                     /\ n.team = m.team /\ n.box = m.box
                                     /\ n.at \notin {"wait", "follow"} /\ Dead(m.team, m.box)
                                     /\ n.at \in {"park", "despawn"} /\ bots'[n.team] # Nil
                                          => bots'[n.team].box # n.box,
           \A m \in monitors : \/ m.box \in lost' \/ bots'[m.team] = Nil \/ bots'[m.team].box # m.box
                               \/ \E n \in monitors' : n.team = m.team /\ n.box = m.box,
           \/ launcher' = launcher
           \/ launcher'.at \notin Pend /\ launcher.at # "select",
           poller' = poller \/ poller'.at # "follow"
    PROVE  WatchInv'
<1>s. used'.boxes \in Nat
  BY Constants DEF TypeInv, TypeOK
<1>t. /\ monitors \subseteq Monitors /\ bots \in [Teams -> Entries \cup {Nil}]
      /\ used.boxes \in Nat /\ Boxes \subseteq Nat
      /\ \A m \in monitors : m.box \in Boxes /\ m.team \in Teams
  BY Types, Constants DEF Uses, Boxes, Monitors
<1>u. ASSUME NEW x \in Boxes, x <= used.boxes PROVE x <= used'.boxes
  <2>1. x \in Nat /\ used.boxes \in Nat /\ used'.boxes \in Nat /\ used.boxes <= used'.boxes
    BY <1>s, <1>t
  <2>2. QED
    BY <1>u, <2>1
<1>n. NumbersOK /\ PendingOK /\ EndingOK /\ BotIsWatched
  BY DEF WatchInv
<1>p. \A x : PendingBox(x)' => PendingBox(x)
  BY DEF PendingBox, Pend
<1>m. \A n \in monitors' : n.box \in Boxes /\ n.team \in Teams /\ \E m \in monitors : m.team = n.team /\ m.box = n.box
  BY <1>t
<1>f. \A n \in monitors' : n.at = "follow" => n \in monitors
  OBVIOUS
<1>b. \A t \in Teams : bots'[t] # Nil /\ bots'[t].box \in Boxes => bots'[t] = bots[t]
  OBVIOUS
<1>1. NumbersOK'
  <2>1. \A x \in Boxes : PendingBox(x)' => x <= used'.boxes
    BY <1>n, <1>p, <1>u DEF NumbersOK
  <2>2. \A m \in monitors' : m.box <= used'.boxes
    BY <1>m, <1>n, <1>t, <1>u DEF NumbersOK
  <2>3. \A t \in Teams : bots'[t] # Nil /\ bots'[t].box \in Boxes => bots'[t].box <= used'.boxes
    BY <1>b, <1>n, <1>u DEF NumbersOK
  <2>4. QED
    BY <2>1, <2>2, <2>3 DEF NumbersOK
<1>2. PendingOK'
  <2>1. \A x \in Boxes : PendingBox(x)' => \A m \in monitors' : m.box # x
    BY <1>m, <1>n, <1>p DEF PendingOK
  <2>2. \A m \in monitors' : m.at = "follow" =>
          /\ \A n \in monitors' : n.at = "follow" /\ n.new = m.new => n = m
          /\ launcher'.at \in {"follow", "select", "refollow"} => launcher'.cur.box # m.new
          /\ poller'.at = "follow" => poller'.new # m.new
    BY <1>f, <1>n DEF PendingOK, Pend
  <2>3. launcher'.at \in {"follow", "select", "refollow"} /\ poller'.at = "follow" =>
          launcher'.cur.box # poller'.new
    BY <1>n DEF PendingOK, Pend
  <2>4. \A t \in Teams : bots'[t] # Nil /\ bots'[t].box \in Boxes =>
          /\ launcher'.at = "follow" => bots'[t].box # launcher'.cur.box
          /\ launcher'.at = "select" /\ bots'[t].box = launcher'.cur.box => t = launcher'.team
    BY <1>b, <1>n DEF PendingOK, Pend
  <2>5. QED
    BY <2>1, <2>2, <2>3, <2>4 DEF PendingOK
<1>3. EndingOK'
  <2> SUFFICES ASSUME NEW n \in monitors'
               PROVE  /\ n.at # "wait" => Dead(n.team, n.box)'
                      /\ n.at \in {"park", "despawn"} /\ bots'[n.team] # Nil => bots'[n.team].box # n.box
    BY DEF EndingOK
  <2>1. CASE n \in monitors
    <3>1. n.at # "wait" => Dead(n.team, n.box)'
      BY <1>n, <1>t, <2>1, DeadStays DEF EndingOK, NumbersOK
    <3>2. n.at \in {"park", "despawn"} /\ bots'[n.team] # Nil => bots'[n.team].box # n.box
      BY <1>b, <1>n, <1>t, <2>1 DEF EndingOK
    <3>3. QED
      BY <3>1, <3>2
  <2>2. CASE \E m \in monitors : /\ n.team = m.team /\ n.box = m.box /\ Dead(m.team, m.box)
                                 /\ n.at \in {"park", "despawn"} /\ bots'[n.team] # Nil
                                      => bots'[n.team].box # n.box
    BY <1>n, <1>t, <2>2, DeadStays DEF NumbersOK
  <2>3. QED
    BY <2>1, <2>2
<1>4. BotIsWatched'
  <2> SUFFICES ASSUME NEW t \in Teams, bots'[t] # Nil, bots'[t].box \in Boxes
               PROVE  \/ bots'[t].box \in lost'
                      \/ \E m \in monitors' : m.team = t /\ m.box = bots'[t].box
                      \/ launcher'.at = "select" /\ launcher'.cur.box = bots'[t].box
    BY DEF BotIsWatched, Watched
  <2>1. \/ bots[t].box \in lost
        \/ \E m \in monitors : m.team = t /\ m.box = bots[t].box
        \/ launcher.at = "select" /\ launcher.cur.box = bots[t].box
    BY <1>b, <1>n DEF BotIsWatched, Watched
  <2>2. QED
    BY <1>b, <2>1
<1>5. QED
  BY <1>1, <1>2, <1>3, <1>4 DEF WatchInv

\* A container is started: its number is new, and it waits to be registered.
LEMMA StartWatch ==
    ASSUME TypeInv, WatchInv, TypeInv', DockerMoves,
           UNCHANGED <<bots, lost>>, NEW b \in Boxes, b = used.boxes + 1, used'.boxes = b,
           \/ /\ launcher'.at \in {"follow", "refollow"} /\ launcher.at # "select"
              /\ launcher'.cur.box = b /\ UNCHANGED <<poller, monitors>>
           \/ poller'.at = "follow" /\ poller'.new = b /\ UNCHANGED <<launcher, monitors>>
           \/ /\ UNCHANGED <<launcher, poller>>
              /\ \E m \in monitors, n \in Monitors :
                   /\ m.at # "wait" /\ monitors' = (monitors \ {m}) \cup {n}
                   /\ n.team = m.team /\ n.box = m.box /\ n.at = "follow" /\ n.new = b
    PROVE  WatchInv'
<1>t. /\ monitors \subseteq Monitors /\ bots \in [Teams -> Entries \cup {Nil}]
      /\ used.boxes \in Nat /\ Boxes \subseteq Nat
      /\ \A m \in monitors : m.box \in Boxes /\ m.team \in Teams
  BY Types, Constants DEF Uses, Boxes, Monitors
<1>b. \A x \in Boxes : x <= used.boxes => x <= b /\ x # b
  BY <1>t
<1>n. NumbersOK /\ PendingOK /\ EndingOK /\ BotIsWatched
  BY DEF WatchInv
<1>p. \A x : PendingBox(x)' => PendingBox(x) \/ x = b
  BY DEF PendingBox
<1>q. \A x \in Boxes : PendingBox(x) => x # b
  BY <1>b, <1>n DEF NumbersOK
<1>m. /\ \A n \in monitors' : n.box \in Boxes /\ n.team \in Teams /\ \E m \in monitors :
                                n.box = m.box /\ n.team = m.team /\ (n.at # "wait" => m.at # "wait")
      /\ \A m \in monitors : \E n \in monitors' : n.team = m.team /\ n.box = m.box
  BY <1>t
<1>e. \A n \in monitors' : n.at \in {"park", "despawn"} => n \in monitors
  OBVIOUS
<1>f. \A n \in monitors' : n.at = "follow" => n \in monitors \/ n.new = b
  OBVIOUS
<1>g. \A n \in monitors : n.at = "follow" => n.new \in Boxes /\ n.new # b
  BY <1>q, Types DEF PendingBox, MonitorOK
<1>h. \A n, k \in monitors' : n.at = "follow" /\ k.at = "follow" /\ n.new = b /\ k.new = b => n = k
  BY <1>g
<1>l. /\ launcher.at \in {"follow", "select", "refollow"} => launcher.cur.box \in Boxes /\ launcher.cur.box # b
      /\ poller.at = "follow" => poller.new \in Boxes /\ poller.new # b
  BY <1>q, Types DEF PendingBox, LauncherOK, PollerOK
<1>1. NumbersOK'
  <2>1. \A x \in Boxes : PendingBox(x)' => x <= used'.boxes
    BY <1>b, <1>n, <1>p, <1>t DEF NumbersOK
  <2>2. \A m \in monitors' : m.box <= used'.boxes
    BY <1>b, <1>m, <1>n DEF NumbersOK
  <2>3. \A t \in Teams : bots'[t] # Nil /\ bots'[t].box \in Boxes => bots'[t].box <= used'.boxes
    BY <1>b, <1>n DEF NumbersOK
  <2>4. QED
    BY <2>1, <2>2, <2>3 DEF NumbersOK
<1>2. PendingOK'
  <2>1. \A x \in Boxes : PendingBox(x)' => \A m \in monitors' : m.box # x
    <3>1. \A m \in monitors : m.box # b
      BY <1>b, <1>n, <1>t DEF NumbersOK
    <3>2. \A x \in Boxes : PendingBox(x) => \A m \in monitors : m.box # x
      BY <1>n DEF PendingOK
    <3>3. ASSUME NEW x \in Boxes, PendingBox(x)', NEW n \in monitors' PROVE n.box # x
      <4>1. PICK m \in monitors : n.box = m.box
        BY <1>m
      <4>2. PendingBox(x) \/ x = b
        BY <1>p, <3>3
      <4>3. QED
        BY <3>1, <3>2, <4>1, <4>2
    <3>4. QED
      BY <3>3
  <2>2. ASSUME NEW m \in monitors', m.at = "follow"
        PROVE  /\ \A n \in monitors' : n.at = "follow" /\ n.new = m.new => n = m
               /\ launcher'.at \in {"follow", "select", "refollow"} => launcher'.cur.box # m.new
               /\ poller'.at = "follow" => poller'.new # m.new
    <3>1. CASE m.new = b
      BY <1>f, <1>g, <1>h, <1>l, <2>2, <3>1
    <3>2. CASE m \in monitors /\ m.new # b
      BY <1>f, <1>g, <1>n, <2>2, <3>2 DEF PendingOK
    <3>3. QED
      BY <1>f, <2>2, <3>1, <3>2
  <2>3. launcher'.at \in {"follow", "select", "refollow"} /\ poller'.at = "follow" =>
          launcher'.cur.box # poller'.new
    BY <1>l, <1>n DEF PendingOK
  <2>4. \A t \in Teams : bots'[t] # Nil /\ bots'[t].box \in Boxes =>
          /\ launcher'.at = "follow" => bots'[t].box # launcher'.cur.box
          /\ launcher'.at = "select" /\ bots'[t].box = launcher'.cur.box => t = launcher'.team
    BY <1>b, <1>n DEF PendingOK, NumbersOK
  <2>5. QED
    BY <2>1, <2>2, <2>3, <2>4 DEF PendingOK
<1>3. EndingOK'
  <2> SUFFICES ASSUME NEW n \in monitors'
               PROVE  /\ n.at # "wait" => Dead(n.team, n.box)'
                      /\ n.at \in {"park", "despawn"} /\ bots'[n.team] # Nil => bots'[n.team].box # n.box
    BY DEF EndingOK
  <2>1. n.at # "wait" => Dead(n.team, n.box)'
    BY <1>m, <1>n, <1>t, DeadStays DEF EndingOK, NumbersOK
  <2>2. n.at \in {"park", "despawn"} /\ bots'[n.team] # Nil => bots'[n.team].box # n.box
    BY <1>e, <1>n DEF EndingOK
  <2>3. QED
    BY <2>1, <2>2
<1>4. BotIsWatched'
  <2> SUFFICES ASSUME NEW t \in Teams, bots'[t] # Nil, bots'[t].box \in Boxes
               PROVE  \/ bots'[t].box \in lost'
                      \/ \E m \in monitors' : m.team = t /\ m.box = bots'[t].box
                      \/ launcher'.at = "select" /\ launcher'.cur.box = bots'[t].box
    BY DEF BotIsWatched, Watched
  <2>1. \/ bots[t].box \in lost
        \/ \E m \in monitors : m.team = t /\ m.box = bots[t].box
        \/ launcher.at = "select" /\ launcher.cur.box = bots[t].box
    BY <1>n DEF BotIsWatched, Watched
  <2>2. QED
    BY <1>m, <2>1
<1>5. QED
  BY <1>1, <1>2, <1>3, <1>4 DEF WatchInv

\* A container that waited to be registered is, together with its monitor.
LEMMA RegisterWatch ==
    ASSUME TypeInv, WatchInv, UNCHANGED <<docker, used, lost>>,
           NEW t \in Teams, NEW b \in Boxes, NEW e \in Entries, e.box = b, PendingBox(b),
           bots' = [bots EXCEPT ![t] = e],
           monitors' \subseteq monitors \cup {Monitor(t, b)}, Monitor(t, b) \in monitors',
           \A m \in monitors : m \in monitors' \/ m.team = t,
           \/ launcher' = launcher
           \/ launcher'.at \notin Pend /\ launcher.at # "select",
           poller' = poller \/ poller'.at # "follow",
           \A x : PendingBox(x)' => x # b
    PROVE  WatchInv'
<1>t. /\ monitors \subseteq Monitors /\ bots \in [Teams -> Entries \cup {Nil}]
      /\ \A m \in monitors : m.box \in Boxes /\ m.team \in Teams
  BY Types DEF Monitors
<1>k. Monitor(t, b).team = t /\ Monitor(t, b).box = b /\ Monitor(t, b).at = "wait"
  BY MonitorIs
<1>n. NumbersOK /\ PendingOK /\ EndingOK /\ BotIsWatched
  BY DEF WatchInv
<1>f. \A n \in monitors' : n.at = "follow" => n \in monitors
  BY <1>k
<1>p. \A x : PendingBox(x)' => PendingBox(x) /\ x # b
  BY <1>f DEF PendingBox, Pend
<1>b. /\ \A u \in Teams : u # t => bots'[u] = bots[u]
      /\ bots'[t] = e
  BY <1>t
<1>1. NumbersOK'
  <2>1. \A x \in Boxes : PendingBox(x)' => x <= used'.boxes
    BY <1>n, <1>p DEF NumbersOK
  <2>2. \A m \in monitors' : m.box <= used'.boxes
    BY <1>k, <1>n DEF NumbersOK
  <2>3. \A u \in Teams : bots'[u] # Nil /\ bots'[u].box \in Boxes => bots'[u].box <= used'.boxes
    BY <1>b, <1>n DEF NumbersOK
  <2>4. QED
    BY <2>1, <2>2, <2>3 DEF NumbersOK
<1>2. PendingOK'
  <2>1. \A x \in Boxes : PendingBox(x)' => \A m \in monitors' : m.box # x
    BY <1>k, <1>n, <1>p DEF PendingOK
  <2>2. \A m \in monitors' : m.at = "follow" =>
          /\ \A n \in monitors' : n.at = "follow" /\ n.new = m.new => n = m
          /\ launcher'.at \in {"follow", "select", "refollow"} => launcher'.cur.box # m.new
          /\ poller'.at = "follow" => poller'.new # m.new
    BY <1>f, <1>n DEF PendingOK, Pend
  <2>3. launcher'.at \in {"follow", "select", "refollow"} /\ poller'.at = "follow" =>
          launcher'.cur.box # poller'.new
    BY <1>n DEF PendingOK, Pend
  <2>4. ASSUME NEW u \in Teams, bots'[u] # Nil, bots'[u].box \in Boxes
        PROVE  /\ launcher'.at = "follow" => bots'[u].box # launcher'.cur.box
               /\ launcher'.at = "select" /\ bots'[u].box = launcher'.cur.box => u = launcher'.team
    <3>1. launcher'.at \in Pend => launcher' = launcher /\ launcher'.cur.box # b
      BY <1>p DEF Pend, PendingBox
    <3>2. CASE u = t
      BY <1>b, <3>1, <3>2 DEF Pend
    <3>3. CASE u # t
      BY <1>b, <1>n, <2>4, <3>1, <3>3 DEF Pend, PendingOK
    <3>4. QED
      BY <3>2, <3>3
  <2>5. QED
    BY <2>1, <2>2, <2>3, <2>4 DEF PendingOK
<1>3. EndingOK'
  <2> SUFFICES ASSUME NEW n \in monitors'
               PROVE  /\ n.at # "wait" => Dead(n.team, n.box)
                      /\ n.at \in {"park", "despawn"} /\ bots'[n.team] # Nil => bots'[n.team].box # n.box
    BY DEF EndingOK, Dead
  <2>1. CASE n = Monitor(t, b)
    BY <1>k, <2>1
  <2>2. CASE n \in monitors
    BY <1>b, <1>n, <1>t, <2>2 DEF EndingOK, PendingOK
  <2>3. QED
    BY <2>1, <2>2
<1>4. BotIsWatched'
  <2> SUFFICES ASSUME NEW u \in Teams, bots'[u] # Nil, bots'[u].box \in Boxes
               PROVE  \/ bots'[u].box \in lost'
                      \/ \E m \in monitors' : m.team = u /\ m.box = bots'[u].box
                      \/ launcher'.at = "select" /\ launcher'.cur.box = bots'[u].box
    BY DEF BotIsWatched, Watched
  <2>1. CASE u = t
    BY <1>b, <1>k, <2>1
  <2>2. CASE u # t
    <3>1. \/ bots[u].box \in lost
          \/ \E m \in monitors : m.team = u /\ m.box = bots[u].box
          \/ launcher.at = "select" /\ launcher.cur.box = bots[u].box
      BY <1>b, <1>n, <2>2 DEF BotIsWatched, Watched
    <3>2. QED
      BY <1>b, <2>2, <3>1
  <2>3. QED
    BY <2>1, <2>2
<1>5. QED
  BY <1>1, <1>2, <1>3, <1>4 DEF WatchInv

\* The launcher's steps that start no container and register none.
LEMMA QuietLauncher ==
    ASSUME LaunchInv, WatchInv, LaunchInv', launcher'.at \notin Pend, launcher.at # "select",
           UNCHANGED <<lost, monitors, poller>>, used'.boxes \in {used.boxes, used.boxes + 1},
           DockerMoves, \A t \in Teams : bots'[t] \in {bots[t], Nil}
    PROVE  WatchInv'
<1>1. TypeInv /\ TypeInv'
  BY DEF LaunchInv
<1>2. used.boxes \in Nat
  BY <1>1, Types, Constants DEF Uses
<1>3. used.boxes <= used'.boxes
  BY <1>2
<1>4. \A m \in monitors : \E n \in monitors' : n.team = m.team /\ n.box = m.box
  OBVIOUS
<1>5. QED
  BY <1>1, <1>3, <1>4, QuietWatch

\* The launcher's steps keep the race sound, and every registered bot watched.
LEMMA LauncherSound ==
    ASSUME LaunchInv, WatchInv, LauncherStep \/ Shutdown
    PROVE  LaunchInv' /\ WatchInv'
<1> USE DEF Pend
<1>t. /\ TypeInv /\ launcher \in Launchers /\ LauncherOK(launcher) /\ used \in Uses
      /\ bots \in [Teams -> Entries \cup {Nil}] /\ docker \in [Teams -> Containers \cup {Nil}]
  BY Types DEF LaunchInv
<1>n. used.boxes \in Nat
  BY <1>t, Constants DEF Uses
<1>q. ASSUME UNCHANGED <<lost, monitors, poller, bots, docker>>, launcher.at # "select",
             LaunchInv' /\ launcher'.at \notin Pend /\ used'.boxes = used.boxes
      PROVE  LaunchInv' /\ WatchInv'
  BY <1>q, QuietLauncher DEF DockerMoves
<1>1. CASE Tick
  <2>1. UNCHANGED <<lost, monitors, poller, bots, docker>> /\ launcher.at = "tick"
    BY <1>1 DEF Tick, LAt
  <2>2. QED
    BY <1>1, <1>q, <2>1, TickStep
<1>2. CASE LoadFails \/ Load
  <2>1. UNCHANGED <<lost, monitors, poller, bots, docker>> /\ launcher.at = "load"
    BY <1>2 DEF LoadFails, Load, LAt
  <2>2. QED
    BY <1>2, <1>q, <2>1, LoadSteps
<1>3. CASE CleanRemove
  <2>1. UNCHANGED <<lost, monitors, poller>> /\ launcher.at = "clean"
    BY <1>3 DEF CleanRemove, LAt
  <2>2. DockerMoves /\ \A t \in Teams : bots'[t] \in {bots[t], Nil}
    <3>1. CASE UNCHANGED <<bots, docker>>
      BY <3>1 DEF DockerMoves
    <3>2. CASE \E w \in launcher.todo : Insert(w.team, Nil) /\ RemoveContainer(w.team)
      <4>1. PICK w \in launcher.todo : Insert(w.team, Nil) /\ RemoveContainer(w.team)
        BY <3>2
      <4>2. w.team \in Teams
        BY <1>t DEF Launchers
      <4>3. \A u \in Teams : docker'[u] \in {docker[u], Nil}
        BY <1>t, <4>1, <4>2, RemoveIs
      <4>4. QED
        BY <1>t, <4>1, <4>3 DEF DockerMoves, Insert
    <3>3. QED
      BY <1>3, <3>1, <3>2 DEF CleanRemove
  <2>3. LaunchInv' /\ launcher'.at \notin Pend /\ used'.boxes = used.boxes
    BY <1>3, CleanSteps
  <2>4. QED
    BY <2>1, <2>2, <2>3, QuietLauncher
<1>4. CASE CleanDespawn \/ CleanStale
  <2>1. UNCHANGED <<lost, monitors, poller, bots, docker>> /\ launcher.at \in {"despawn", "stale"}
    BY <1>4 DEF CleanDespawn, CleanStale, LAt
  <2>2. QED
    BY <1>4, <1>q, <2>1, CleanSteps
<1>5. CASE SwitchRuntime \/ SwitchFails
  <2>1. UNCHANGED <<lost, monitors, poller, bots, docker>> /\ launcher.at = "switch"
    BY <1>5 DEF SwitchRuntime, SwitchFails, LAt
  <2>2. QED
    BY <1>5, <1>q, <2>1, SwitchSteps
<1>6. CASE Grid \/ GridNoSlot
  <2>1. UNCHANGED <<lost, monitors, poller, bots, docker>> /\ launcher.at = "grid"
    BY <1>6 DEF Grid, GridNoSlot, LAt
  <2>2. QED
    BY <1>6, <1>q, <2>1, GridSteps
<1>7. CASE Run
  <2>0. UNCHANGED <<lost, monitors, poller, bots>> /\ launcher.at = "run"
    BY <1>7 DEF Run, LAt
  <2>l. LaunchInv' /\ TypeInv'
    BY <1>7, LineSteps DEF LaunchInv
  <2>e. launcher.team \in Teams /\ launcher.cur.slot \in Slots
    <3>1. launcher.team \in Teams /\ launcher.cur \in Entries
      BY <1>t, <2>0 DEF LauncherOK
    <3>2. QED
      BY <3>1 DEF Entries
  <2>1. CASE /\ StartContainer(launcher.team, launcher.cur.slot)
             /\ launcher' = [launcher EXCEPT !.at = "follow", !.cur.box = used'.boxes]
    <3>1. /\ used'.boxes = used.boxes + 1 /\ used'.boxes \in Boxes
          /\ \A u \in Teams : docker'[u] = docker[u] \/ docker'[u].id = used.boxes + 1
      BY <1>t, <2>1, <2>e, StartIs
    <3>2. PICK b \in Boxes : b = used'.boxes
      BY <3>1
    <3>3. launcher'.at = "follow" /\ launcher'.cur.box = b
      BY <1>t, <2>0, <2>1, <3>2, RunIs
    <3>4. DockerMoves
      BY <3>1 DEF DockerMoves
    <3>5. WatchInv'
      BY <1>t, <2>0, <2>l, <3>1, <3>2, <3>3, <3>4, StartWatch
    <3>6. QED
      BY <2>l, <3>5
  <2>2. CASE /\ launcher' = [launcher EXCEPT !.at = "undo"]
             /\ \/ UNCHANGED <<docker, used>>
                \/ Fault /\ docker' \in {docker, [docker EXCEPT ![launcher.team] = Nil]}
    <3>1. used'.boxes = used.boxes /\ launcher'.at = "undo"
      BY <1>t, <2>2, FaultIs DEF Launchers
    <3>2. DockerMoves
      BY <1>t, <2>2 DEF DockerMoves
    <3>3. QED
      BY <2>0, <2>l, <3>1, <3>2, QuietLauncher
  <2>3. QED
    BY <1>7, <2>1, <2>2 DEF Run, LUpd
<1>8. CASE LaunchFollow
  <2>0. /\ launcher.at = "follow" /\ launcher' = [launcher EXCEPT !.at = "select"]
        /\ bots' = [bots EXCEPT ![launcher.team] = launcher.cur]
        /\ UNCHANGED <<docker, monitors, lost, poller, used>>
    BY <1>8 DEF LaunchFollow, LAt, LUpd, Insert
  <2>l. LaunchInv'
    BY <1>8, LineSteps
  <2>n. NumbersOK /\ PendingOK /\ EndingOK /\ BotIsWatched
    BY DEF WatchInv
  <2>e. launcher.team \in Teams /\ launcher.cur.box \in Boxes
    BY <1>t, <2>0 DEF LauncherOK
  <2>f. launcher'.at = "select" /\ launcher'.cur = launcher.cur /\ launcher'.team = launcher.team
    BY <1>t, <2>0 DEF Launchers
  <2>b. /\ \A u \in Teams : u # launcher.team => bots'[u] = bots[u]
        /\ bots'[launcher.team] = launcher.cur
    BY <1>t, <2>0, <2>e
  <2>p. /\ \A x : PendingBox(x)' <=> PendingBox(x)
        /\ PendingBox(launcher.cur.box)
    BY <2>0, <2>f DEF PendingBox
  <2>m. \A m \in monitors : m.team \in Teams
    BY <1>t, Types DEF Monitors
  <2>1. NumbersOK'
    <3>1. \A u \in Teams : bots'[u] # Nil /\ bots'[u].box \in Boxes => bots'[u].box <= used.boxes
      BY <2>b, <2>n, <2>p DEF NumbersOK
    <3>2. QED
      BY <2>0, <2>n, <2>p, <3>1 DEF NumbersOK
  <2>2. PendingOK'
    <3>1. \A u \in Teams : bots'[u] # Nil /\ bots'[u].box = launcher.cur.box => u = launcher.team
      BY <2>0, <2>b, <2>e, <2>n DEF PendingOK
    <3>2. QED
      BY <2>0, <2>f, <2>n, <2>p, <3>1 DEF PendingOK
  <2>3. EndingOK'
    BY <2>0, <2>b, <2>e, <2>m, <2>n, <2>p DEF EndingOK, PendingOK, Dead
  <2>4. BotIsWatched'
    BY <2>0, <2>b, <2>f, <2>n DEF BotIsWatched, Watched
  <2>5. QED
    BY <2>1, <2>2, <2>3, <2>4, <2>l DEF WatchInv
<1>9. CASE LaunchSelect
  <2>0. /\ launcher.at = "select" /\ launcher' = NextLine(launcher)
        /\ monitors' = monitors \cup {Monitor(launcher.team, launcher.cur.box)}
        /\ used'.boxes = used.boxes
        /\ UNCHANGED <<docker, bots, lost, poller>>
    BY <1>9, <1>t, FaultIs DEF LaunchSelect, LAt, LUpd
  <2>l. LaunchInv'
    BY <1>9, LineSteps
  <2>n. NumbersOK /\ PendingOK /\ EndingOK /\ BotIsWatched
    BY DEF WatchInv
  <2>e. launcher.team \in Teams /\ launcher.cur.box \in Boxes
    BY <1>t, <2>0 DEF LauncherOK
  <2> DEFINE n == Monitor(launcher.team, launcher.cur.box)
             b == launcher.cur.box
  <2>k. n.team = launcher.team /\ n.box = b /\ n.at = "wait"
    BY <2>e, MonitorIs
  <2>f. launcher'.at = "grid"
    BY <1>t, <2>0, NextLineIs
  <2>i. monitors' = monitors \cup {n}
    BY <2>0
  <2> HIDE DEF n
  <2>p. /\ \A x : PendingBox(x)' => PendingBox(x) /\ (x \in Boxes => x # b)
        /\ PendingBox(b)
    <3>1. \A x : PendingBox(x)' => \/ poller.at = "follow" /\ x = poller.new
                                   \/ \E m \in monitors : m.at = "follow" /\ x = m.new
      BY <2>0, <2>f, <2>i, <2>k DEF PendingBox
    <3>2. QED
      BY <2>0, <2>n, <3>1 DEF PendingBox, PendingOK
  <2>1. NumbersOK'
    BY <2>0, <2>e, <2>i, <2>k, <2>n, <2>p DEF NumbersOK
  <2>2. PendingOK'
    <3>1. \A x \in Boxes : PendingBox(x)' => \A m \in monitors' : m.box # x
      BY <2>i, <2>k, <2>n, <2>p DEF PendingOK
    <3>2. QED
      BY <2>0, <2>f, <2>i, <2>k, <2>n, <3>1 DEF PendingOK
  <2>3. EndingOK'
    BY <2>0, <2>i, <2>k, <2>n DEF EndingOK, Dead
  <2>4. BotIsWatched'
    <3> SUFFICES ASSUME NEW u \in Teams, bots[u] # Nil, bots[u].box \in Boxes
                 PROVE  \/ bots[u].box \in lost
                        \/ \E m \in monitors' : m.team = u /\ m.box = bots[u].box
      BY <2>0 DEF BotIsWatched, Watched
    <3>1. CASE bots[u].box = b
      BY <2>0, <2>i, <2>k, <2>n, <3>1 DEF PendingOK
    <3>2. CASE bots[u].box # b
      BY <2>i, <2>n, <3>2 DEF BotIsWatched, Watched
    <3>3. QED
      BY <3>1, <3>2
  <2>5. QED
    BY <2>1, <2>2, <2>3, <2>4, <2>l DEF WatchInv
<1>10. CASE Undo
  <2>1. /\ UNCHANGED <<lost, monitors, poller, bots, docker, used>> /\ launcher.at = "undo"
        /\ launcher' = NextLine(launcher)
    BY <1>10 DEF Undo, LAt, LUpd
  <2>2. launcher'.at = "grid"
    BY <1>t, <2>1, NextLineIs
  <2>3. QED
    BY <1>10, <1>q, <2>1, <2>2, LineSteps
<1>11. CASE Record
  <2>1. UNCHANGED <<lost, monitors, poller, bots, docker>> /\ launcher.at = "grid"
    BY <1>11 DEF Record, LAt
  <2>2. QED
    BY <1>11, <1>q, <2>1, RecordStep
<1>12. CASE Refresh
  <2>0. UNCHANGED <<lost, monitors, poller, bots>> /\ launcher.at = "refresh"
    BY <1>12 DEF Refresh, LAt
  <2>l. LaunchInv' /\ TypeInv'
    BY <1>12, RefreshSteps DEF LaunchInv
  <2>w. PICK w \in launcher.todo :
          \/ /\ StartContainer(w.team, w.entry.slot)
             /\ launcher' = [launcher EXCEPT !.at = "refollow", !.team = w.team,
                               !.todo = launcher.todo \ {w},
                               !.cur = [w.entry EXCEPT !.box = used'.boxes, !.attempts = 0]]
          \/ /\ StartFails(w.team, w.entry.slot)
             /\ launcher' = [launcher EXCEPT !.todo = launcher.todo \ {w}]
    BY <1>12 DEF Refresh, LUpd
  <2>e. w.team \in Teams /\ w.entry.slot \in Slots
    <3>1. w.team \in Teams /\ w.entry \in Entries
      BY <1>t DEF Launchers
    <3>2. QED
      BY <3>1 DEF Entries
  <2>1. CASE /\ StartContainer(w.team, w.entry.slot)
             /\ launcher' = [launcher EXCEPT !.at = "refollow", !.team = w.team,
                               !.todo = launcher.todo \ {w},
                               !.cur = [w.entry EXCEPT !.box = used'.boxes, !.attempts = 0]]
    <3>1. /\ used'.boxes = used.boxes + 1 /\ used'.boxes \in Boxes
          /\ \A u \in Teams : docker'[u] = docker[u] \/ docker'[u].id = used.boxes + 1
      BY <1>t, <2>1, <2>e, StartIs
    <3>2. PICK b \in Boxes : b = used'.boxes
      BY <3>1
    <3>3. launcher'.at = "refollow" /\ launcher'.cur.box = b
      BY <1>t, <2>0, <2>1, <3>2, RefreshIs
    <3>4. DockerMoves
      BY <3>1 DEF DockerMoves
    <3>5. WatchInv'
      BY <1>t, <2>0, <2>l, <3>1, <3>2, <3>3, <3>4, StartWatch
    <3>6. QED
      BY <2>l, <3>5
  <2>2. CASE /\ StartFails(w.team, w.entry.slot)
             /\ launcher' = [launcher EXCEPT !.todo = launcher.todo \ {w}]
    <3>1. /\ used'.boxes \in {used.boxes, used.boxes + 1}
          /\ \A u \in Teams : docker'[u] \in {docker[u], Nil} \/ docker'[u].id = used.boxes + 1
      BY <1>t, <2>2, <2>e, StartFailsIs
    <3>2. launcher'.at = "refresh"
      BY <1>t, <2>0, <2>2 DEF Launchers
    <3>3. DockerMoves
      BY <3>1 DEF DockerMoves
    <3>4. QED
      BY <2>0, <2>l, <3>1, <3>2, <3>3, QuietLauncher
  <2>3. QED
    BY <2>1, <2>2, <2>w
<1>13. CASE Refollow
  <2>0. /\ launcher.at = "refollow" /\ bots' = [bots EXCEPT ![launcher.team] = launcher.cur]
        /\ monitors' = monitors \cup {Monitor(launcher.team, launcher.cur.box)}
        /\ launcher' = [launcher EXCEPT !.at = "refresh", !.team = Nil, !.cur = Nil]
        /\ UNCHANGED <<docker, lost, poller, used>>
    BY <1>13 DEF Refollow, LAt, LUpd, Insert
  <2>l. LaunchInv'
    BY <1>13, RefreshSteps
  <2>e. launcher.team \in Teams /\ launcher.cur.box \in Boxes /\ launcher.cur \in Entries
    BY <1>t, <2>0 DEF LauncherOK
  <2>f. launcher'.at = "refresh"
    BY <1>t, <2>0 DEF Launchers
  <2>k. Monitor(launcher.team, launcher.cur.box).at = "wait"
    BY <2>e, MonitorIs
  <2>n. PendingOK
    BY DEF WatchInv
  <2>1. PendingBox(launcher.cur.box)
    BY <2>0 DEF PendingBox
  <2>2. ASSUME NEW x, PendingBox(x)' PROVE x # launcher.cur.box
    <3>1. \/ poller.at = "follow" /\ x = poller.new
          \/ \E m \in monitors : m.at = "follow" /\ x = m.new
      BY <2>0, <2>2, <2>f, <2>k DEF PendingBox
    <3>2. QED
      BY <2>0, <2>n, <3>1 DEF PendingOK
  <2>3. WatchInv'
    BY <1>t, <2>0, <2>e, <2>f, <2>1, <2>2, RegisterWatch
  <2>4. QED
    BY <2>3, <2>l
<1>14. CASE Go
  <2>1. UNCHANGED <<lost, monitors, poller, bots, docker>> /\ launcher.at = "refresh"
    BY <1>14 DEF Go, LAt
  <2>2. QED
    BY <1>14, <1>q, <2>1, GoStep
<1>15. CASE TickTail \/ Shutdown
  <2>1. UNCHANGED <<lost, monitors, poller, bots, docker>> /\ launcher.at \in {"tick", "tail"}
    BY <1>15 DEF TickTail, Shutdown, LAt
  <2>2. QED
    BY <1>15, <1>q, <2>1, TailSteps
<1>16. CASE Close
  <2>1. UNCHANGED <<lost, monitors, poller, bots, docker>> /\ launcher.at = "close"
    BY <1>16 DEF Close, LAt
  <2>2. QED
    BY <1>16, <1>q, <2>1, CloseStep
<1>17. QED
  BY <1>1, <1>2, <1>3, <1>4, <1>5, <1>6, <1>7, <1>8, <1>9, <1>10, <1>11, <1>12, <1>13, <1>14,
     <1>15, <1>16 DEF LauncherStep

-----------------------------------------------------------------------------
(* Exit monitors, the poller and everyone else. *)

\* Whatever leaves the launcher, the session and the files alone, and at most forgets
\* cars, keeps the grid, the session and the signals as they should be.
LEMMA OtherMoves ==
    ASSUME LaunchInv, TypeInv', \A c \in Cars : stored'[c] \in {stored[c], Nil},
           UNCHANGED <<launcher, session, elapsed, results, unwritten, signals, fresh>>
    PROVE  LaunchInv'
<1>o. /\ GridOK(launcher, stored) /\ SessionOK(launcher, session, results, unwritten)
      /\ SignalOK(launcher, signals, fresh, elapsed)
  BY DEF LaunchInv
<1>1. GridOK(launcher, stored')
  BY <1>o DEF GridOK
<1>2. QED
  BY <1>1, <1>o DEF LaunchInv

\* A monitor moves on, or ends.
LEMMA MoveIs ==
    ASSUME TypeInv, NEW m \in monitors
    PROVE  /\ End(m) => monitors' \subseteq Monitors /\ \A k \in monitors' : MonitorOK(k)
           /\ \A n \in Monitors : Move(m, n) /\ MonitorOK(n) =>
                monitors' \subseteq Monitors /\ \A k \in monitors' : MonitorOK(k)
BY Types DEF End, Move

\* A monitor that moves on without a new container, or ends without owning the entry.
LEMMA QuietMonitor ==
    ASSUME LaunchInv, WatchInv, LaunchInv', DockerMoves, NEW m \in monitors,
           UNCHANGED <<lost, launcher, poller>>, used'.boxes \in {used.boxes, used.boxes + 1},
           \A t \in Teams : bots'[t] \in {bots[t], Nil} \/ bots'[t].box \notin Boxes,
           \/ End(m) /\ (bots'[m.team] = Nil \/ bots'[m.team].box # m.box)
           \/ \E n \in Monitors :
                /\ Move(m, n) /\ n.team = m.team /\ n.box = m.box
                /\ n.at \notin {"wait", "follow"} /\ Dead(m.team, m.box)
                /\ n.at \in {"park", "despawn"} /\ bots'[n.team] # Nil => bots'[n.team].box # n.box
    PROVE  WatchInv'
<1>1. TypeInv /\ TypeInv'
  BY DEF LaunchInv
<1>2. used.boxes \in Nat
  BY <1>1, Types, Constants DEF Uses
<1>3. used.boxes <= used'.boxes
  BY <1>2
<1>4. \A n \in monitors' : \/ n \in monitors
                           \/ \E k \in monitors :
                                /\ n.team = k.team /\ n.box = k.box
                                /\ n.at \notin {"wait", "follow"} /\ Dead(k.team, k.box)
                                /\ n.at \in {"park", "despawn"} /\ bots'[n.team] # Nil
                                     => bots'[n.team].box # n.box
  BY DEF End, Move
<1>5. \A k \in monitors : \/ bots'[k.team] = Nil \/ bots'[k.team].box # k.box
                          \/ \E n \in monitors' : n.team = k.team /\ n.box = k.box
  BY DEF End, Move
<1>6. QED
  BY <1>1, <1>3, <1>4, <1>5, QuietWatch

\* The monitors' steps.
LEMMA MonitorSound ==
    ASSUME LaunchInv, WatchInv, NEW m \in monitors, MonitorStep(m) \/ WaitFails(m)
    PROVE  LaunchInv' /\ WatchInv'
<1>t. /\ TypeInv /\ used \in Uses /\ PollerOK(poller) /\ vehicle \subseteq Cars
      /\ bots \in [Teams -> Entries \cup {Nil}] /\ docker \in [Teams -> Containers \cup {Nil}]
      /\ stored \in [Cars -> Teams \cup {Nil}] /\ lost \subseteq Boxes
      /\ m \in Monitors /\ MonitorOK(m) /\ race \in BOOLEAN
  BY Types DEF LaunchInv
<1>m. m.team \in Teams /\ m.box \in Boxes
  BY <1>t DEF Monitors
<1>n. NumbersOK /\ PendingOK /\ EndingOK /\ BotIsWatched
  BY DEF WatchInv
<1>d. m.at # "wait" => Dead(m.team, m.box)
  BY <1>n DEF EndingOK
<1>s. UNCHANGED stored => \A c \in Cars : stored'[c] \in {stored[c], Nil}
  OBVIOUS
\* A step on its own monitor, all else the same.
<1>q. ASSUME UNCHANGED <<race, vehicle, stored, switching, session, elapsed, bots, docker, selected,
                         lost, launcher, poller, lock, signals, results, unwritten, used, fresh>>,
             \/ End(m) /\ ~Owns(m)
             \/ \E n \in Monitors : /\ Move(m, n) /\ MonitorOK(n) /\ n.team = m.team /\ n.box = m.box
                                    /\ n.at \notin {"wait", "follow", "park", "despawn"}
                                    /\ Dead(m.team, m.box)
      PROVE  LaunchInv' /\ WatchInv'
  <2>1. monitors' \subseteq Monitors /\ \A k \in monitors' : MonitorOK(k)
    BY <1>q, <1>t, MoveIs
  <2>2. TypeInv'
    BY <1>q, <1>t, <2>1 DEF TypeInv, TypeOK
  <2>3. LaunchInv'
    BY <1>q, <1>s, <2>2, OtherMoves
  <2>4. DockerMoves
    BY <1>q DEF DockerMoves
  <2>5. QED
    BY <1>q, <2>3, <2>4, QuietMonitor DEF Owns
<1>1. CASE MonitorWakes(m)
  <2>1. /\ m.at = "wait" /\ Dead(m.team, m.box)
        /\ IF Owns(m) THEN Move(m, [m EXCEPT !.at = "delay"]) ELSE End(m)
        /\ UNCHANGED <<race, vehicle, stored, switching, session, elapsed, bots, docker, selected,
                       lost, launcher, poller, lock, signals, results, unwritten, used, fresh>>
    BY <1>1 DEF MonitorWakes, engine, store, files
  <2> DEFINE n == [m EXCEPT !.at = "delay"]
  <2>2. n \in Monitors /\ n.at = "delay" /\ n.team = m.team /\ n.box = m.box
    BY <1>t DEF Monitors, MonitorSteps
  <2>3. (End(m) /\ ~Owns(m)) \/ Move(m, n)
    BY <2>1
  <2> HIDE DEF n
  <2>4. MonitorOK(n)
    BY <2>2 DEF MonitorOK
  <2>5. QED
    BY <1>q, <2>1, <2>2, <2>3, <2>4
<1>2. CASE WaitFails(m)
  <2>1. /\ Fault /\ End(m) /\ lost' = lost \cup {m.box}
        /\ UNCHANGED <<race, vehicle, stored, switching, session, elapsed, bots, docker, selected,
                       launcher, poller, lock, signals, results, unwritten, fresh>>
    BY <1>2 DEF WaitFails, engine, store, files
  <2>2. used' \in Uses /\ used'.boxes = used.boxes
    BY <1>t, <2>1, FaultIs
  <2>3. monitors' \subseteq Monitors /\ (\A k \in monitors' : MonitorOK(k)) /\ lost' \subseteq Boxes
    BY <1>m, <1>t, <2>1, MoveIs
  <2>4. TypeInv'
    BY <1>t, <2>1, <2>2, <2>3 DEF TypeInv, TypeOK, Uses
  <2>5. LaunchInv'
    BY <1>s, <2>1, <2>4, OtherMoves
  <2>6. DockerMoves /\ lost \subseteq lost' /\ used.boxes <= used'.boxes
    <3>1. used.boxes \in Nat
      BY <1>t, Constants DEF Uses
    <3>2. QED
      BY <2>1, <2>2, <3>1 DEF DockerMoves
  <2>7. /\ \A n \in monitors' : n \in monitors
        /\ \A k \in monitors : k.box \in lost' \/ \E n \in monitors' : n.team = k.team /\ n.box = k.box
    BY <2>1 DEF End
  <2>8. \A t \in Teams : bots'[t] \in {bots[t], Nil}
    BY <2>1
  <2>9. WatchInv'
    BY <1>t, <2>1, <2>4, <2>6, <2>7, <2>8, QuietWatch
  <2>10. QED
    BY <2>5, <2>9
<1>3. CASE MonitorDelay(m)
  <2>1. /\ m.at = "delay"
        /\ UNCHANGED <<race, vehicle, stored, switching, session, elapsed, bots, docker, selected,
                       lost, launcher, poller, lock, signals, results, unwritten, used, fresh>>
    BY <1>3 DEF MonitorDelay, engine, store, files
  <2>2. CASE ~Owns(m)
    BY <1>3, <1>q, <2>1, <2>2 DEF MonitorDelay
  <2>3. CASE Owns(m)
    <3>1. PICK e \in Entries : e = bots[m.team]
      BY <1>m, <1>t, <2>3 DEF Owns
    <3>2. PICK s \in BOOLEAN : s = (session = "started")
      OBVIOUS
    <3>3. PICK a \in {"giveup", "check"} :
            /\ a = IF session = "started" /\ bots[m.team].attempts >= MaxAttempts THEN "giveup" ELSE "check"
            /\ a = "check" /\ s => e.attempts < MaxAttempts
      <4>1. e.attempts \in Nat /\ MaxAttempts \in Nat
        BY Constants DEF Entries
      <4>2. CASE session = "started" /\ bots[m.team].attempts >= MaxAttempts
        BY <4>2
      <4>3. CASE ~(session = "started" /\ bots[m.team].attempts >= MaxAttempts)
        <5>0. s => session = "started"
          BY <3>2, Zenon
        <5>1. s => e.attempts < MaxAttempts
          BY <3>1, <4>1, <4>3, <5>0
        <5>2. QED
          BY <4>3, <5>1
      <4>4. QED
        BY <4>2, <4>3
    <3> DEFINE n == [m EXCEPT !.cur = e, !.started = s, !.at = a]
    <3>4. Move(m, n)
      BY <1>3, <2>3, <3>1, <3>2, <3>3 DEF MonitorDelay
    <3>5. n \in Monitors
      BY <1>t DEF Monitors, MonitorSteps
    <3>6. n.at = a /\ n.team = m.team /\ n.box = m.box /\ n.cur = e /\ n.started = s
      BY <1>t DEF Monitors
    <3> HIDE DEF n
    <3>7. MonitorOK(n)
      BY <3>3, <3>6 DEF MonitorOK
    <3>8. n.at \notin {"wait", "follow", "park", "despawn"}
      BY <3>6
    <3>9. QED
      BY <1>d, <1>q, <2>1, <3>4, <3>5, <3>6, <3>7, <3>8
  <2>4. QED
    BY <2>2, <2>3
<1>4. CASE MonitorCheck(m)
  <2>1. /\ m.at = "check"
        /\ UNCHANGED <<race, vehicle, stored, switching, session, elapsed, bots, docker, selected,
                       lost, launcher, poller, lock, signals, results, unwritten, used, fresh>>
    BY <1>4 DEF MonitorCheck, engine, store, files
  <2>2. PICK a \in {"start", "giveup"} : a = IF race THEN "start" ELSE "giveup"
    OBVIOUS
  <2> DEFINE n == [m EXCEPT !.at = a]
  <2>3. Move(m, n)
    BY <1>4, <2>2 DEF MonitorCheck
  <2>4. /\ n \in Monitors /\ n.at = a /\ n.team = m.team /\ n.box = m.box /\ n.cur = m.cur
        /\ n.started = m.started
    BY <1>t DEF Monitors, MonitorSteps
  <2> HIDE DEF n
  <2>5. MonitorOK(n) /\ n.at \notin {"wait", "follow", "park", "despawn"}
    BY <1>t, <2>1, <2>4 DEF MonitorOK
  <2>6. QED
    BY <1>d, <1>q, <2>1, <2>3, <2>4, <2>5
<1>5. CASE MonitorStart(m)
  <2>1. /\ m.at = "start"
        /\ UNCHANGED <<race, vehicle, stored, switching, session, elapsed, bots, selected,
                       lost, launcher, poller, lock, signals, results, unwritten, fresh>>
    BY <1>5 DEF MonitorStart, engine, store, files
  <2>e. m.cur \in Entries /\ m.cur.slot \in Slots
    <3>1. m.cur \in Entries
      BY <1>t, <2>1 DEF MonitorOK
    <3>2. QED
      BY <3>1 DEF Entries
  <2>2. CASE /\ StartContainer(m.team, m.cur.slot)
             /\ Move(m, [m EXCEPT !.at = "follow", !.new = used'.boxes])
    <3>1. /\ used' \in Uses /\ used'.boxes = used.boxes + 1 /\ used'.boxes \in Boxes
          /\ docker' \in [Teams -> Containers \cup {Nil}]
          /\ \A u \in Teams : docker'[u] = docker[u] \/ docker'[u].id = used.boxes + 1
      BY <1>m, <1>t, <2>2, <2>e, StartIs
    <3>2. PICK b \in Boxes : b = used'.boxes
      BY <3>1
    <3> DEFINE n == [m EXCEPT !.at = "follow", !.new = b]
    <3>3. Move(m, n)
      BY <2>2, <3>2
    <3>4. n \in Monitors
      BY <1>t DEF Monitors, MonitorSteps
    <3>5. /\ n.at = "follow" /\ n.new = b /\ n.team = m.team /\ n.box = m.box /\ n.cur = m.cur
          /\ n.started = m.started
      BY <1>t DEF Monitors
    <3> HIDE DEF n
    <3>6. MonitorOK(n)
      BY <1>t, <2>1, <3>5 DEF MonitorOK
    <3>7. monitors' \subseteq Monitors /\ \A k \in monitors' : MonitorOK(k)
      BY <1>t, <3>3, <3>4, <3>6, MoveIs
    <3>8. TypeInv'
      BY <1>t, <2>1, <3>1, <3>7 DEF TypeInv, TypeOK, Containers, Uses
    <3>9. LaunchInv'
      BY <1>s, <2>1, <3>8, OtherMoves
    <3>10. DockerMoves
      BY <3>1 DEF DockerMoves
    <3>11. m.at # "wait" /\ monitors' = (monitors \ {m}) \cup {n}
      BY <2>1, <3>3 DEF Move
    <3>12. WatchInv'
      BY <1>t, <2>1, <3>1, <3>2, <3>4, <3>5, <3>8, <3>10, <3>11, StartWatch
    <3>13. QED
      BY <3>9, <3>12
  <2>3. CASE StartFails(m.team, m.cur.slot) /\ Move(m, [m EXCEPT !.at = "giveup"])
    <3>1. /\ used' \in Uses /\ used'.boxes \in {used.boxes, used.boxes + 1}
          /\ docker' \in [Teams -> Containers \cup {Nil}]
          /\ \A u \in Teams : docker'[u] \in {docker[u], Nil} \/ docker'[u].id = used.boxes + 1
      BY <1>m, <1>t, <2>3, <2>e, StartFailsIs
    <3> DEFINE n == [m EXCEPT !.at = "giveup"]
    <3>2. Move(m, n)
      BY <2>3
    <3>3. n \in Monitors /\ n.at = "giveup" /\ n.team = m.team /\ n.box = m.box /\ n.cur = m.cur
      BY <1>t DEF Monitors, MonitorSteps
    <3> HIDE DEF n
    <3>4. MonitorOK(n)
      BY <2>e, <3>3 DEF MonitorOK
    <3>5. monitors' \subseteq Monitors /\ \A k \in monitors' : MonitorOK(k)
      BY <1>t, <3>2, <3>3, <3>4, MoveIs
    <3>6. TypeInv'
      BY <1>t, <2>1, <3>1, <3>5 DEF TypeInv, TypeOK, Containers, Uses
    <3>7. LaunchInv'
      BY <1>s, <2>1, <3>6, OtherMoves
    <3>8. DockerMoves /\ \A t \in Teams : bots'[t] \in {bots[t], Nil}
      BY <2>1, <3>1 DEF DockerMoves
    <3>9. Dead(m.team, m.box) /\ n.at \notin {"wait", "follow", "park", "despawn"}
      BY <1>d, <2>1, <3>3
    <3>10. WatchInv'
      BY <2>1, <3>1, <3>2, <3>3, <3>7, <3>8, <3>9, QuietMonitor
    <3>11. QED
      BY <3>7, <3>10
  <2>4. QED
    BY <1>5, <2>2, <2>3 DEF MonitorStart
<1>6. CASE MonitorFollow(m)
  <2>1. /\ m.at = "follow" /\ Move(m, Monitor(m.team, m.new))
        /\ bots' = [bots EXCEPT ![m.team] =
             [m.cur EXCEPT !.box = m.new, !.attempts = IF m.started THEN m.cur.attempts + 1 ELSE 0]]
        /\ UNCHANGED <<race, vehicle, stored, switching, session, elapsed, docker, selected,
                       lost, launcher, poller, lock, signals, results, unwritten, used, fresh>>
    BY <1>6 DEF MonitorFollow, Insert, engine, store, files
  <2>2. m.cur \in Entries /\ m.new \in Boxes /\ (m.started => m.cur.attempts < MaxAttempts)
    BY <1>t, <2>1 DEF MonitorOK
  <2>3. PICK a \in 0..MaxAttempts : a = IF m.started THEN m.cur.attempts + 1 ELSE 0
    <3>1. m.cur.attempts \in Nat /\ MaxAttempts \in Nat
      BY <2>2, Constants DEF Entries
    <3>2. QED
      BY <2>2, <3>1
  <2> DEFINE c == m.cur
             b == m.new
             e == [c EXCEPT !.box = b, !.attempts = a]
  <2>4. bots' = [bots EXCEPT ![m.team] = e]
    BY <2>1, <2>3
  <2>5. e \in Entries /\ e.box = b
    <3> HIDE DEF c, b
    <3>1. c \in Entries /\ b \in Boxes
      BY <2>2 DEF c, b
    <3>2. QED
      BY <3>1 DEF Entries
  <2> HIDE DEF e
  <2>6. bots' \in [Teams -> Entries \cup {Nil}]
    BY <1>m, <1>t, <2>4, <2>5
  <2>7. /\ Monitor(m.team, b) \in Monitors /\ MonitorOK(Monitor(m.team, b))
        /\ Monitor(m.team, b).at = "wait" /\ Monitor(m.team, b).box = b
    BY <1>m, <2>2, MonitorIs
  <2>8. monitors' \subseteq Monitors /\ \A k \in monitors' : MonitorOK(k)
    BY <1>t, <2>1, <2>7, MoveIs
  <2>9. TypeInv'
    BY <1>t, <2>1, <2>6, <2>8 DEF TypeInv, TypeOK
  <2>10. LaunchInv'
    BY <1>s, <2>1, <2>9, OtherMoves
  <2>11. PendingBox(b)
    BY <2>1 DEF PendingBox
  <2>12. /\ monitors' \subseteq monitors \cup {Monitor(m.team, b)} /\ Monitor(m.team, b) \in monitors'
         /\ \A k \in monitors : k \in monitors' \/ k.team = m.team
         /\ \A k \in monitors' : k.at = "follow" => k \in monitors /\ k # m
    BY <2>1, <2>7 DEF Move
  <2>13. ASSUME NEW x, PendingBox(x)' PROVE x # b
    <3>1. \/ launcher.at \in {"follow", "select", "refollow"} /\ x = launcher.cur.box
          \/ poller.at = "follow" /\ x = poller.new
          \/ \E k \in monitors : k.at = "follow" /\ k # m /\ x = k.new
      BY <2>1, <2>12, <2>13 DEF PendingBox
    <3>2. QED
      BY <1>n, <2>1, <3>1 DEF PendingOK
  <2>14. WatchInv'
    <3>1. b \in Boxes /\ UNCHANGED <<docker, used, lost, launcher, poller>>
      BY <2>1, <2>2
    <3> HIDE DEF b, c
    <3>2. PICK x \in Boxes, f \in Entries, t \in Teams : x = b /\ f = e /\ t = m.team
      BY <1>m, <2>5, <3>1
    <3>3. f.box = x /\ bots' = [bots EXCEPT ![t] = f] /\ PendingBox(x)
      BY <2>4, <2>5, <2>11, <3>2
    <3>4. /\ monitors' \subseteq monitors \cup {Monitor(t, x)} /\ Monitor(t, x) \in monitors'
          /\ \A k \in monitors : k \in monitors' \/ k.team = t
      BY <2>12, <3>2
    <3>5. \A y : PendingBox(y)' => y # x
      BY <2>13, <3>2
    <3>6. QED
      BY <1>t, <3>1, <3>3, <3>4, <3>5, RegisterWatch
  <2>15. QED
    BY <2>10, <2>14
<1>7. CASE MonitorGivesUp(m)
  <2>1. /\ m.at = "giveup"
        /\ UNCHANGED <<race, vehicle, stored, switching, session, elapsed, docker, selected,
                       lost, launcher, poller, lock, signals, results, unwritten, used, fresh>>
    BY <1>7 DEF MonitorGivesUp, engine, store, files
  <2>2. CASE ~Owns(m)
    BY <1>7, <1>q, <2>1, <2>2 DEF MonitorGivesUp
  <2>3. CASE Owns(m) /\ session = "started" /\ CarMatches(m.cur)
    <3>1. /\ bots' = [bots EXCEPT ![m.team] = [bots[m.team] EXCEPT !.box = Awaiting, !.attempts = 0]]
          /\ Move(m, [m EXCEPT !.at = "park"])
      BY <1>7, <2>3 DEF MonitorGivesUp, Insert
    <3>2. PICK c \in Entries : c = bots[m.team]
      BY <1>m, <1>t, <2>3 DEF Owns
    <3>z. 0 \in 0..MaxAttempts /\ Awaiting \notin Boxes
      BY Constants
    <3> DEFINE e == [c EXCEPT !.box = Awaiting, !.attempts = 0]
    <3>3. e \in Entries /\ e.box = Awaiting
      BY <3>z DEF Entries
    <3>4. bots' = [bots EXCEPT ![m.team] = e]
      BY <3>1, <3>2
    <3> HIDE DEF e
    <3>5. bots' \in [Teams -> Entries \cup {Nil}] /\ bots'[m.team] = e
          /\ \A t \in Teams : t # m.team => bots'[t] = bots[t]
      BY <1>m, <1>t, <3>3, <3>4
    <3> DEFINE n == [m EXCEPT !.at = "park"]
    <3>6. n \in Monitors /\ n.at = "park" /\ n.team = m.team /\ n.box = m.box /\ n.cur = m.cur
      BY <1>t DEF Monitors, MonitorSteps
    <3>7. Move(m, n)
      BY <3>1
    <3> HIDE DEF n
    <3>8. MonitorOK(n)
      BY <1>t, <2>1, <3>6 DEF MonitorOK
    <3>9. monitors' \subseteq Monitors /\ \A k \in monitors' : MonitorOK(k)
      BY <1>t, <3>6, <3>7, <3>8, MoveIs
    <3>10. TypeInv'
      BY <1>t, <2>1, <3>5, <3>9 DEF TypeInv, TypeOK
    <3>11. LaunchInv'
      BY <1>s, <2>1, <3>10, OtherMoves
    <3>12. /\ DockerMoves /\ \A t \in Teams : bots'[t] \in {bots[t], Nil} \/ bots'[t].box \notin Boxes
      BY <2>1, <3>3, <3>5, <3>z DEF DockerMoves
    <3>13. /\ Dead(m.team, m.box) /\ n.at \notin {"wait", "follow"}
           /\ bots'[n.team].box # n.box
      BY <1>d, <1>m, <2>1, <3>3, <3>5, <3>6, <3>z
    <3>14. WatchInv'
      BY <2>1, <3>6, <3>7, <3>11, <3>12, <3>13, QuietMonitor
    <3>15. QED
      BY <3>11, <3>14
  <2>4. CASE Owns(m) /\ ~(session = "started" /\ CarMatches(m.cur))
    <3>1. UNCHANGED bots /\ Move(m, [m EXCEPT !.cur = bots[m.team], !.at = "forget"])
      BY <1>7, <2>4 DEF MonitorGivesUp
    <3>2. PICK e \in Entries : e = bots[m.team]
      BY <1>m, <1>t, <2>4 DEF Owns
    <3> DEFINE n == [m EXCEPT !.cur = e, !.at = "forget"]
    <3>3. Move(m, n)
      BY <3>1, <3>2
    <3>4. n \in Monitors /\ n.at = "forget" /\ n.team = m.team /\ n.box = m.box /\ n.cur = e
      BY <1>t DEF Monitors, MonitorSteps
    <3> HIDE DEF n
    <3>5. MonitorOK(n) /\ n.at \notin {"wait", "follow", "park", "despawn"}
      BY <3>4 DEF MonitorOK
    <3>6. QED
      BY <1>d, <1>q, <2>1, <3>1, <3>3, <3>4, <3>5
  <2>5. QED
    BY <2>2, <2>3, <2>4
<1>8. CASE ParkRemove(m)
  <2>1. /\ m.at = "park" /\ RemoveContainer(m.team) /\ End(m)
        /\ UNCHANGED <<race, vehicle, stored, switching, session, elapsed, bots, selected,
                       lost, launcher, poller, lock, signals, results, unwritten, fresh>>
    BY <1>8 DEF ParkRemove, engine, store, files
  <2>2. /\ used' \in Uses /\ used'.boxes = used.boxes /\ docker' \in [Teams -> Containers \cup {Nil}]
        /\ \A u \in Teams : docker'[u] \in {docker[u], Nil}
    BY <1>m, <1>t, <2>1, RemoveIs
  <2>3. monitors' \subseteq Monitors /\ \A k \in monitors' : MonitorOK(k)
    BY <1>t, <2>1, MoveIs
  <2>4. TypeInv'
    BY <1>t, <2>1, <2>2, <2>3 DEF TypeInv, TypeOK, Containers, Uses
  <2>5. LaunchInv'
    BY <1>s, <2>1, <2>4, OtherMoves
  <2>6. DockerMoves /\ (\A t \in Teams : bots'[t] \in {bots[t], Nil})
        /\ (bots'[m.team] = Nil \/ bots'[m.team].box # m.box)
    BY <1>n, <2>1, <2>2 DEF DockerMoves, EndingOK
  <2>7. WatchInv'
    BY <2>1, <2>2, <2>5, <2>6, QuietMonitor
  <2>8. QED
    BY <2>5, <2>7
<1>9. CASE DropForget(m)
  <2>1. /\ m.at = "forget" /\ bots' = [bots EXCEPT ![m.team] = Nil] /\ Move(m, [m EXCEPT !.at = "despawn"])
        /\ UNCHANGED <<race, vehicle, stored, switching, session, elapsed, docker, selected,
                       lost, launcher, poller, lock, signals, results, unwritten, used, fresh>>
    BY <1>9 DEF DropForget, Insert, engine, store, files
  <2> DEFINE n == [m EXCEPT !.at = "despawn"]
  <2>2. n \in Monitors /\ n.at = "despawn" /\ n.team = m.team /\ n.box = m.box /\ n.cur = m.cur
    BY <1>t DEF Monitors, MonitorSteps
  <2>3. Move(m, n)
    BY <2>1
  <2> HIDE DEF n
  <2>4. MonitorOK(n)
    BY <1>t, <2>1, <2>2 DEF MonitorOK
  <2>5. monitors' \subseteq Monitors /\ \A k \in monitors' : MonitorOK(k)
    BY <1>t, <2>2, <2>3, <2>4, MoveIs
  <2>6. /\ bots' \in [Teams -> Entries \cup {Nil}] /\ bots'[m.team] = Nil
        /\ \A t \in Teams : bots'[t] \in {bots[t], Nil}
    BY <1>m, <1>t, <2>1
  <2>7. TypeInv'
    BY <1>t, <2>1, <2>5, <2>6 DEF TypeInv, TypeOK
  <2>8. LaunchInv'
    BY <1>s, <2>1, <2>7, OtherMoves
  <2>9. DockerMoves /\ Dead(m.team, m.box)
    BY <1>d, <2>1 DEF DockerMoves
  <2>10. n.at \notin {"wait", "follow"} /\ bots'[n.team] = Nil
    BY <2>2, <2>6
  <2>11. WatchInv'
    BY <2>1, <2>2, <2>3, <2>6, <2>8, <2>9, <2>10, QuietMonitor
  <2>12. QED
    BY <2>8, <2>11
<1>10. CASE DropDespawn(m)
  <2>1. /\ m.at = "despawn" /\ End(m) /\ vehicle' = vehicle \ {m.cur.car} /\ ForgetCar(m.cur.car)
        /\ UNCHANGED <<race, session, elapsed, bots, docker, selected,
                       lost, launcher, poller, lock, signals, results, unwritten, used, fresh>>
    BY <1>10 DEF DropDespawn, ForgetCar, files
  <2>2. m.cur.car \in Cars
    BY <1>t, <2>1 DEF MonitorOK, Entries
  <2>3. /\ stored' \in [Cars -> Teams \cup {Nil}] /\ switching' \subseteq Cars
        /\ \A c \in Cars : stored'[c] \in {stored[c], Nil}
    BY <1>t, <2>1, <2>2, ForgetIs
  <2>4. monitors' \subseteq Monitors /\ \A k \in monitors' : MonitorOK(k)
    BY <1>t, <2>1, MoveIs
  <2>5. TypeInv'
    BY <1>t, <2>1, <2>3, <2>4 DEF TypeInv, TypeOK
  <2>6. LaunchInv'
    BY <2>1, <2>3, <2>5, OtherMoves
  <2>7. DockerMoves /\ (\A t \in Teams : bots'[t] \in {bots[t], Nil})
        /\ (bots'[m.team] = Nil \/ bots'[m.team].box # m.box)
    BY <1>n, <2>1 DEF DockerMoves, EndingOK
  <2>8. WatchInv'
    BY <2>1, <2>6, <2>7, QuietMonitor
  <2>9. QED
    BY <2>6, <2>8
<1>11. QED
  BY <1>1, <1>2, <1>3, <1>4, <1>5, <1>6, <1>7, <1>8, <1>9, <1>10 DEF MonitorStep

\* Steps of neither the launcher nor a monitor that start and register no container.
LEMMA QuietOther ==
    ASSUME LaunchInv, WatchInv, TypeInv', DockerMoves,
           \A c \in Cars : stored'[c] \in {stored[c], Nil},
           UNCHANGED <<lost, launcher, monitors>>, used'.boxes \in {used.boxes, used.boxes + 1},
           \A t \in Teams : bots'[t] \in {bots[t], Nil} \/ bots'[t].box \notin Boxes,
           poller' = poller \/ poller'.at # "follow",
           UNCHANGED <<session, elapsed, results, unwritten, signals, fresh>>
    PROVE  LaunchInv' /\ WatchInv'
<1>1. TypeInv
  BY DEF LaunchInv
<1>2. used.boxes \in Nat
  BY <1>1, Types, Constants DEF Uses
<1>3. used.boxes <= used'.boxes /\ lost \subseteq lost'
  BY <1>2
<1>4. \A m \in monitors : \E n \in monitors' : n.team = m.team /\ n.box = m.box
  OBVIOUS
<1>5. WatchInv'
  BY <1>1, <1>3, <1>4, QuietWatch
<1>6. LaunchInv'
  BY OtherMoves
<1>7. QED
  BY <1>5, <1>6

\* The poller at rest.
LEMMA PIdleIs ==
    /\ PIdle \in Pollers /\ PollerOK(PIdle) /\ PIdle.at = "idle"
BY DEF PIdle, Pollers, PollerOK

\* The poller's steps.
LEMMA PollerSound ==
    ASSUME LaunchInv, WatchInv,
           PollerStep \/ \E t \in Teams : Reconcile(t) \/ SwitchBegin(t)
    PROVE  LaunchInv' /\ WatchInv'
<1>t. /\ TypeInv /\ used \in Uses /\ PollerOK(poller) /\ poller \in Pollers /\ switching \subseteq Cars
      /\ bots \in [Teams -> Entries \cup {Nil}] /\ docker \in [Teams -> Containers \cup {Nil}]
      /\ selected \in [Teams -> Slots \cup {Nil}] /\ monitors \subseteq Monitors
      /\ \A m \in monitors : MonitorOK(m)
  BY Types DEF LaunchInv
<1>s. /\ UNCHANGED stored => \A c \in Cars : stored'[c] \in {stored[c], Nil}
      /\ UNCHANGED bots => \A t \in Teams : bots'[t] \in {bots[t], Nil}
      /\ UNCHANGED docker => DockerMoves
  BY DEF DockerMoves
<1>1. ASSUME NEW t \in Teams, Reconcile(t) PROVE LaunchInv' /\ WatchInv'
  <2>1. /\ poller' = [PIdle EXCEPT !.team = t, !.at = "remove"]
        /\ UNCHANGED <<race, vehicle, stored, switching, session, elapsed, bots, docker, selected, monitors,
                       lost, launcher, lock, signals, results, unwritten, used, fresh>>
    BY <1>1 DEF Reconcile, engine, store, files
  <2>2. poller' \in Pollers /\ poller'.at = "remove" /\ poller'.team = t
    BY <2>1 DEF PIdle, Pollers
  <2>3. PollerOK(poller')
    BY <2>2 DEF PollerOK
  <2>4. TypeInv'
    BY <1>t, <2>1, <2>2, <2>3 DEF TypeInv, TypeOK
  <2>5. QED
    BY <1>s, <2>1, <2>2, <2>4, QuietOther
<1>2. ASSUME NEW t \in Teams, SwitchBegin(t) PROVE LaunchInv' /\ WatchInv'
  <2>1. /\ bots[t] # Nil /\ selected[t] # Nil /\ lock' = "poller"
        /\ switching' = switching \cup {bots[t].car}
        /\ poller' = [PIdle EXCEPT !.at = "mark", !.team = t, !.cur = bots[t], !.slot = selected[t]]
        /\ UNCHANGED <<race, vehicle, stored, session, elapsed, bots, docker, selected, monitors,
                       lost, launcher, signals, results, unwritten, used, fresh>>
    BY <1>2 DEF SwitchBegin, engine, files
  <2>2. PICK e \in Entries, s \in Slots : e = bots[t] /\ s = selected[t]
    BY <1>t, <2>1
  <2>3. poller' = [at |-> "mark", team |-> t, cur |-> e, slot |-> s, new |-> Nil]
    BY <2>1, <2>2 DEF PIdle
  <2>4. poller' \in Pollers /\ poller'.at = "mark" /\ PollerOK(poller')
    BY <2>3 DEF Pollers, PollerOK
  <2>5. switching' \subseteq Cars
    BY <1>t, <2>1, <2>2 DEF Entries
  <2>6. TypeInv'
    BY <1>t, <2>1, <2>4, <2>5 DEF TypeInv, TypeOK
  <2>7. QED
    BY <1>s, <2>1, <2>4, <2>6, QuietOther
<1>3. CASE ReconcileRemove
  <2>1. /\ poller.at = "remove" /\ bots' = [bots EXCEPT ![poller.team] = Nil]
        /\ RemoveContainer(poller.team) /\ poller' = PIdle
        /\ UNCHANGED <<race, vehicle, stored, switching, session, elapsed, selected, monitors,
                       lost, launcher, lock, signals, results, unwritten, fresh>>
    BY <1>3 DEF ReconcileRemove, Insert, engine, store, files
  <2>2. poller.team \in Teams
    BY <1>t, <2>1 DEF PollerOK
  <2>3. /\ used' \in Uses /\ used'.boxes = used.boxes /\ docker' \in [Teams -> Containers \cup {Nil}]
        /\ \A u \in Teams : docker'[u] \in {docker[u], Nil}
    BY <1>t, <2>1, <2>2, RemoveIs
  <2>4. bots' \in [Teams -> Entries \cup {Nil}] /\ \A t \in Teams : bots'[t] \in {bots[t], Nil}
    BY <1>t, <2>1
  <2>5. TypeInv'
    BY <1>t, <2>1, <2>3, <2>4, PIdleIs DEF TypeInv, TypeOK, Containers, Uses
  <2>6. DockerMoves
    BY <2>3 DEF DockerMoves
  <2>7. QED
    BY <1>s, <2>1, <2>3, <2>4, <2>5, <2>6, PIdleIs, QuietOther
<1>4. CASE SwitchMark
  <2>0. /\ poller.at = "mark"
        /\ UNCHANGED <<race, vehicle, stored, session, elapsed, docker, selected, monitors,
                       lost, launcher, signals, results, unwritten, fresh>>
    BY <1>4 DEF SwitchMark, engine, files
  <2>p. poller.team \in Teams /\ poller.cur \in Entries /\ poller.slot \in Slots
    BY <1>t, <2>0 DEF PollerOK
  <2>1. CASE /\ bots' = [bots EXCEPT ![poller.team] =
                           IF bots[poller.team] = Nil THEN Nil
                           ELSE [bots[poller.team] EXCEPT !.box = Switching]]
             /\ poller' = [poller EXCEPT !.at = "swap"] /\ UNCHANGED <<switching, lock, used>>
    <3>1. poller' \in Pollers /\ poller'.at = "swap" /\ poller'.team = poller.team
          /\ poller'.cur = poller.cur /\ poller'.slot = poller.slot
      BY <1>t, <2>1 DEF Pollers
    <3>2. PollerOK(poller')
      BY <2>p, <3>1 DEF PollerOK
    <3>3. PICK e \in Entries \cup {Nil} :
            /\ bots' = [bots EXCEPT ![poller.team] = e] /\ (e = Nil \/ e.box \notin Boxes)
      <4>1. CASE bots[poller.team] = Nil
        BY <2>1, <4>1
      <4>2. CASE bots[poller.team] # Nil
        <5>1. PICK c \in Entries : c = bots[poller.team]
          BY <1>t, <2>p, <4>2
        <5>2. [c EXCEPT !.box = Switching] \in Entries /\ [c EXCEPT !.box = Switching].box = Switching
          BY DEF Entries
        <5>3. bots' = [bots EXCEPT ![poller.team] = [c EXCEPT !.box = Switching]]
          BY <2>1, <4>2, <5>1
        <5>4. QED
          BY <5>2, <5>3, Constants
      <4>3. QED
        BY <4>1, <4>2
    <3>4. /\ bots' \in [Teams -> Entries \cup {Nil}]
          /\ \A t \in Teams : bots'[t] \in {bots[t], Nil} \/ bots'[t].box \notin Boxes
      BY <1>t, <2>p, <3>3
    <3>5. TypeInv'
      BY <1>t, <2>0, <2>1, <3>1, <3>2, <3>4 DEF TypeInv, TypeOK
    <3>6. QED
      BY <1>s, <2>0, <2>1, <3>1, <3>4, <3>5, QuietOther
  <2>2. CASE /\ Fault /\ poller' = PIdle /\ lock' = Nil /\ UNCHANGED bots
             /\ switching' = switching \ {poller.cur.car}
    <3>1. used' \in Uses /\ used'.boxes = used.boxes
      BY <1>t, <2>2, FaultIs
    <3>2. TypeInv'
      BY <1>t, <2>0, <2>2, <3>1, PIdleIs DEF TypeInv, TypeOK, Uses
    <3>3. QED
      BY <1>s, <2>0, <2>2, <3>1, <3>2, PIdleIs, QuietOther
  <2>3. QED
    BY <1>4, <2>1, <2>2 DEF SwitchMark
<1>5. CASE SwitchSwap
  <2>0. /\ poller.at = "swap" /\ switching' = switching \ {poller.cur.car}
        /\ UNCHANGED <<race, vehicle, stored, session, elapsed, bots, selected, monitors,
                       lost, launcher, signals, results, unwritten, fresh>>
    BY <1>5 DEF SwitchSwap, engine, files
  <2>p. poller.team \in Teams /\ poller.cur \in Entries /\ poller.slot \in Slots
    BY <1>t, <2>0 DEF PollerOK
  <2>1. CASE /\ StartContainer(poller.team, poller.slot) /\ UNCHANGED lock
             /\ poller' = [poller EXCEPT !.at = "follow", !.new = used'.boxes]
    <3>1. /\ used' \in Uses /\ used'.boxes = used.boxes + 1 /\ used'.boxes \in Boxes
          /\ docker' \in [Teams -> Containers \cup {Nil}]
          /\ \A u \in Teams : docker'[u] = docker[u] \/ docker'[u].id = used.boxes + 1
      BY <1>t, <2>1, <2>p, StartIs
    <3>2. PICK b \in Boxes : b = used'.boxes
      BY <3>1
    <3>3. /\ poller' \in Pollers /\ poller'.at = "follow" /\ poller'.new = b /\ poller'.team = poller.team
          /\ poller'.cur = poller.cur /\ poller'.slot = poller.slot
      <4>1. poller' = [poller EXCEPT !.at = "follow", !.new = b]
        BY <2>1, <3>2
      <4>2. QED
        BY <1>t, <4>1 DEF Pollers
    <3>4. PollerOK(poller')
      BY <2>p, <3>3 DEF PollerOK
    <3>5. TypeInv'
      BY <1>t, <2>0, <2>1, <3>1, <3>3, <3>4 DEF TypeInv, TypeOK, Containers, Uses
    <3>6. LaunchInv'
      BY <1>s, <2>0, <3>5, OtherMoves
    <3>7. DockerMoves
      BY <3>1 DEF DockerMoves
    <3>8. WatchInv'
      BY <1>t, <2>0, <3>1, <3>2, <3>3, <3>5, <3>7, StartWatch
    <3>9. QED
      BY <3>6, <3>8
  <2>2. CASE StartFails(poller.team, poller.slot) /\ poller' = PIdle /\ lock' = Nil
    <3>1. /\ used' \in Uses /\ used'.boxes \in {used.boxes, used.boxes + 1}
          /\ docker' \in [Teams -> Containers \cup {Nil}]
          /\ \A u \in Teams : docker'[u] \in {docker[u], Nil} \/ docker'[u].id = used.boxes + 1
      BY <1>t, <2>2, <2>p, StartFailsIs
    <3>2. DockerMoves
      BY <3>1 DEF DockerMoves
    <3>3. TypeInv'
      BY <1>t, <2>0, <2>2, <3>1, PIdleIs DEF TypeInv, TypeOK, Containers, Uses
    <3>4. QED
      BY <1>s, <2>0, <2>2, <3>1, <3>2, <3>3, PIdleIs, QuietOther
  <2>3. QED
    BY <1>5, <2>1, <2>2 DEF SwitchSwap
<1>6. CASE SwitchFollow
  <2>1. /\ poller.at = "follow"
        /\ bots' = [bots EXCEPT ![poller.team] = Entry(poller.cur.car, poller.slot, poller.new, 0)]
        /\ monitors' = monitors \cup {Monitor(poller.team, poller.new)}
        /\ poller' = PIdle /\ lock' = Nil
        /\ UNCHANGED <<race, vehicle, stored, switching, session, elapsed, docker, selected,
                       lost, launcher, signals, results, unwritten, used, fresh>>
    BY <1>6 DEF SwitchFollow, Insert, engine, store, files
  <2>p. poller.team \in Teams /\ poller.cur \in Entries /\ poller.slot \in Slots /\ poller.new \in Boxes
    BY <1>t, <2>1 DEF PollerOK
  <2>2. PICK t \in Teams, b \in Boxes, c \in Cars, s \in Slots :
          t = poller.team /\ b = poller.new /\ c = poller.cur.car /\ s = poller.slot
    BY <2>p DEF Entries
  <2>3. PICK e \in Entries : e = Entry(c, s, b, 0) /\ e.box = b
    <3>1. 0 \in 0..MaxAttempts
      BY Constants
    <3>2. Entry(c, s, b, 0) \in Entries
      BY <3>1 DEF Entry, Entries
    <3>3. Entry(c, s, b, 0).box = b
      BY DEF Entry
    <3>4. QED
      BY <3>2, <3>3
  <2>4. bots' = [bots EXCEPT ![t] = e] /\ monitors' = monitors \cup {Monitor(t, b)}
    BY <2>1, <2>2, <2>3
  <2>5. /\ Monitor(t, b) \in Monitors /\ MonitorOK(Monitor(t, b)) /\ Monitor(t, b).at = "wait"
    BY MonitorIs
  <2>6. /\ bots' \in [Teams -> Entries \cup {Nil}] /\ monitors' \subseteq Monitors
        /\ \A m \in monitors' : MonitorOK(m)
    BY <1>t, <2>4, <2>5
  <2>7. TypeInv'
    BY <1>t, <2>1, <2>6, PIdleIs DEF TypeInv, TypeOK
  <2>8. LaunchInv'
    BY <1>s, <2>1, <2>7, OtherMoves
  <2>9. PendingBox(b)
    BY <2>1, <2>2 DEF PendingBox
  <2>n. PendingOK
    BY DEF WatchInv
  <2>10. ASSUME NEW x, PendingBox(x)' PROVE x # b
    <3>1. \/ launcher.at \in {"follow", "select", "refollow"} /\ x = launcher.cur.box
          \/ \E k \in monitors : k.at = "follow" /\ x = k.new
      BY <2>1, <2>4, <2>5, <2>10, PIdleIs DEF PendingBox
    <3>2. QED
      BY <2>1, <2>2, <2>n, <3>1 DEF PendingOK
  <2>11. /\ monitors' \subseteq monitors \cup {Monitor(t, b)} /\ Monitor(t, b) \in monitors'
         /\ \A m \in monitors : m \in monitors' \/ m.team = t
    BY <2>4
  <2>12. UNCHANGED <<docker, used, lost, launcher>> /\ poller'.at # "follow"
    BY <2>1, PIdleIs
  <2>13. WatchInv'
    BY <1>t, <2>3, <2>4, <2>9, <2>10, <2>11, <2>12, RegisterWatch
  <2>14. QED
    BY <2>8, <2>13
<1>7. QED
  BY <1>1, <1>2, <1>3, <1>4, <1>5, <1>6 DEF PollerStep

\* The world outside: bots exit, containers are removed, the race is preempted, teams
\* select slots, time passes and signal files come and go.
LEMMA WorldSound ==
    ASSUME LaunchInv, WatchInv,
           \/ \E t \in Teams : BotExits(t) \/ SandboxCleanupRemoves(t)
           \/ Preempt \/ TimePasses
           \/ \E t \in Teams, slot \in Slots : select_slot(t, slot)
           \/ \E s \in {"prepare", "start"} : Signal(s)
    PROVE  LaunchInv' /\ WatchInv'
<1>t. /\ TypeInv /\ used \in Uses /\ docker \in [Teams -> Containers \cup {Nil}]
      /\ selected \in [Teams -> Slots \cup {Nil}] /\ signals \in Marks /\ fresh \in BOOLEAN
      /\ elapsed \in BOOLEAN /\ launcher \in Launchers
  BY Types DEF LaunchInv
<1>o. /\ GridOK(launcher, stored) /\ SessionOK(launcher, session, results, unwritten)
      /\ SignalOK(launcher, signals, fresh, elapsed)
  BY DEF LaunchInv
<1>s. /\ UNCHANGED stored => \A c \in Cars : stored'[c] \in {stored[c], Nil}
      /\ UNCHANGED bots => \A t \in Teams : bots'[t] \in {bots[t], Nil}
      /\ UNCHANGED docker => DockerMoves
  BY DEF DockerMoves
<1>u. Event => used' \in Uses /\ used'.boxes = used.boxes
  BY <1>t, EventIs
<1>1. ASSUME NEW t \in Teams, BotExits(t) \/ SandboxCleanupRemoves(t) PROVE LaunchInv' /\ WatchInv'
  <2>1. /\ docker[t] # Nil /\ Event
        /\ \/ docker' = [docker EXCEPT ![t].running = FALSE]
           \/ docker' = [docker EXCEPT ![t] = Nil]
        /\ UNCHANGED <<race, vehicle, stored, switching, session, elapsed, bots, selected, monitors, lost,
                       launcher, poller, lock, signals, results, unwritten, fresh>>
    BY <1>1 DEF BotExits, SandboxCleanupRemoves, Running, engine, store, files
  <2>2. PICK c \in Containers : c = docker[t]
    BY <1>t, <2>1
  <2>3. PICK d \in Containers \cup {Nil} :
          docker' = [docker EXCEPT ![t] = d] /\ (d = Nil \/ d.running = FALSE)
    <3>1. CASE docker' = [docker EXCEPT ![t] = Nil]
      BY <3>1
    <3>2. CASE docker' = [docker EXCEPT ![t].running = FALSE]
      <4>1. docker' = [docker EXCEPT ![t] = [c EXCEPT !.running = FALSE]]
        BY <2>2, <3>2
      <4>2. [c EXCEPT !.running = FALSE] \in Containers /\ [c EXCEPT !.running = FALSE].running = FALSE
        BY DEF Containers
      <4>3. QED
        BY <4>1, <4>2
    <3>3. QED
      BY <2>1, <3>1, <3>2
  <2>4. docker' \in [Teams -> Containers \cup {Nil}] /\ DockerMoves
    BY <1>t, <2>3 DEF DockerMoves
  <2>5. TypeInv'
    BY <1>t, <1>u, <2>1, <2>4 DEF TypeInv, TypeOK, Containers, Uses
  <2>6. QED
    BY <1>s, <1>u, <2>1, <2>4, <2>5, QuietOther
<1>2. CASE Preempt
  <2>1. /\ race' = FALSE /\ vehicle' = {} /\ Event
        /\ UNCHANGED <<stored, switching, session, elapsed, bots, docker, selected, monitors, lost,
                       launcher, poller, lock, signals, results, unwritten, fresh>>
    BY <1>2 DEF Preempt, store, files
  <2>2. TypeInv'
    BY <1>t, <1>u, <2>1 DEF TypeInv, TypeOK, Uses
  <2>3. QED
    BY <1>s, <1>u, <2>1, <2>2, QuietOther
<1>3. ASSUME NEW t \in Teams, NEW slot \in Slots, select_slot(t, slot) PROVE LaunchInv' /\ WatchInv'
  <2>1. /\ selected' = [selected EXCEPT ![t] = slot] /\ Event
        /\ UNCHANGED <<race, vehicle, stored, switching, session, elapsed, bots, docker, monitors, lost,
                       launcher, poller, lock, signals, results, unwritten, fresh>>
    BY <1>3 DEF select_slot, engine, store, files
  <2>2. selected' \in [Teams -> Slots \cup {Nil}]
    BY <1>t, <2>1
  <2>3. TypeInv'
    BY <1>t, <1>u, <2>1, <2>2 DEF TypeInv, TypeOK, Uses
  <2>4. QED
    BY <1>s, <1>u, <2>1, <2>3, QuietOther
\* Neither the clock nor a file is any of the watch's business.
<1>w. ASSUME TypeInv', used'.boxes = used.boxes,
             UNCHANGED <<bots, docker, lost, launcher, monitors, poller>>
      PROVE  WatchInv'
  <2>1. used.boxes <= used'.boxes /\ lost \subseteq lost'
    <3>1. used.boxes \in Nat
      BY <1>t, Constants DEF Uses
    <3>2. QED
      BY <1>w, <3>1
  <2>2. \A m \in monitors : \E n \in monitors' : n.team = m.team /\ n.box = m.box
    BY <1>w
  <2>3. QED
    BY <1>s, <1>t, <1>w, <2>1, <2>2, QuietWatch
<1>4. CASE TimePasses
  <2>1. /\ launcher.at = "tick" /\ elapsed' = TRUE
        /\ UNCHANGED <<race, vehicle, stored, switching, session, bots, docker, selected, monitors, lost,
                       launcher, poller, lock, signals, results, unwritten, used, fresh>>
    BY <1>4 DEF TimePasses, LAt, engine, files
  <2>2. TypeInv'
    BY <1>t, <2>1 DEF TypeInv, TypeOK
  <2>3. SignalOK(launcher, signals, fresh, TRUE)
    BY <1>o, <2>1 DEF SignalOK
  <2>4. LaunchInv'
    BY <1>o, <2>1, <2>2, <2>3 DEF LaunchInv
  <2>5. WatchInv'
    BY <1>w, <2>1, <2>2
  <2>6. QED
    BY <2>4, <2>5
<1>5. ASSUME NEW s \in {"prepare", "start"}, Signal(s) PROVE LaunchInv' /\ WatchInv'
  <2>1. /\ launcher.at = "tick"
        /\ \/ /\ ~signals[s] /\ used.signals < MaxSignals
              /\ used' = [used EXCEPT !.signals = used.signals + 1]
              /\ fresh' = (fresh \/ s = "start")
           \/ signals[s] /\ UNCHANGED <<used, fresh>>
        /\ signals' = [signals EXCEPT ![s] = ~signals[s]]
        /\ UNCHANGED <<race, vehicle, stored, switching, session, elapsed, bots, docker, selected, monitors,
                       lost, launcher, poller, lock, results, unwritten>>
    BY <1>5 DEF Signal, LAt, engine, store
  <2>2. used' \in Uses /\ used'.boxes = used.boxes
    <3>1. CASE UNCHANGED used
      BY <1>t, <3>1
    <3>2. CASE used.signals < MaxSignals /\ used' = [used EXCEPT !.signals = used.signals + 1]
      <4>1. PICK n \in 0..MaxSignals : n = used.signals + 1
        BY <1>t, <3>2, Constants DEF Uses
      <4>2. used' = [used EXCEPT !.signals = n]
        BY <3>2, <4>1
      <4>3. QED
        BY <1>t, <4>2 DEF Uses
    <3>3. QED
      BY <2>1, <3>1, <3>2
  <2>3. signals' \in Marks /\ fresh' \in BOOLEAN
    BY <1>t, <2>1 DEF Marks
  <2>4. signals'.start => (signals.start /\ fresh' = fresh) \/ fresh'
    BY <1>t, <2>1 DEF Marks
  <2>5. TypeInv'
    BY <1>t, <2>1, <2>2, <2>3 DEF TypeInv, TypeOK, Uses
  <2>6. SignalOK(launcher, signals', fresh', elapsed)
    BY <1>o, <2>1, <2>4 DEF SignalOK
  <2>7. LaunchInv'
    BY <1>o, <2>1, <2>5, <2>6 DEF LaunchInv
  <2>8. WatchInv'
    BY <1>w, <2>1, <2>2, <2>5
  <2>9. QED
    BY <2>7, <2>8
<1>6. QED
  BY <1>1, <1>2, <1>3, <1>4, <1>5

-----------------------------------------------------------------------------
(* The theorems. *)

\* The server comes up with no race, no bots and no session.
LEMMA InitInv == Init => Inv
<1> SUFFICES ASSUME Init PROVE Inv
  OBVIOUS
<1>m. NoMarks \in Marks
  BY DEF NoMarks, Marks
<1>l. /\ launcher \in Launchers /\ launcher.at = "tick" /\ launcher.prev = NoMarks /\ launcher.rec = Nil
      /\ launcher.prepared = FALSE /\ launcher.why = "prepare" /\ launcher.index = 1
  BY <1>m DEF Init, Launchers, LauncherSteps
<1>p. poller \in Pollers /\ poller.at = "idle"
  BY DEF Init, Pollers
<1>u. used \in Uses
  BY Constants DEF Init, Uses
<1>1. TypeInv
  <2>1. TypeOK
    BY <1>l, <1>m, <1>p, <1>u DEF Init, TypeOK, Uses
  <2>2. LauncherOK(launcher) /\ PollerOK(poller) /\ \A m \in monitors : MonitorOK(m)
    BY <1>l, <1>p DEF Init, LauncherOK, PollerOK
  <2>3. QED
    BY <2>1, <2>2 DEF TypeInv
<1>2. GridOK(launcher, stored)
  BY <1>l DEF Init, GridOK, Gridding
<1>3. SessionOK(launcher, session, results, unwritten)
  BY <1>l DEF Init, SessionOK, Gridding, Cleaning, Resting
<1>4. SignalOK(launcher, signals, fresh, elapsed)
  BY <1>l DEF Init, SignalOK, NoMarks
<1>5. WatchInv
  <2>1. \A x : ~PendingBox(x)
    BY <1>l, <1>p DEF Init, PendingBox
  <2>2. \A t \in Teams : bots[t] = Nil
    BY DEF Init
  <2>3. monitors = {}
    BY DEF Init
  <2>4. QED
    BY <1>l, <1>p, <2>1, <2>2, <2>3 DEF WatchInv, NumbersOK, PendingOK, EndingOK, BotIsWatched
<1>6. QED
  BY <1>1, <1>2, <1>3, <1>4, <1>5 DEF Inv

\* Every step of the launcher, of a monitor, of the poller and of the world outside
\* preserves the invariant.
LEMMA NextInv == Inv /\ [Next]_vars => Inv'
<1> SUFFICES ASSUME Inv, [Next]_vars PROVE Inv'
  OBVIOUS
<1>i. LaunchInv /\ WatchInv
  BY DEF Inv, LaunchInv
<1>n. LaunchInv' /\ WatchInv' => Inv'
  BY DEF Inv, LaunchInv
<1>1. CASE LauncherStep \/ Shutdown
  BY <1>1, <1>i, <1>n, LauncherSound
<1>2. CASE PollerStep \/ \E t \in Teams : Reconcile(t) \/ SwitchBegin(t)
  BY <1>2, <1>i, <1>n, PollerSound
<1>3. ASSUME NEW m \in monitors, MonitorStep(m) \/ WaitFails(m) PROVE Inv'
  BY <1>3, <1>i, <1>n, MonitorSound
<1>4. CASE \/ \E t \in Teams : BotExits(t) \/ SandboxCleanupRemoves(t)
           \/ Preempt \/ TimePasses
           \/ \E t \in Teams, slot \in Slots : select_slot(t, slot)
           \/ \E s \in {"prepare", "start"} : Signal(s)
  BY <1>4, <1>i, <1>n, WorldSound
<1>5. CASE UNCHANGED vars
  <2>1. UNCHANGED <<race, vehicle, stored, switching, session, elapsed, bots, docker, selected, monitors,
                    lost, launcher, poller, lock, signals, results, unwritten, used, fresh>>
    BY <1>5 DEF vars
  <2>2. TypeInv' = TypeInv
    BY <2>1 DEF TypeInv, TypeOK
  <2>3. WatchInv'
    <3>1. \A x : PendingBox(x)' <=> PendingBox(x)
      BY <2>1 DEF PendingBox
    <3>2. QED
      BY <1>i, <2>1, <3>1 DEF WatchInv, NumbersOK, PendingOK, EndingOK, BotIsWatched, Watched, Dead
  <2>4. QED
    BY <1>i, <1>n, <2>1, <2>2, <2>3 DEF LaunchInv
<1>6. QED
  BY <1>1, <1>2, <1>3, <1>4, <1>5 DEF Next

\* The invariant holds in every reachable state.
LEMMA AlwaysInv == Spec => []Inv
<1>1. QED
  BY InitInv, NextInv, PTL DEF Spec

\* The invariant's grid: no team has two cars.
LEMMA OneCar == ASSUME Inv PROVE OneRaceCarPerTeam
<1> SUFFICES ASSUME NEW t \in Teams PROVE Cardinality({c \in Cars : stored[c] = t}) <= 1
  BY DEF OneRaceCarPerTeam
<1> DEFINE S == {c \in Cars : stored[c] = t}
<1>1. \A c, d \in S : c = d
  BY Constants DEF Inv, GridOK
<1>2. CASE S = {}
  BY <1>2, FS_EmptySet
<1>3. CASE S # {}
  <2>1. PICK c \in S : TRUE
    BY <1>3
  <2>2. S = {c}
    BY <1>1, <2>1
  <2>3. Cardinality({c}) = 1
    BY FS_Singleton
  <2>4. QED
    BY <2>2, <2>3
<1>4. QED
  BY <1>2, <1>3

\* What the teams of a race session rely on holds for any teams, rosters, slots, bounds
\* and failures: one car each at most (resolve_team_official_race_car), a registered bot
\* that an exit monitor watches unless docker/wait failed, a session whose state and
\* results agree with the launcher's.
THEOREM RaceTeamsSound == Spec => []RaceTeamsAreSound
<1>1. Inv => RaceTeamsAreSound
  <2> SUFFICES ASSUME Inv PROVE RaceTeamsAreSound
    OBVIOUS
  <2>1. TypeOK /\ BotIsWatched
    BY DEF Inv, TypeInv, WatchInv
  <2>2. SessionsRecorded
    BY DEF Inv, SessionOK, SessionsRecorded, Resting
  <2>3. QED
    BY <2>1, <2>2, OneCar DEF RaceTeamsAreSound
<1>2. QED
  BY <1>1, AlwaysInv, PTL

\* Only the end of the refresh starts a race.
LEMMA StartedByGo ==
    ASSUME TypeInv, LauncherStep \/ Shutdown, ~Go, ~launcher.started
    PROVE  ~launcher'.started
<1>t. launcher \in Launchers /\ LauncherOK(launcher) /\ NoMarks \in Marks /\ signals \in Marks
      /\ used \in Uses /\ docker \in [Teams -> Containers \cup {Nil}]
  BY Types DEF NoMarks, Marks
<1> DEFINE l == launcher
<1>n. ASSUME NEW f \in Launchers, ~f.started, launcher' = NextLine(f) PROVE ~launcher'.started
  BY <1>n, NextLineIs DEF SameRace
<1>a. ASSUME NEW f \in Launchers, f.index # 0, ~f.started, launcher' = AfterPrepare(f)
      PROVE  ~launcher'.started
  BY <1>a, AfterPrepareIs DEF SameRace
<1>f. ASSUME launcher' = AfterFailure PROVE ~launcher'.started
  BY <1>f, AfterFailureIs
<1>1. CASE Tick
  <2> DEFINE f == [l EXCEPT !.saw = signals]
  <2>1. f \in Launchers /\ f.index # 0 /\ f.started = l.started
    BY <1>t DEF Launchers, LauncherOK
  <2>2. \/ launcher' = AfterPrepare(f)
        \/ launcher' = [f EXCEPT !.at = "load", !.rec = Nil]
    BY <1>1 DEF Tick, LUpd
  <2> HIDE DEF f
  <2>3. CASE launcher' = [f EXCEPT !.at = "load", !.rec = Nil]
    BY <2>1, <2>3 DEF Launchers
  <2>4. QED
    BY <1>a, <2>1, <2>2, <2>3
<1>2. CASE LoadFails \/ SwitchFails
  BY <1>2, <1>f DEF LoadFails, SwitchFails, LUpd
<1>3. CASE Load
  <2>1. PICK r \in Rosters : BeginCleanup([l EXCEPT !.roster = r, !.index = 1, !.seen = {}])
    BY <1>3 DEF Load
  <2>2. launcher' = [[l EXCEPT !.roster = r, !.index = 1, !.seen = {}] EXCEPT !.at = "clean", !.todo = Snapshot]
    BY <2>1 DEF BeginCleanup
  <2>3. QED
    BY <1>t, <2>2 DEF Launchers
<1>4. CASE CleanRemove \/ CleanDespawn \/ SwitchRuntime
  BY <1>4, <1>t DEF CleanRemove, CleanDespawn, SwitchRuntime, LUpd, Launchers
<1>5. CASE CleanStale
  <2>1. \/ launcher' = l
        \/ launcher' = [l EXCEPT !.at = "switch"]
        \/ launcher' = [Idle EXCEPT !.at = "tick", !.saw = NoMarks, !.prepared = FALSE, !.started = FALSE]
    BY <1>5 DEF CleanStale, LUpd
  <2> DEFINE i == Idle
  <2>2. i \in Launchers
    BY IdleIs
  <2>3. launcher' = [i EXCEPT !.at = "tick", !.saw = NoMarks, !.prepared = FALSE, !.started = FALSE]
          => ~launcher'.started
    <3> HIDE DEF i
    <3>1. QED
      BY <2>2 DEF Launchers
  <2>4. QED
    BY <1>t, <2>1, <2>3 DEF Launchers
<1>6. CASE Grid
  <2>1. \/ \E S : launcher' = NextLine([l EXCEPT !.seen = S]) /\ S \in SUBSET Teams
        \/ \E S, e : launcher' = [l EXCEPT !.at = "run", !.seen = S, !.team = Line, !.cur = e]
    <3>1. Line \in Teams /\ l.seen \in SUBSET Teams
      BY <1>6, <1>t, LineIs DEF Grid, Launchers
    <3>2. CASE launcher.index > StartSlots \/ Line \in launcher.seen \/ ~race \/ used.cars = MaxCars
      <4>1. \E S \in {l.seen, l.seen \cup {Line}} : launcher' = NextLine([l EXCEPT !.seen = S])
        BY <1>6, <3>2 DEF Grid, LUpd
      <4>2. QED
        BY <3>1, <4>1
    <3>3. CASE ~(launcher.index > StartSlots \/ Line \in launcher.seen \/ ~race \/ used.cars = MaxCars)
      BY <1>6, <3>3 DEF Grid, LUpd
    <3>4. QED
      BY <3>2, <3>3
  <2>2. ASSUME NEW S \in SUBSET Teams, launcher' = NextLine([l EXCEPT !.seen = S]) PROVE ~launcher'.started
    <3> DEFINE f == [l EXCEPT !.seen = S]
    <3>1. f \in Launchers /\ f.started = l.started
      BY <1>t DEF Launchers
    <3> HIDE DEF f
    <3>2. launcher' = NextLine(f)
      BY <2>2 DEF f
    <3>3. QED
      BY <1>n, <3>1, <3>2
  <2>3. ASSUME NEW S, NEW e, launcher' = [l EXCEPT !.at = "run", !.seen = S, !.team = Line, !.cur = e]
        PROVE  ~launcher'.started
    BY <1>t, <2>3 DEF Launchers
  <2>4. QED
    BY <2>1, <2>2, <2>3
<1>7. CASE GridNoSlot
  <2>1. CASE launcher' = NextLine([l EXCEPT !.seen = l.seen \cup {Line}])
    <3> DEFINE f == [l EXCEPT !.seen = l.seen \cup {Line}]
    <3>1. Line \in Teams
      BY <1>7, LineIs DEF GridNoSlot
    <3>2. f \in Launchers /\ f.started = l.started
      BY <1>t, <3>1 DEF Launchers
    <3> HIDE DEF f
    <3>3. launcher' = NextLine(f)
      BY <2>1 DEF f
    <3>4. QED
      BY <1>n, <3>2, <3>3
  <2>2. QED
    BY <1>7, <1>f, <2>1 DEF GridNoSlot, LUpd
<1>8. CASE Run
  BY <1>8, <1>t DEF Run, LUpd, Launchers
<1>9. CASE LaunchSelect \/ Undo
  BY <1>9, <1>n, <1>t DEF LaunchSelect, Undo, LUpd
<1>10. CASE LaunchFollow \/ Refollow \/ TickTail \/ Shutdown
  BY <1>10, <1>t DEF LaunchFollow, Refollow, TickTail, Shutdown, LUpd, Launchers
<1>11. CASE Record
  <2> DEFINE i == Idle
             f == [i EXCEPT !.prepared = TRUE, !.started = FALSE, !.rec = used.sessions + 1]
  <2>1. launcher' = AfterPrepare(f) \/ launcher' = AfterFailure
    BY <1>11 DEF Record, LUpd
  <2>2. i \in Launchers /\ i.index = 1
    BY IdleIs
  <2>3. used.sessions + 1 \in Sessions
    BY <1>11, <1>t, Constants DEF Record, Uses, Sessions
  <2> HIDE DEF i
  <2>4. f \in Launchers
    BY <2>2, <2>3 DEF Launchers
  <2>5. f.started = FALSE /\ f.index = 1
    BY <2>2 DEF Launchers
  <2> HIDE DEF f
  <2>6. QED
    BY <1>a, <1>f, <2>1, <2>4, <2>5
<1>12. CASE Refresh
  <2>1. PICK w \in l.todo :
          \/ \E e : launcher' = [l EXCEPT !.at = "refollow", !.team = w.team, !.todo = l.todo \ {w}, !.cur = e]
          \/ launcher' = [l EXCEPT !.todo = l.todo \ {w}]
    BY <1>12 DEF Refresh, LUpd
  <2>2. QED
    BY <1>t, <2>1 DEF Launchers
<1>13. CASE Close
  <2>1. launcher' = [[l EXCEPT !.why = "close"] EXCEPT !.at = "clean", !.todo = Snapshot]
    BY <1>13 DEF Close, BeginCleanup
  <2>2. QED
    BY <1>t, <2>1 DEF Launchers
<1>14. QED
  BY <1>1, <1>2, <1>3, <1>4, <1>5, <1>6, <1>7, <1>8, <1>9, <1>10, <1>11, <1>12, <1>13 DEF LauncherStep

\* Each start of a race is preceded by an appearance of ".start" of its own: a file that
\* stays in place across ticks, closes, failed and implicit prepares starts one race.
THEOREM StartsSignalled == Spec => StartNeedsSignal
<1>1. Inv /\ [Next]_vars => [launcher'.started /\ ~launcher.started => fresh]_vars
  <2> SUFFICES ASSUME Inv, Next, launcher'.started, ~launcher.started PROVE fresh
    OBVIOUS
  <2>t. TypeInv
    BY DEF Inv
  <2>o. SignalOK(launcher, signals, fresh, elapsed)
    BY DEF Inv
  <2>1. CASE Go
    BY <2>1, <2>o DEF Go, LAt, SignalOK
  <2>2. CASE (LauncherStep \/ Shutdown) /\ ~Go
    BY <2>2, <2>t, StartedByGo
  <2>3. CASE UNCHANGED launcher
    BY <2>3
  <2>4. CASE PollerStep \/ \E m \in monitors : MonitorStep(m) \/ WaitFails(m)
    BY <2>3, <2>4 DEF PollerStep, ReconcileRemove, SwitchMark, SwitchSwap, SwitchFollow, MonitorStep,
       MonitorWakes, MonitorDelay, MonitorCheck, MonitorStart, MonitorFollow, MonitorGivesUp, ParkRemove,
       DropForget, DropDespawn, WaitFails
  <2>5. QED
    BY <2>1, <2>2, <2>3, <2>4 DEF Next, Reconcile, SwitchBegin, BotExits, SandboxCleanupRemoves, Preempt,
       TimePasses, select_slot, Signal
<1>2. QED
  BY <1>1, AlwaysInv, PTL DEF Spec, StartNeedsSignal

\* Only a dead bot's car is parked to wait for another slot: the monitor of a replaced
\* container, however late, does not give up the bot that replaced it, since it gives up
\* only an entry that still names its own container and has waited for that one to die.
THEOREM DeadBotsParked == Spec => OnlyDeadBotsParked
<1>1. Inv /\ [Next]_vars =>
        [\A t \in Teams :
           bots'[t] # Nil /\ bots'[t].box = Awaiting /\ bots'[t] # bots[t]
             => bots[t] # Nil /\ Dead(t, bots[t].box)]_vars
  <2> SUFFICES ASSUME Inv, Next, NEW t \in Teams, bots'[t] # Nil, bots'[t].box = Awaiting,
                      bots'[t] # bots[t]
               PROVE  bots[t] # Nil /\ Dead(t, bots[t].box)
    OBVIOUS
  <2>t. /\ TypeInv /\ bots \in [Teams -> Entries \cup {Nil}] /\ LauncherOK(launcher) /\ PollerOK(poller)
        /\ (\A m \in monitors : MonitorOK(m) /\ m \in Monitors) /\ Awaiting \notin Boxes
    BY Types, Constants DEF Inv
  <2>e. EndingOK
    BY DEF Inv, WatchInv
  \* What is written to the registry names a container, unless a monitor gives up.
  <2>i. ASSUME NEW u, NEW e, Insert(u, e), e = Nil \/ e.box \in Boxes PROVE FALSE
    BY <2>i, <2>t DEF Insert
  <2>u. ASSUME UNCHANGED bots PROVE FALSE
    BY <2>u
  <2>1. CASE LauncherStep \/ Shutdown
    <3>1. CASE CleanRemove
      BY <2>i, <2>u, <3>1 DEF CleanRemove
    <3>2. CASE LaunchFollow \/ Refollow
      <4>1. Insert(launcher.team, launcher.cur) /\ launcher.cur.box \in Boxes
        BY <2>t, <3>2 DEF LaunchFollow, Refollow, LAt, LauncherOK
      <4>2. QED
        BY <2>i, <4>1
    <3>3. QED
      BY <2>1, <2>u, <3>1, <3>2 DEF LauncherStep, Shutdown, Tick, LoadFails, Load, CleanDespawn, CleanStale,
         SwitchRuntime, SwitchFails, Grid, GridNoSlot, Run, LaunchSelect, Undo, Record, Refresh, Go,
         TickTail, Close
  <2>2. CASE PollerStep
    <3>1. CASE ReconcileRemove
      BY <2>i, <3>1 DEF ReconcileRemove
    <3>2. CASE SwitchMark
      <4>1. bots' = [bots EXCEPT ![poller.team] =
                       IF bots[poller.team] = Nil THEN Nil ELSE [bots[poller.team] EXCEPT !.box = Switching]]
        BY <2>u, <3>2 DEF SwitchMark
      <4>2. CASE bots[poller.team] = Nil
        BY <2>t, <4>1, <4>2
      <4>3. CASE bots[poller.team] # Nil /\ t = poller.team
        <5>1. PICK c \in Entries : c = bots[t]
          BY <2>t, <4>3
        <5>2. bots'[t] = [c EXCEPT !.box = Switching]
          BY <2>t, <4>1, <4>3, <5>1
        <5>3. bots'[t].box = Switching
          BY <5>2 DEF Entries
        <5>4. QED
          BY <5>3, Constants
      <4>4. CASE t # poller.team
        BY <2>t, <4>1, <4>4
      <4>5. QED
        BY <4>2, <4>3, <4>4
    <3>3. CASE SwitchFollow
      <4>1. /\ Insert(poller.team, Entry(poller.cur.car, poller.slot, poller.new, 0))
            /\ poller.new \in Boxes
        BY <2>t, <3>3 DEF SwitchFollow, PollerOK
      <4>2. Entry(poller.cur.car, poller.slot, poller.new, 0).box = poller.new
        BY DEF Entry
      <4>3. QED
        BY <2>i, <4>1, <4>2
    <3>4. QED
      BY <2>2, <2>u, <3>1, <3>2, <3>3 DEF PollerStep, SwitchSwap
  <2>3. ASSUME NEW m \in monitors, MonitorStep(m) \/ WaitFails(m)
        PROVE  bots[t] # Nil /\ Dead(t, bots[t].box)
    <3>1. CASE MonitorFollow(m)
      <4>1. m.cur \in Entries /\ m.new \in Boxes
        BY <2>t, <3>1 DEF MonitorFollow, MonitorOK
      <4>2. ASSUME NEW n PROVE [m.cur EXCEPT !.box = m.new, !.attempts = n].box = m.new
        BY <4>1 DEF Entries
      <4>3. Insert(m.team, [m.cur EXCEPT !.box = m.new,
                              !.attempts = IF m.started THEN m.cur.attempts + 1 ELSE 0])
        BY <3>1 DEF MonitorFollow
      <4>4. PICK n : n = IF m.started THEN m.cur.attempts + 1 ELSE 0
        OBVIOUS
      <4>5. PICK e : e = [m.cur EXCEPT !.box = m.new, !.attempts = n]
        OBVIOUS
      <4>6. Insert(m.team, e) /\ e.box \in Boxes
        BY <4>1, <4>2, <4>3, <4>4, <4>5
      <4>7. QED
        BY <2>i, <4>6
    <3>2. CASE MonitorGivesUp(m)
      <4>1. Owns(m) /\ \E e : bots' = [bots EXCEPT ![m.team] = e]
        BY <2>u, <3>2 DEF MonitorGivesUp, Insert
      <4>2. t = m.team
        BY <2>t, <4>1
      <4>3. m.at = "giveup"
        BY <3>2 DEF MonitorGivesUp
      <4>4. QED
        BY <2>e, <4>1, <4>2, <4>3 DEF Owns, EndingOK
    <3>3. CASE DropForget(m)
      BY <2>i, <3>3 DEF DropForget
    <3>4. QED
      BY <2>3, <2>u, <3>1, <3>2, <3>3 DEF MonitorStep, MonitorWakes, MonitorDelay, MonitorCheck, MonitorStart,
         ParkRemove, DropDespawn, WaitFails
  <2>4. QED
    BY <2>1, <2>2, <2>3, <2>u DEF Next, Reconcile, SwitchBegin, BotExits, SandboxCleanupRemoves, Preempt,
       TimePasses, select_slot, Signal
<1>2. QED
  BY <1>1, AlwaysInv, PTL DEF Spec, OnlyDeadBotsParked
=============================================================================
