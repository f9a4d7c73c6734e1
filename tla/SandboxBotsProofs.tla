------------------------- MODULE SandboxBotsProofs -------------------------
(***************************************************************************)
(* Proofs about team bots in the official sandboxes (SandboxBots), for any *)
(* number of teams, sandboxes, slots, cars, containers and cancelled       *)
(* commands: a team has one vehicle at most, no vehicle and no bot is left *)
(* behind, logs, loaded slot and switch flag are those of the team's bot,  *)
(* and a switch keeps its car.                                             *)
(***************************************************************************)
EXTENDS SandboxBots, FiniteSetTheorems, TLAPS

-----------------------------------------------------------------------------
(* The inductive invariant. *)

\* The steps of the operations: the clean-up of an existing join, a join from its
\* vehicle to its record, its rollback, and the swap of a container.
Cleaning == {"inspect", "container", "despawn", "forget"}
Building == {"place", "known", "target", "start", "capture", "persist"}
Undoing == {"undo_container", "undo_despawn", "undo_forget"}
Swapping == {"swap", "follow"}

\* What the holder of the lock (l) knows at each step: whether its team has a join,
\* what it carries with it, and that there was room for a car and a container.
HolderOK(l, reg, c, b) ==
    l # Nil =>
      /\ reg[l.team] # Nil <=> l.at \in Cleaning \cup Swapping
      /\ l.car # Nil <=> l.at \in Building \cup Undoing
      /\ l.at \in Building \cup Undoing \cup {"resolve", "spawn"} => l.op = "join"
      /\ l.at \in Building \cup Undoing \cup {"spawn"} => l.sandbox # Nil
      /\ l.at \in Swapping <=> l.op = "switch"
      /\ l.op \in {"join", "switch"} => l.slot # Nil
      /\ l.op = "join" /\ l.at \notin Building \cup Undoing => c < MaxCars
      /\ \/ l.op = "join" /\ l.at \notin {"capture", "persist"} \cup Undoing
         \/ l.at = "swap"
         => b < MaxBots

\* The cars of a team: that of its join, those the store gives it, and that of the
\* join under way.  Once the orphans are cleaned up there is none.
Owns(t, n, reg, own, l) ==
    \/ reg[t] # Nil /\ reg[t].car = n
    \/ own[n] = t
    \/ l # Nil /\ l.team = t /\ l.car = n

OneCar(reg, own, l) ==
    /\ \A t \in Teams : \A m, n \in Cars :
          Owns(t, m, reg, own, l) /\ Owns(t, n, reg, own, l) => m = n
    /\ l # Nil /\ l.at \in {"resolve", "spawn"} => \A n \in Cars : own[n] # l.team

\* A car with an owner can be found as an orphan, but for the moment between the
\* store's maps.
StoreOK(kn, tg, own, l) ==
    \A n \in Cars : own[n] # Nil =>
        n \in kn /\ (tg[n] # Nil \/ (l # Nil /\ l.at = "target" /\ l.car = n))

\* Every vehicle has somebody who will despawn it; forgotten cars have none.
VehiclesOK(v, la, reg, l, dr) ==
    /\ \A n \in Cars : v[n] # Nil =>
          \/ n \in la \cup dr.cars
          \/ \E t \in Teams : reg[t] # Nil /\ reg[t].car = n
          \/ l # Nil /\ l.car = n
    /\ l # Nil /\ l.at = "forget" => v[reg[l.team].car] = Nil \/ reg[l.team].car \in la
    /\ l # Nil /\ l.at = "undo_forget" => v[l.car] = Nil \/ l.car \in la

\* Every bot has somebody who will stop it; the one just started is the team's.
ContainersOK(d, ref, reg, l, b, dr) ==
    /\ \A t \in Teams : d[t] # Nil =>
          \/ reg[t] # Nil \/ t \in ref \/ d[t].id \in dr.bots \/ ~d[t].running
          \/ l # Nil /\ l.team = t /\ l.at \in {"capture", "persist", "undo_container"}
    /\ l # Nil /\ l.at \in {"despawn", "forget"} => d[l.team] = Nil \/ l.team \in ref
    /\ l # Nil /\ l.at \in {"capture", "persist", "follow"} =>
          d[l.team] # Nil /\ d[l.team].id = b /\ d[l.team].slot = l.slot

\* Captured logs are those of a join, or of the one about to be recorded.
LogsOK(cp, reg, l, b, dr) ==
    /\ \A t \in Teams : cp[t] # Nil =>
          \/ reg[t] # Nil /\ reg[t].bot = cp[t]
          \/ cp[t] \in dr.bots
          \/ l # Nil /\ l.team = t /\ l.at = "persist" /\ cp[t] = b
    /\ l # Nil /\ l.at \in {"despawn", "forget"} => cp[l.team] = Nil

\* A recorded bot has been started, and has the recorded slot.
SlotsOK(d, reg, b) ==
    \A t \in Teams : reg[t] # Nil =>
        /\ reg[t].bot <= b
        /\ d[t] # Nil /\ d[t].id = reg[t].bot => d[t].slot = reg[t].slot

FlagOK(sw, reg, l) ==
    sw # {} => l # Nil /\ l.op = "switch" /\ sw = {reg[l.team].car}

Inv == /\ TypeOK
       /\ HolderOK(lock, registry, cars, bots)
       /\ OneCar(registry, owner, lock)
       /\ StoreOK(known, target, owner, lock)
       /\ VehiclesOK(vehicle, late, registry, lock, dropped)
       /\ ContainersOK(docker, refused, registry, lock, bots, dropped)
       /\ LogsOK(capture, registry, lock, bots, dropped)
       /\ SlotsOK(docker, registry, bots)
       /\ FlagOK(switching, registry, lock)

-----------------------------------------------------------------------------
(* Constants, types and the lock. *)

\* What the constants are.
LEMMA Constants ==
    /\ MaxCars \in Nat /\ MaxBots \in Nat /\ MaxActivations \in Nat /\ MaxCancels \in Nat
    /\ Nil \notin Sandboxes /\ Nil \notin Slots /\ Nil \notin Teams
    /\ Nil \notin Cars /\ Nil \notin BotIds
    /\ Nil \notin Joins /\ Nil \notin Bots /\ Nil \notin Holders
    /\ Cars \subseteq Nat /\ BotIds \subseteq Nat
<1>1. Cars \subseteq Nat /\ BotIds \subseteq Nat
  BY BotsAssumption DEF Cars, BotIds
<1>2. QED
  BY <1>1, BotsAssumption, NilAssumption

\* The holder goes on to another step and keeps what it carries.
Moved(s) ==
    /\ lock' \in Holders /\ lock' # Nil /\ lock'.at = s
    /\ lock'.op = lock.op /\ lock'.team = lock.team /\ lock'.sandbox = lock.sandbox
    /\ lock'.slot = lock.slot /\ lock'.car = lock.car

\* Goto moves the holder.
LEMMA GotoMoves ==
    ASSUME lock \in Holders, NEW s \in Steps, Goto(s)
    PROVE  Moved(s)
<1>1. lock' = [lock EXCEPT !.at = s]
  BY DEF Goto
<1>2. lock' \in Holders
  BY <1>1 DEF Holders
<1>3. /\ lock'.at = s
      /\ lock'.op = lock.op /\ lock'.team = lock.team /\ lock'.sandbox = lock.sandbox
      /\ lock'.slot = lock.slot /\ lock'.car = lock.car
  BY <1>1 DEF Holders
<1> QED
  BY <1>2, <1>3, Constants DEF Moved

\* Hold gives the lock to a new operation.
LEMMA HoldTakes ==
    ASSUME NEW op \in Ops, NEW s \in Steps, NEW t \in Teams,
           NEW sb \in Sandboxes \cup {Nil}, NEW slot \in Slots \cup {Nil},
           Hold(op, s, t, sb, slot)
    PROVE  /\ lock' \in Holders /\ lock' # Nil /\ lock'.at = s /\ lock'.op = op
           /\ lock'.team = t /\ lock'.sandbox = sb /\ lock'.slot = slot /\ lock'.car = Nil
<1>1. lock' = [op |-> op, at |-> s, team |-> t, sandbox |-> sb,
               slot |-> slot, car |-> Nil, failed |-> FALSE]
  BY DEF Hold
<1>2. lock' \in Holders
  BY <1>1 DEF Holders
<1> QED
  BY <1>1, <1>2, Constants

\* What is known of the holder at a step.
LEMMA HolderIs ==
    ASSUME Inv, lock # Nil
    PROVE  /\ lock \in Holders /\ lock.at \in Steps /\ lock.op \in Ops /\ lock.team \in Teams
           /\ lock.sandbox \in Sandboxes \cup {Nil} /\ lock.slot \in Slots \cup {Nil}
           /\ lock.car \in Cars \cup {Nil}
           /\ lock.car # Nil <=> lock.at \in Building \cup Undoing
           /\ registry[lock.team] \in Joins \cup {Nil}
           /\ registry[lock.team] # Nil <=> lock.at \in Cleaning \cup Swapping
           /\ docker[lock.team] \in Bots \cup {Nil}
<1>1. lock \in Holders
  BY DEF Inv, TypeOK
<1>2. /\ lock.at \in Steps /\ lock.op \in Ops /\ lock.team \in Teams
      /\ lock.sandbox \in Sandboxes \cup {Nil} /\ lock.slot \in Slots \cup {Nil}
      /\ lock.car \in Cars \cup {Nil}
  BY <1>1 DEF Holders
<1>3. /\ registry[lock.team] \in Joins \cup {Nil} /\ docker[lock.team] \in Bots \cup {Nil}
  BY <1>2 DEF Inv, TypeOK
<1> QED
  BY <1>1, <1>2, <1>3 DEF Inv, HolderOK

\* The operations start from the empty state.
LEMMA InitInv == Init => Inv
<1> SUFFICES ASSUME Init PROVE Inv
  OBVIOUS
<1>1. TypeOK
  BY Constants DEF Init, TypeOK
<1>2. /\ HolderOK(lock, registry, cars, bots)
      /\ OneCar(registry, owner, lock)
      /\ StoreOK(known, target, owner, lock)
      /\ VehiclesOK(vehicle, late, registry, lock, dropped)
      /\ ContainersOK(docker, refused, registry, lock, bots, dropped)
      /\ LogsOK(capture, registry, lock, bots, dropped)
      /\ SlotsOK(docker, registry, bots)
      /\ FlagOK(switching, registry, lock)
  BY Constants DEF Init, HolderOK, OneCar, Owns, StoreOK, VehiclesOK, ContainersOK, LogsOK,
                   SlotsOK, FlagOK
<1> QED
  BY <1>1, <1>2 DEF Inv

-----------------------------------------------------------------------------
(* Steps that need not hold the lock: they only take things away. *)

\* A step that takes cars out of the store, vehicles out of the worlds, captures away or
\* bots down, and leaves joins, lock and counters alone, preserves the invariant.
LEMMA TakesAway ==
    ASSUME Inv, TypeOK',
           UNCHANGED <<registry, lock, cars, bots, dropped, refused>>,
           \A n \in Cars : owner'[n] # Nil =>
               owner'[n] = owner[n] /\ (n \in known => n \in known') /\ target'[n] = target[n],
           \A n \in Cars : vehicle'[n] # Nil =>
               vehicle'[n] = vehicle[n] /\ (n \in late => n \in late'),
           \A t \in Teams : \/ docker'[t] = docker[t]
                            \/ /\ docker[t] # Nil /\ docker'[t] # Nil /\ ~docker'[t].running
                               /\ docker'[t].id = docker[t].id /\ docker'[t].slot = docker[t].slot,
           \A t \in Teams : capture'[t] \in {capture[t], Nil},
           switching' \subseteq switching
    PROVE  Inv'
<1>1. HolderOK(lock, registry, cars, bots)'
  BY DEF Inv
<1>2. OneCar(registry, owner, lock)'
  <2>1. \A t \in Teams, n \in Cars :
          Owns(t, n, registry, owner, lock)' => Owns(t, n, registry, owner, lock)
    BY Constants DEF Owns
  <2>2. lock # Nil => lock.team \in Teams
    BY HolderIs
  <2> QED
    BY <2>1, <2>2, Constants DEF Inv, OneCar
<1>3. StoreOK(known, target, owner, lock)'
  BY DEF Inv, StoreOK
<1>4. VehiclesOK(vehicle, late, registry, lock, dropped)'
  <2>1. \A n \in Cars : vehicle'[n] # Nil =>
          \/ n \in late \cup dropped.cars
          \/ \E t \in Teams : registry[t] # Nil /\ registry[t].car = n
          \/ lock # Nil /\ lock.car = n
    BY DEF Inv, VehiclesOK
  <2>2. \A n \in Cars : vehicle[n] = Nil \/ n \in late => vehicle'[n] = Nil \/ n \in late'
    OBVIOUS
  <2>3. ASSUME lock # Nil, lock.at = "forget"
        PROVE  registry[lock.team].car \in Cars
    BY <2>3, HolderIs DEF Cleaning, Joins
  <2>4. ASSUME lock # Nil, lock.at = "undo_forget"
        PROVE  lock.car \in Cars
    BY <2>4, HolderIs DEF Undoing
  <2>5. lock # Nil /\ lock.at = "forget" =>
           vehicle[registry[lock.team].car] = Nil \/ registry[lock.team].car \in late
    BY DEF Inv, VehiclesOK
  <2>6. lock # Nil /\ lock.at = "undo_forget" => vehicle[lock.car] = Nil \/ lock.car \in late
    BY DEF Inv, VehiclesOK
  <2>7. \A n \in Cars : vehicle'[n] # Nil =>
          \/ n \in late' \cup dropped'.cars
          \/ \E t \in Teams : registry'[t] # Nil /\ registry'[t].car = n
          \/ lock' # Nil /\ lock'.car = n
    BY <2>1
  <2> QED
    BY <2>2, <2>3, <2>4, <2>5, <2>6, <2>7 DEF VehiclesOK
<1>5. ContainersOK(docker, refused, registry, lock, bots, dropped)'
  <2>1. lock # Nil => lock.team \in Teams
    BY HolderIs
  <2> QED
    BY <2>1 DEF Inv, ContainersOK
<1>6. LogsOK(capture, registry, lock, bots, dropped)'
  <2>1. lock # Nil => lock.team \in Teams
    BY HolderIs
  <2> QED
    BY <2>1 DEF Inv, LogsOK
<1>7. SlotsOK(docker, registry, bots)'
  BY DEF Inv, SlotsOK
<1>8. FlagOK(switching, registry, lock)'
  BY DEF Inv, FlagOK
<1> QED
  BY <1>1, <1>2, <1>3, <1>4, <1>5, <1>6, <1>7, <1>8 DEF Inv

\* remove_car forgets one car and keeps the others.
LEMMA Removes ==
    ASSUME TypeOK, NEW n \in Cars, remove_car(n)
    PROVE  /\ known' \subseteq Cars /\ switching' \subseteq Cars
           /\ target' \in [Cars -> Sandboxes \cup {Nil}]
           /\ owner' \in [Cars -> Teams \cup {Nil}]
           /\ switching' \subseteq switching
           /\ n \notin switching'
           /\ owner'[n] = Nil /\ target'[n] = Nil
           /\ \A m \in Cars : m # n =>
                 /\ m \in known' <=> m \in known
                 /\ m \in switching' <=> m \in switching
                 /\ target'[m] = target[m] /\ owner'[m] = owner[m]
BY DEF TypeOK, remove_car

\* A despawn leaves no vehicle, or a command for it.
LEMMA Despawns ==
    ASSUME TypeOK, NEW n \in Cars, Despawn(n)
    PROVE  /\ vehicle' \in [Cars -> Sandboxes \cup {Nil}] /\ late' \subseteq Cars
           /\ vehicle'[n] = Nil \/ n \in late'
           /\ \A m \in Cars : vehicle'[m] # Nil => vehicle'[m] = vehicle[m]
           /\ \A m \in late : m \in late'
BY DEF TypeOK, Despawn

\* The steps of streams, hub, worker, administrators, bots and captures.
LEMMA OthersPreserve ==
    ASSUME Inv,
           \/ \E t \in Teams : Connect(t) \/ BotExits(t) \/ CaptureEnds(t)
           \/ \E s \in streams : StreamBreaks(s) \/ StreamQuits(s)
           \/ \E n \in Cars : HubSees(n) \/ WorkerDespawns(n)
           \/ HubRemoves
           \/ \E sb \in Sandboxes : Activate(sb) \/ Deactivate(sb)
           \/ \E t \in Teams, slot \in Slots : select_slot(t, slot)
           \/ UNCHANGED vars
    PROVE  Inv'
<1> USE DEF engine, store, boxes, counters
<1>1. TypeOK
  BY DEF Inv
<1>2. ASSUME NEW t \in Teams, Connect(t)
      PROVE  Inv'
  <2>1. registry[t] \in Joins /\ docker[t] \in Bots
    BY <1>1, <1>2, Constants DEF Connect, Running, TypeOK
  <2>2. [car |-> registry[t].car, team |-> t, bot |-> docker[t].id]
           \in [car: Cars, team: Teams, bot: BotIds]
    BY <2>1 DEF Joins, Bots
  <2>3. TypeOK'
    BY <2>2, <1>1, <1>2 DEF Connect, TypeOK
  <2> QED
    BY <2>3, <1>2, TakesAway DEF Connect
<1>3. ASSUME NEW t \in Teams, BotExits(t)
      PROVE  Inv'
  <2>1. docker[t] \in Bots
    BY <1>1, <1>3, Constants DEF BotExits, Running, TypeOK
  <2> DEFINE b == [docker[t] EXCEPT !.running = FALSE]
  <2>2. b \in Bots /\ b # Nil /\ b.id = docker[t].id /\ b.slot = docker[t].slot /\ ~b.running
    BY <2>1, Constants DEF Bots
  <2>3. docker' = [docker EXCEPT ![t] = b]
    BY <1>3 DEF BotExits
  <2> HIDE DEF b
  <2>4. docker' \in [Teams -> Bots \cup {Nil}] /\ docker'[t] = b
        /\ \A u \in Teams : u # t => docker'[u] = docker[u]
    BY <2>2, <2>3, <1>1 DEF TypeOK
  <2>5. docker[t] # Nil
    BY <1>3 DEF BotExits, Running
  <2>6. TypeOK'
    BY <2>4, <1>1, <1>3 DEF BotExits, TypeOK
  <2>7. \A u \in Teams : \/ docker'[u] = docker[u]
                         \/ /\ docker[u] # Nil /\ docker'[u] # Nil /\ ~docker'[u].running
                            /\ docker'[u].id = docker[u].id /\ docker'[u].slot = docker[u].slot
    BY <2>2, <2>4, <2>5
  <2> QED
    BY <2>6, <2>7, <1>3, TakesAway DEF BotExits
<1>4. ASSUME NEW t \in Teams, CaptureEnds(t)
      PROVE  Inv'
  <2>1. TypeOK' /\ \A u \in Teams : capture'[u] \in {capture[u], Nil}
    BY <1>1, <1>4 DEF CaptureEnds, StopCapture, TypeOK
  <2> QED
    BY <2>1, <1>4, TakesAway DEF CaptureEnds
<1>5. ASSUME NEW s \in streams, EndStream(s)
      PROVE  Inv'
  <2>1. s.car \in Cars
    BY <1>1 DEF TypeOK
  <2>2. CASE s.car \in switching
    <3>1. TypeOK'
      BY <1>1, <1>5, <2>2 DEF EndStream, TypeOK
    <3> QED
      BY <3>1, <1>5, <2>2, TakesAway DEF EndStream
  <2>3. CASE s.car \notin switching
    <3>1. remove_car(s.car) /\ late' \subseteq Cars /\ late \subseteq late'
      BY <1>1, <1>5, <2>1, <2>3 DEF EndStream, TypeOK
    <3>2. /\ known' \subseteq Cars /\ switching' \subseteq Cars
          /\ target' \in [Cars -> Sandboxes \cup {Nil}]
          /\ owner' \in [Cars -> Teams \cup {Nil}]
          /\ switching' \subseteq switching
          /\ \A n \in Cars : owner'[n] # Nil =>
               owner'[n] = owner[n] /\ (n \in known => n \in known') /\ target'[n] = target[n]
      BY <3>1, <2>1, <1>1, Removes
    <3>3. TypeOK'
      BY <3>1, <3>2, <1>1, <1>5 DEF EndStream, TypeOK
    <3> QED
      BY <3>1, <3>2, <3>3, <1>5, TakesAway DEF EndStream
  <2> QED
    BY <2>2, <2>3
<1>6. ASSUME NEW n \in Cars, HubSees(n)
      PROVE  Inv'
  <2>1. TypeOK'
    BY <1>1, <1>6 DEF HubSees, TypeOK
  <2> QED
    BY <2>1, <1>6, TakesAway DEF HubSees
<1>7. ASSUME NEW n \in Cars, WorkerDespawns(n)
      PROVE  Inv'
  <2>1. TypeOK'
    BY <1>1, <1>7 DEF WorkerDespawns, TypeOK
  <2>2. \A m \in Cars : vehicle'[m] # Nil => vehicle'[m] = vehicle[m] /\ (m \in late => m \in late')
    BY <1>1, <1>7 DEF WorkerDespawns, TypeOK
  <2> QED
    BY <2>1, <2>2, <1>7, TakesAway DEF WorkerDespawns
<1>8. CASE HubRemoves
  <2>1. hub \in Cars /\ remove_car(hub)
    BY <1>1, <1>8 DEF HubRemoves, TypeOK
  <2>2. /\ known' \subseteq Cars /\ switching' \subseteq Cars
        /\ target' \in [Cars -> Sandboxes \cup {Nil}]
        /\ owner' \in [Cars -> Teams \cup {Nil}]
        /\ switching' \subseteq switching
        /\ \A n \in Cars : owner'[n] # Nil =>
             owner'[n] = owner[n] /\ (n \in known => n \in known') /\ target'[n] = target[n]
    BY <2>1, <1>1, Removes
  <2>3. TypeOK'
    BY <2>2, <1>1, <1>8 DEF HubRemoves, TypeOK
  <2> QED
    BY <2>2, <2>3, <1>8, TakesAway DEF HubRemoves
<1>9. ASSUME NEW sb \in Sandboxes, Activate(sb) \/ Deactivate(sb)
      PROVE  Inv'
  <2>1. TypeOK'
    <3>1. /\ activations' \in 0..MaxActivations
          /\ active' \subseteq Sandboxes
          /\ vehicle' \in [Cars -> Sandboxes \cup {Nil}]
      BY <1>1, <1>9, Constants DEF Activate, Deactivate, TypeOK
    <3> QED
      BY <3>1, <1>1, <1>9 DEF Activate, Deactivate, TypeOK
  <2>2. \A m \in Cars : vehicle'[m] # Nil => vehicle'[m] = vehicle[m] /\ (m \in late => m \in late')
    BY <1>1, <1>9 DEF Activate, Deactivate, TypeOK
  <2> QED
    BY <2>1, <2>2, <1>9, TakesAway DEF Activate, Deactivate
<1>10. ASSUME NEW t \in Teams, NEW slot \in Slots, select_slot(t, slot)
       PROVE  Inv'
  <2>1. TypeOK'
    BY <1>1, <1>10 DEF select_slot, TypeOK
  <2> QED
    BY <2>1, <1>10, TakesAway DEF select_slot
<1>11. CASE UNCHANGED vars
  <2>1. TypeOK'
    BY <1>1, <1>11 DEF vars, TypeOK
  <2> QED
    BY <2>1, <1>11, TakesAway DEF vars
<1> QED
  BY <1>2, <1>3, <1>4, <1>5, <1>6, <1>7, <1>8, <1>9, <1>10, <1>11
     DEF StreamBreaks, StreamQuits

-----------------------------------------------------------------------------
(* Steps of an operation that only look: begins, inspections, decisions. *)

\* A holder at one of these steps has built nothing yet.
Looking == {"inspect", "container", "orphans", "resolve", "spawn"}

\* A step that changes only where the lock is, among the steps that have built nothing,
\* preserves the invariant when the new holder is in order; a capture may be resumed.
LEMMA Looks ==
    ASSUME Inv, TypeOK',
           UNCHANGED <<vehicle, late, known, target, owner, switching, registry, docker,
                       refused, cars, bots, dropped>>,
           lock # Nil => lock.at \in Looking,
           lock' # Nil => lock'.at \in Looking /\ lock'.car = Nil,
           HolderOK(lock, registry, cars, bots)',
           lock' # Nil /\ lock'.at \in {"resolve", "spawn"}
               => \A n \in Cars : owner[n] # lock'.team,
           \A t \in Teams : \/ capture'[t] = capture[t]
                            \/ registry[t] # Nil /\ capture'[t] = registry[t].bot
    PROVE  Inv'
<1>1. lock # Nil => lock.car = Nil /\ lock.op # "switch"
  BY HolderIs DEF Looking, Building, Undoing, Inv, HolderOK, Swapping
<1>2. OneCar(registry, owner, lock)'
  <2>1. \A t \in Teams, n \in Cars :
          Owns(t, n, registry, owner, lock)' => Owns(t, n, registry, owner, lock)
    BY Constants DEF Owns
  <2> QED
    BY <2>1 DEF Inv, OneCar
<1>3. StoreOK(known, target, owner, lock)'
  BY DEF Inv, StoreOK, Looking
<1>4. VehiclesOK(vehicle, late, registry, lock, dropped)'
  BY <1>1, Constants DEF Inv, VehiclesOK, Looking
<1>5. ContainersOK(docker, refused, registry, lock, bots, dropped)'
  BY DEF Inv, ContainersOK, Looking
<1>6. LogsOK(capture, registry, lock, bots, dropped)'
  BY DEF Inv, LogsOK, Looking
<1>7. SlotsOK(docker, registry, bots)'
  BY DEF Inv, SlotsOK
<1>8. FlagOK(switching, registry, lock)'
  BY <1>1 DEF Inv, FlagOK
<1> QED
  BY <1>2, <1>3, <1>4, <1>5, <1>6, <1>7, <1>8 DEF Inv

\* The begins of operations (but for the switch), inspections and decisions.
LEMMA LooksPreserve ==
    ASSUME Inv,
           \/ JoinInspect \/ OrphansDone \/ JoinResolve
           \/ MonitorInspect \/ ReconcileInspect \/ ReconcileFails
           \/ \E t \in Teams, sb \in Sandboxes, slot \in Slots : JoinBegin(t, sb, slot)
           \/ \E t \in Teams : LeaveBegin(t) \/ ReconcileBegin(t)
           \/ \E m \in monitors : MonitorWakes(m)
    PROVE  Inv'
<1> USE DEF engine, store, boxes, counters
<1>1. TypeOK
  BY DEF Inv
<1>2. ASSUME NEW t \in Teams, NEW sb \in Sandboxes, NEW slot \in Slots, JoinBegin(t, sb, slot)
      PROVE  Inv'
  <2> DEFINE s == IF registry[t] = Nil THEN "orphans"
                  ELSE IF registry[t].sandbox \in active /\ CarPresent(registry[t].car)
                       THEN "inspect" ELSE "container"
             b == IF sb \in active THEN sb ELSE Nil
  <2>1. /\ s \in {"orphans", "inspect", "container"} /\ (s = "orphans" <=> registry[t] = Nil)
        /\ b \in Sandboxes \cup {Nil}
    OBVIOUS
  <2>2. Hold("join", s, t, b, slot)
    BY <1>2 DEF JoinBegin
  <2> HIDE DEF s, b
  <2>3. s \in Steps /\ "join" \in Ops
    BY <2>1 DEF Steps, Ops
  <2>4. /\ lock' \in Holders /\ lock' # Nil /\ lock'.at = s /\ lock'.op = "join"
        /\ lock'.team = t /\ lock'.slot = slot /\ lock'.car = Nil
    BY <2>1, <2>2, <2>3, HoldTakes
  <2>5. TypeOK'
    BY <2>4, <1>1, <1>2 DEF JoinBegin, TypeOK
  <2>6. HolderOK(lock, registry, cars, bots)'
    BY <2>1, <2>4, <1>2, Constants DEF JoinBegin, HolderOK, Cleaning, Building, Undoing, Swapping
  <2> QED
    BY <2>1, <2>4, <2>5, <2>6, <1>2, Looks DEF JoinBegin, Looking
<1>3. ASSUME NEW t \in Teams, LeaveBegin(t) \/ ReconcileBegin(t)
      PROVE  Inv'
  <2>1. PICK op \in {"leave", "reconcile"}, s \in {"orphans", "inspect", "container"} :
           /\ Hold(op, s, t, Nil, Nil) /\ (s = "orphans" <=> registry[t] = Nil)
           /\ lock = Nil
    BY <1>3 DEF LeaveBegin, ReconcileBegin
  <2>2. s \in Steps /\ op \in Ops
    BY <2>1 DEF Steps, Ops
  <2>3. /\ lock' \in Holders /\ lock' # Nil /\ lock'.at = s /\ lock'.op = op
        /\ lock'.team = t /\ lock'.car = Nil
    BY <2>1, <2>2, HoldTakes
  <2>4. TypeOK'
    BY <2>3, <1>1, <1>3 DEF LeaveBegin, ReconcileBegin, TypeOK
  <2>5. HolderOK(lock, registry, cars, bots)'
    BY <2>1, <2>3, <1>3
       DEF LeaveBegin, ReconcileBegin, HolderOK, Cleaning, Building, Undoing, Swapping
  <2> QED
    BY <2>1, <2>3, <2>4, <2>5, <1>3, Looks DEF LeaveBegin, ReconcileBegin, Looking
<1>4. ASSUME NEW m \in monitors, MonitorWakes(m)
      PROVE  Inv'
  <2>1. m.team \in Teams
    BY <1>1 DEF TypeOK
  <2>2. CASE lock' = Nil
    <3>1. TypeOK'
      BY <2>2, <1>1, <1>4 DEF MonitorWakes, TypeOK
    <3>2. HolderOK(lock, registry, cars, bots)'
      BY <2>2 DEF HolderOK
    <3> QED
      BY <2>2, <3>1, <3>2, <1>4, Looks DEF MonitorWakes
  <2>3. CASE lock' # Nil
    <3>1. PICK s \in {"inspect", "container"} :
            Hold("monitor", s, m.team, Nil, Nil) /\ registry[m.team] # Nil
      BY <2>3, <1>4 DEF MonitorWakes
    <3>2. s \in Steps /\ "monitor" \in Ops
      BY DEF Steps, Ops
    <3>3. /\ lock' \in Holders /\ lock' # Nil /\ lock'.at = s /\ lock'.op = "monitor"
          /\ lock'.team = m.team /\ lock'.car = Nil
      BY <2>1, <3>1, <3>2, HoldTakes
    <3>4. TypeOK'
      BY <3>3, <1>1, <1>4 DEF MonitorWakes, TypeOK
    <3>5. HolderOK(lock, registry, cars, bots)'
      BY <3>1, <3>3, <1>4
         DEF MonitorWakes, HolderOK, Cleaning, Building, Undoing, Swapping
    <3> QED
      BY <3>1, <3>3, <3>4, <3>5, <1>4, Looks DEF MonitorWakes, Looking
  <2> QED
    BY <2>2, <2>3
<1>5. CASE JoinInspect \/ MonitorInspect \/ ReconcileInspect \/ ReconcileFails
  <2>1. /\ lock # Nil /\ lock.at = "inspect" /\ (Release \/ Goto("container"))
        /\ UNCHANGED <<engine, store, registry, docker, refused, monitors, streams, selected,
                       hub, counters>>
    BY <1>5 DEF JoinInspect, MonitorInspect, ReconcileInspect, ReconcileFails, At
  <2>2. lock \in Holders /\ lock.team \in Teams /\ registry[lock.team] \in Joins
    BY <2>1, HolderIs DEF Cleaning
  <2>3. /\ \A t \in Teams : \/ capture'[t] = capture[t]
                            \/ registry[t] # Nil /\ capture'[t] = registry[t].bot
        /\ capture' \in [Teams -> BotIds \cup {Nil}]
    <3>1. registry[lock.team].bot \in BotIds /\ registry[lock.team] # Nil
      BY <2>2, Constants DEF Joins
    <3> QED
      BY <3>1, <2>2, <1>1, <1>5
         DEF JoinInspect, MonitorInspect, ReconcileInspect, ReconcileFails, TypeOK, Team, Join
  <2>4. CASE Release
    <3>1. lock' = Nil
      BY <2>4 DEF Release
    <3>2. TypeOK'
      BY <2>1, <2>3, <3>1, <1>1 DEF TypeOK
    <3>3. HolderOK(lock, registry, cars, bots)'
      BY <3>1 DEF HolderOK
    <3> QED
      BY <2>1, <2>3, <3>1, <3>2, <3>3, Looks DEF Looking
  <2>5. CASE Goto("container")
    <3>1. Moved("container")
      BY <2>2, <2>5, GotoMoves DEF Steps
    <3>2. TypeOK'
      BY <2>1, <2>3, <3>1, <1>1 DEF TypeOK, Moved
    <3>3. HolderOK(lock, registry, cars, bots)'
      BY <2>1, <2>2, <3>1 DEF Moved, Inv, HolderOK, Cleaning, Building, Undoing, Swapping
    <3>4. lock'.car = Nil
      BY <2>1, <3>1, HolderIs DEF Moved, Building, Undoing
    <3> QED
      BY <2>1, <2>3, <3>1, <3>2, <3>3, <3>4, Looks DEF Looking, Moved
  <2> QED
    BY <2>1, <2>4, <2>5
<1>6. CASE OrphansDone
  <2>1. /\ lock # Nil /\ lock.at = "orphans" /\ ~ \E n \in Cars : IsOrphan(n, lock.team)
        /\ UNCHANGED <<engine, store, registry, boxes, streams, selected, hub, counters>>
        /\ Release \/ (lock.op = "join" /\ Goto("resolve"))
    BY <1>6 DEF OrphansDone, At, Team
  <2>2. lock \in Holders /\ lock.team \in Teams /\ lock.car = Nil /\ registry[lock.team] = Nil
    BY <2>1, HolderIs DEF Cleaning, Building, Undoing, Swapping
  <2>3. \A n \in Cars : owner[n] # lock.team
    BY <2>1, <2>2, Constants DEF Inv, StoreOK, IsOrphan
  <2>4. CASE Release
    <3>1. lock' = Nil
      BY <2>4 DEF Release
    <3>2. TypeOK'
      BY <2>1, <3>1, <1>1 DEF TypeOK
    <3>3. HolderOK(lock, registry, cars, bots)'
      BY <3>1 DEF HolderOK
    <3> QED
      BY <2>1, <3>1, <3>2, <3>3, Looks DEF Looking
  <2>5. CASE lock.op = "join" /\ Goto("resolve")
    <3>1. Moved("resolve")
      BY <2>2, <2>5, GotoMoves DEF Steps
    <3>2. TypeOK'
      BY <2>1, <3>1, <1>1 DEF TypeOK, Moved
    <3>3. HolderOK(lock, registry, cars, bots)'
      BY <2>1, <2>2, <2>5, <3>1 DEF Moved, Inv, HolderOK, Cleaning, Building, Undoing, Swapping
    <3> QED
      BY <2>1, <2>2, <2>3, <3>1, <3>2, <3>3, Looks DEF Looking, Moved
  <2> QED
    BY <2>1, <2>4, <2>5
<1>7. CASE JoinResolve
  <2>1. /\ lock # Nil /\ lock.at = "resolve"
        /\ UNCHANGED <<engine, store, registry, boxes, streams, selected, hub, counters>>
        /\ Release \/ (lock.sandbox # Nil /\ Goto("spawn"))
    BY <1>7 DEF JoinResolve, At
  <2>2. lock \in Holders /\ lock.team \in Teams /\ lock.car = Nil /\ registry[lock.team] = Nil
    BY <2>1, HolderIs DEF Cleaning, Building, Undoing, Swapping
  <2>3. \A n \in Cars : owner[n] # lock.team
    BY <2>1 DEF Inv, OneCar
  <2>4. CASE Release
    <3>1. lock' = Nil
      BY <2>4 DEF Release
    <3>2. TypeOK'
      BY <2>1, <3>1, <1>1 DEF TypeOK
    <3>3. HolderOK(lock, registry, cars, bots)'
      BY <3>1 DEF HolderOK
    <3> QED
      BY <2>1, <3>1, <3>2, <3>3, Looks DEF Looking
  <2>5. CASE lock.sandbox # Nil /\ Goto("spawn")
    <3>1. Moved("spawn")
      BY <2>2, <2>5, GotoMoves DEF Steps
    <3>2. TypeOK'
      BY <2>1, <3>1, <1>1 DEF TypeOK, Moved
    <3>3. HolderOK(lock, registry, cars, bots)'
      BY <2>1, <2>2, <2>5, <3>1 DEF Moved, Inv, HolderOK, Cleaning, Building, Undoing, Swapping
    <3> QED
      BY <2>1, <2>2, <2>3, <3>1, <3>2, <3>3, Looks DEF Looking, Moved
  <2> QED
    BY <2>1, <2>4, <2>5
<1> QED
  BY <1>2, <1>3, <1>4, <1>5, <1>6, <1>7

-----------------------------------------------------------------------------
(* The steps of a join, from the vehicle to the record. *)

\* Orphans are despawned and forgotten.
LEMMA OrphanPreserves == ASSUME Inv, CleanOrphan PROVE Inv'
<1> USE DEF engine, store, boxes, counters
<1>1. TypeOK
  BY DEF Inv
<1>2. PICK n \in Cars : Despawn(n) /\ remove_car(n)
  BY DEF CleanOrphan
<1>3. /\ vehicle' \in [Cars -> Sandboxes \cup {Nil}] /\ late' \subseteq Cars
      /\ \A m \in Cars : vehicle'[m] # Nil => vehicle'[m] = vehicle[m]
      /\ \A m \in late : m \in late'
  BY <1>1, <1>2, Despawns
<1>4. /\ known' \subseteq Cars /\ switching' \subseteq Cars
      /\ target' \in [Cars -> Sandboxes \cup {Nil}]
      /\ owner' \in [Cars -> Teams \cup {Nil}]
      /\ switching' \subseteq switching
      /\ \A m \in Cars : owner'[m] # Nil =>
           owner'[m] = owner[m] /\ (m \in known => m \in known') /\ target'[m] = target[m]
  BY <1>1, <1>2, Removes
<1>5. TypeOK'
  BY <1>1, <1>3, <1>4 DEF CleanOrphan, TypeOK
<1> QED
  BY <1>3, <1>4, <1>5, TakesAway DEF CleanOrphan

\* An operation that releases the lock at a step where it has built nothing, or whose
\* vehicle, bot and logs are gone, leaves everything in order.
LEMMA Releases ==
    ASSUME Inv, TypeOK', lock # Nil, lock' = Nil,
           UNCHANGED <<known, target, owner, switching, registry, docker, refused, capture,
                       late, dropped, bots>>,
           lock.op # "switch", lock.at \notin {"target", "capture", "persist", "undo_container"},
           \A n \in Cars : vehicle'[n] # Nil =>
               vehicle'[n] = vehicle[n] /\ (lock.car = n => n \in late \cup dropped.cars)
    PROVE  Inv'
<1>1. HolderOK(lock, registry, cars, bots)'
  BY DEF HolderOK
<1>2. OneCar(registry, owner, lock)'
  BY DEF Inv, OneCar, Owns
<1>3. StoreOK(known, target, owner, lock)'
  BY DEF Inv, StoreOK
<1>4. VehiclesOK(vehicle, late, registry, lock, dropped)'
  BY DEF Inv, VehiclesOK
<1>5. ContainersOK(docker, refused, registry, lock, bots, dropped)'
  BY DEF Inv, ContainersOK
<1>6. LogsOK(capture, registry, lock, bots, dropped)'
  BY DEF Inv, LogsOK
<1>7. SlotsOK(docker, registry, bots)'
  BY DEF Inv, SlotsOK
<1>8. FlagOK(switching, registry, lock)'
  BY DEF Inv, FlagOK
<1> QED
  BY <1>1, <1>2, <1>3, <1>4, <1>5, <1>6, <1>7, <1>8 DEF Inv

\* The new vehicle is the only car of its team.
LEMMA SpawnPreserves == ASSUME Inv, JoinSpawn PROVE Inv'
<1> USE DEF engine, store, boxes, counters
<1>1. TypeOK /\ lock # Nil /\ lock.at = "spawn"
  BY DEF Inv, JoinSpawn, At
<1>2. /\ lock \in Holders /\ lock.team \in Teams /\ lock.car = Nil /\ registry[lock.team] = Nil
      /\ lock.op = "join" /\ lock.sandbox \in Sandboxes /\ lock.slot # Nil
      /\ cars < MaxCars /\ bots < MaxBots
      /\ \A n \in Cars : owner[n] # lock.team
  BY <1>1, HolderIs DEF Inv, HolderOK, OneCar, Cleaning, Building, Undoing, Swapping
<1>3. CASE lock.sandbox \in active
  <2> DEFINE c == cars + 1
  <2>1. c \in Cars /\ cars' = c /\ c \in 0..MaxCars
    BY <1>1, <1>2, <1>3, Constants DEF JoinSpawn, Cars, TypeOK
  <2>2. lock' = [lock EXCEPT !.at = "place", !.car = c]
    BY <1>3 DEF JoinSpawn
  <2>3. vehicle' = [vehicle EXCEPT ![c] = lock.sandbox]
    BY <1>3 DEF JoinSpawn
  <2> HIDE DEF c
  <2>4. lock' \in Holders
    BY <1>2, <2>1, <2>2 DEF Holders, Steps
  <2>5. /\ lock'.at = "place" /\ lock'.car = c /\ lock'.op = "join" /\ lock'.team = lock.team
        /\ lock'.sandbox = lock.sandbox /\ lock'.slot = lock.slot /\ lock' # Nil /\ c # Nil
    BY <1>2, <2>1, <2>2, <2>4, Constants DEF Holders
  <2>6. /\ vehicle' \in [Cars -> Sandboxes \cup {Nil}]
        /\ \A n \in Cars : n # c => vehicle'[n] = vehicle[n]
    BY <1>1, <1>2, <2>1, <2>3 DEF TypeOK
  <2>7. TypeOK'
    BY <1>1, <2>1, <2>4, <2>6 DEF JoinSpawn, TypeOK
  <2>8. HolderOK(lock, registry, cars, bots)'
    BY <1>2, <2>5, Constants
       DEF JoinSpawn, HolderOK, Cleaning, Building, Undoing, Swapping
  <2>9. OneCar(registry, owner, lock)'
    <3>1. \A t \in Teams, n \in Cars : Owns(t, n, registry, owner, lock)' =>
             IF t = lock.team THEN n = c ELSE Owns(t, n, registry, owner, lock)
      BY <1>2, <2>5 DEF Owns, JoinSpawn
    <3> QED
      BY <3>1, <2>5 DEF Inv, OneCar
  <2>10. StoreOK(known, target, owner, lock)'
    BY <1>1, <2>5 DEF Inv, StoreOK, JoinSpawn
  <2>11. VehiclesOK(vehicle, late, registry, lock, dropped)'
    BY <1>2, <2>5, <2>6, Constants DEF Inv, VehiclesOK, JoinSpawn
  <2>12. ContainersOK(docker, refused, registry, lock, bots, dropped)'
    BY <1>1, <2>5 DEF Inv, ContainersOK, JoinSpawn
  <2>13. LogsOK(capture, registry, lock, bots, dropped)'
    BY <1>1, <2>5 DEF Inv, LogsOK, JoinSpawn
  <2>14. SlotsOK(docker, registry, bots)'
    BY DEF Inv, SlotsOK, JoinSpawn
  <2>15. FlagOK(switching, registry, lock)'
    BY <1>2 DEF Inv, FlagOK, JoinSpawn
  <2> QED
    BY <2>7, <2>8, <2>9, <2>10, <2>11, <2>12, <2>13, <2>14, <2>15 DEF Inv
<1>4. CASE lock.sandbox \notin active
  <2>1. lock' = Nil /\ vehicle' = vehicle /\ cars' = cars
    BY <1>4 DEF JoinSpawn, Release
  <2>2. TypeOK'
    BY <1>1, <2>1 DEF JoinSpawn, TypeOK
  <2> QED
    BY <1>1, <1>2, <2>1, <2>2, Constants, Releases DEF JoinSpawn
<1> QED
  BY <1>3, <1>4

\* A vehicle that cannot be placed is despawned.
LEMMA PlacePreserves == ASSUME Inv, JoinPlace PROVE Inv'
<1> USE DEF engine, store, boxes, counters
<1>1. TypeOK /\ lock # Nil /\ lock.at = "place"
  BY DEF Inv, JoinPlace, At
<1>2. /\ lock \in Holders /\ lock.team \in Teams /\ lock.car \in Cars
      /\ lock.op = "join"
  BY <1>1, HolderIs DEF Inv, HolderOK, Building
<1>3. CASE Goto("known") /\ UNCHANGED vehicle
  <2>1. Moved("known") /\ vehicle' = vehicle
    BY <1>2, <1>3, GotoMoves DEF Steps
  <2>2. TypeOK'
    BY <1>1, <2>1 DEF JoinPlace, TypeOK, Moved
  <2>3. HolderOK(lock, registry, cars, bots)'
    BY <1>1, <2>1 DEF Inv, JoinPlace, Moved, HolderOK, Cleaning, Building, Undoing, Swapping
  <2>4. OneCar(registry, owner, lock)'
    BY <1>1, <2>1 DEF Inv, JoinPlace, Moved, OneCar, Owns
  <2>5. StoreOK(known, target, owner, lock)'
    BY <1>1, <2>1 DEF Inv, JoinPlace, Moved, StoreOK
  <2>6. VehiclesOK(vehicle, late, registry, lock, dropped)'
    BY <1>1, <2>1 DEF Inv, JoinPlace, Moved, VehiclesOK
  <2>7. ContainersOK(docker, refused, registry, lock, bots, dropped)'
    BY <1>1, <2>1 DEF Inv, JoinPlace, Moved, ContainersOK
  <2>8. LogsOK(capture, registry, lock, bots, dropped)'
    BY <1>1, <2>1 DEF Inv, JoinPlace, Moved, LogsOK
  <2>9. SlotsOK(docker, registry, bots)' /\ FlagOK(switching, registry, lock)'
    BY <1>1, <2>1 DEF Inv, JoinPlace, Moved, SlotsOK, FlagOK
  <2> QED
    BY <2>2, <2>3, <2>4, <2>5, <2>6, <2>7, <2>8, <2>9 DEF Inv
<1>4. CASE vehicle' = [vehicle EXCEPT ![lock.car] = Nil] /\ Release
  <2>1. /\ lock' = Nil /\ vehicle' \in [Cars -> Sandboxes \cup {Nil}]
        /\ \A n \in Cars : vehicle'[n] # Nil => vehicle'[n] = vehicle[n] /\ lock.car # n
    BY <1>1, <1>2, <1>4 DEF Release, TypeOK
  <2>2. TypeOK'
    BY <1>1, <2>1 DEF JoinPlace, TypeOK
  <2> QED
    BY <1>1, <1>2, <2>1, <2>2, Releases DEF JoinPlace
<1> QED
  BY <1>3, <1>4 DEF JoinPlace

\* The store learns of the car: first that it is known, then where it is.
LEMMA RegisterPreserves == ASSUME Inv, JoinKnown \/ JoinTarget PROVE Inv'
<1> USE DEF engine, store, boxes, counters
<1>1. TypeOK /\ lock # Nil /\ lock.at \in {"known", "target"}
  BY DEF Inv, JoinKnown, JoinTarget, At
<1>2. /\ lock \in Holders /\ lock.team \in Teams /\ lock.car \in Cars
      /\ lock.op = "join" /\ lock.sandbox \in Sandboxes
  BY <1>1, HolderIs DEF Inv, HolderOK, Building
<1>3. PICK s \in {"target", "start"} : Moved(s)
  BY <1>2, GotoMoves DEF JoinKnown, JoinTarget, Steps
<1>4. UNCHANGED <<active, activations, vehicle, late, switching, registry, docker, refused,
                  monitors, capture, streams, selected, hub, cars, bots, cancels, dropped>>
  BY DEF JoinKnown, JoinTarget
<1>5. HolderOK(lock, registry, cars, bots)'
  BY <1>1, <1>3, <1>4 DEF Inv, Moved, HolderOK, Cleaning, Building, Undoing, Swapping
<1>6. VehiclesOK(vehicle, late, registry, lock, dropped)'
  BY <1>1, <1>3, <1>4 DEF Inv, Moved, VehiclesOK
<1>7. ContainersOK(docker, refused, registry, lock, bots, dropped)'
  BY <1>1, <1>3, <1>4 DEF Inv, Moved, ContainersOK
<1>8. LogsOK(capture, registry, lock, bots, dropped)'
  BY <1>1, <1>3, <1>4 DEF Inv, Moved, LogsOK
<1>9. SlotsOK(docker, registry, bots)' /\ FlagOK(switching, registry, lock)'
  BY <1>1, <1>3, <1>4 DEF Inv, Moved, SlotsOK, FlagOK
<1>10. CASE JoinKnown
  <2>1. Moved("target") /\ UNCHANGED target
    BY <1>2, <1>10, GotoMoves DEF JoinKnown, Steps
  <2>2. /\ owner' \in [Cars -> Teams \cup {Nil}] /\ known' \subseteq Cars
        /\ owner'[lock.car] = lock.team /\ lock.car \in known' /\ known \subseteq known'
        /\ \A n \in Cars : n # lock.car => owner'[n] = owner[n]
    BY <1>1, <1>2, <1>10 DEF JoinKnown, Team, TypeOK
  <2>3. TypeOK'
    BY <1>1, <1>4, <2>1, <2>2 DEF Moved, TypeOK
  <2>4. OneCar(registry, owner, lock)'
    <3>1. \A t \in Teams, n \in Cars :
            Owns(t, n, registry, owner, lock)' => Owns(t, n, registry, owner, lock)
      BY <1>1, <1>4, <2>1, <2>2 DEF Owns, Moved
    <3> QED
      BY <3>1, <2>1 DEF Inv, OneCar, Moved
  <2>5. StoreOK(known, target, owner, lock)'
    BY <1>1, <1>10, <2>1, <2>2 DEF Inv, StoreOK, Moved, JoinKnown, At
  <2> QED
    BY <1>5, <1>6, <1>7, <1>8, <1>9, <2>3, <2>4, <2>5 DEF Inv
<1>11. CASE JoinTarget
  <2>1. Moved("start") /\ UNCHANGED <<known, owner>>
    BY <1>2, <1>11, GotoMoves DEF JoinTarget, Steps
  <2>2. /\ target' \in [Cars -> Sandboxes \cup {Nil}]
        /\ target'[lock.car] # Nil
        /\ \A n \in Cars : n # lock.car => target'[n] = target[n]
    BY <1>1, <1>2, <1>11, Constants DEF JoinTarget, TypeOK
  <2>3. TypeOK'
    BY <1>1, <1>4, <2>1, <2>2 DEF Moved, TypeOK
  <2>4. OneCar(registry, owner, lock)'
    BY <1>1, <1>4, <2>1 DEF Inv, Moved, OneCar, Owns
  <2>5. StoreOK(known, target, owner, lock)'
    BY <1>1, <2>1, <2>2 DEF Inv, StoreOK, Moved
  <2> QED
    BY <1>5, <1>6, <1>7, <1>8, <1>9, <2>3, <2>4, <2>5 DEF Inv
<1> QED
  BY <1>10, <1>11

\* What does not depend on containers and logs stays in order while the join under way
\* goes on from one step to the next with its car.
LEMMA Proceeds ==
    ASSUME Inv, lock # Nil, NEW s \in Steps, Moved(s),
           lock.at \in Building \cup Undoing, lock.at # "target",
           s \in Building \cup Undoing, s # "undo_forget",
           UNCHANGED <<vehicle, late, known, target, owner, switching, registry, cars, dropped>>
    PROVE  /\ OneCar(registry, owner, lock)'
           /\ StoreOK(known, target, owner, lock)'
           /\ VehiclesOK(vehicle, late, registry, lock, dropped)'
           /\ FlagOK(switching, registry, lock)'
<1>1. OneCar(registry, owner, lock)'
  BY DEF Inv, Moved, OneCar, Owns, Building, Undoing
<1>2. StoreOK(known, target, owner, lock)'
  BY DEF Inv, Moved, StoreOK
<1>3. VehiclesOK(vehicle, late, registry, lock, dropped)'
  BY DEF Inv, Moved, VehiclesOK, Building, Undoing
<1>4. FlagOK(switching, registry, lock)'
  BY DEF Inv, Moved, FlagOK
<1> QED
  BY <1>1, <1>2, <1>3, <1>4

\* A started container is new, runs, and is of the slot asked for.
LEMMA Starts ==
    ASSUME TypeOK, NEW t \in Teams, NEW slot \in Slots, bots < MaxBots, StartContainer(t, slot)
    PROVE  /\ docker' \in [Teams -> Bots \cup {Nil}] /\ refused' \subseteq Teams
           /\ bots' = bots + 1 /\ bots' \in 0..MaxBots /\ bots' \in BotIds
           /\ docker'[t] # Nil /\ docker'[t].id = bots' /\ docker'[t].slot = slot
           /\ \A u \in Teams : u # t => docker'[u] = docker[u] /\ (u \in refused' <=> u \in refused)
<1> DEFINE b == [id |-> bots + 1, running |-> TRUE, slot |-> slot]
<1>1. bots \in Nat /\ bots + 1 \in BotIds /\ bots + 1 \in 0..MaxBots
  BY Constants DEF TypeOK, BotIds
<1>2. b \in Bots /\ b # Nil /\ b.id = bots + 1 /\ b.slot = slot
  <2>1. b \in Bots /\ b.id = bots + 1 /\ b.slot = slot
    BY <1>1 DEF Bots
  <2> HIDE DEF b
  <2> QED
    BY <2>1, Constants
<1>3. docker' = [docker EXCEPT ![t] = b] /\ refused' = refused \ {t} /\ bots' = bots + 1
  BY DEF StartContainer
<1> HIDE DEF b
<1> QED
  BY <1>1, <1>2, <1>3 DEF TypeOK

\* A removal leaves no container, or a team whose removal was refused.
LEMMA RemovesContainer ==
    ASSUME TypeOK, NEW t \in Teams, RemoveContainer(t)
    PROVE  /\ docker' \in [Teams -> Bots \cup {Nil}] /\ refused' \subseteq Teams
           /\ docker'[t] = Nil \/ (docker'[t] = docker[t] /\ t \in refused')
           /\ \A u \in Teams : u # t => docker'[u] = docker[u] /\ (u \in refused' <=> u \in refused)
BY DEF TypeOK, RemoveContainer

\* The bot of a join is started, or the join is rolled back, whatever docker did.
LEMMA StartPreserves == ASSUME Inv, JoinStart PROVE Inv'
<1> USE DEF engine, store, boxes, counters
<1>1. TypeOK /\ lock # Nil /\ lock.at = "start"
  BY DEF Inv, JoinStart, At
<1>2. /\ lock \in Holders /\ lock.team \in Teams /\ lock.car \in Cars /\ lock.slot \in Slots
      /\ lock.op = "join" /\ bots < MaxBots /\ registry[lock.team] = Nil /\ bots \in Nat
  BY <1>1, HolderIs, Constants
     DEF Inv, HolderOK, Building, Undoing, Cleaning, Swapping, TypeOK
<1>3. UNCHANGED <<active, activations, vehicle, late, known, target, owner, switching, registry,
                  monitors, capture, streams, selected, hub, cars, cancels, dropped>>
  BY DEF JoinStart
<1>4. PICK s \in {"capture", "undo_container"} : Moved(s)
  BY <1>2, GotoMoves DEF JoinStart, Steps
<1>5. /\ OneCar(registry, owner, lock)'
      /\ StoreOK(known, target, owner, lock)'
      /\ VehiclesOK(vehicle, late, registry, lock, dropped)'
      /\ FlagOK(switching, registry, lock)'
  BY <1>1, <1>3, <1>4, Proceeds DEF Building, Undoing, Steps
<1>6. /\ docker' \in [Teams -> Bots \cup {Nil}] /\ refused' \subseteq Teams
      /\ bots' \in 0..MaxBots /\ bots <= bots'
      /\ \A u \in Teams : u # lock.team =>
            docker'[u] = docker[u] /\ (u \in refused' <=> u \in refused)
      /\ lock'.at = "capture" =>
            docker'[lock.team] # Nil /\ docker'[lock.team].id = bots'
            /\ docker'[lock.team].slot = lock.slot
  <2>1. CASE StartContainer(lock.team, lock.slot)
    BY <1>1, <1>2, <2>1, Starts
  <2>2. CASE StartFails(lock.team, lock.slot) /\ Goto("undo_container")
    <3>1. Moved("undo_container")
      BY <1>2, <2>2, GotoMoves DEF Steps
    <3>2. CASE ~StartContainer(lock.team, lock.slot)
      BY <1>1, <1>2, <2>2, <3>1, <3>2 DEF StartFails, TypeOK, Moved
    <3> QED
      BY <2>1, <3>2
  <2> QED
    BY <2>1, <2>2 DEF JoinStart, Team
<1>7. TypeOK'
  BY <1>1, <1>3, <1>4, <1>6 DEF TypeOK, Moved
<1>8. HolderOK(lock, registry, cars, bots)'
  BY <1>1, <1>3, <1>4 DEF Inv, Moved, HolderOK, Cleaning, Building, Undoing, Swapping
<1>9. ContainersOK(docker, refused, registry, lock, bots, dropped)'
  BY <1>1, <1>2, <1>3, <1>4, <1>6 DEF Inv, Moved, ContainersOK
<1>10. LogsOK(capture, registry, lock, bots, dropped)'
  BY <1>1, <1>3, <1>4 DEF Inv, Moved, LogsOK
<1>11. SlotsOK(docker, registry, bots)'
  <2>1. \A t \in Teams : registry[t] # Nil => registry[t].bot <= bots /\ registry[t].bot \in Nat
    BY <1>1, Constants DEF Inv, SlotsOK, TypeOK, Joins
  <2> QED
    BY <2>1, <1>1, <1>2, <1>3, <1>6, Constants DEF Inv, SlotsOK
<1> QED
  BY <1>5, <1>7, <1>8, <1>9, <1>10, <1>11 DEF Inv

\* The logs of the new bot are captured, or the join is rolled back.
LEMMA CapturePreserves == ASSUME Inv, JoinCapture \/ JoinPersistFails PROVE Inv'
<1> USE DEF engine, store, boxes, counters
<1>1. TypeOK /\ lock # Nil /\ lock.at \in {"capture", "persist"}
  BY DEF Inv, JoinCapture, JoinPersistFails, At
<1>2. /\ lock \in Holders /\ lock.team \in Teams /\ lock.car \in Cars /\ lock.op = "join"
  BY <1>1, HolderIs, Constants DEF Inv, HolderOK, Building
<1>3. UNCHANGED <<active, activations, vehicle, late, known, target, owner, switching, registry,
                  docker, refused, monitors, streams, selected, hub, cars, bots, cancels,
                  dropped>>
  BY DEF JoinCapture, JoinPersistFails
<1>4. PICK s \in {"persist", "undo_container"} :
         Moved(s) /\ capture' = [capture EXCEPT ![lock.team] = IF s = "persist" THEN bots ELSE Nil]
  BY <1>2, GotoMoves DEF JoinCapture, JoinPersistFails, Steps, StopCapture, Team
<1>5. /\ OneCar(registry, owner, lock)'
      /\ StoreOK(known, target, owner, lock)'
      /\ VehiclesOK(vehicle, late, registry, lock, dropped)'
      /\ FlagOK(switching, registry, lock)'
  BY <1>1, <1>3, <1>4, Proceeds DEF Building, Undoing, Steps
<1>6. bots \in BotIds
  <2>1. docker[lock.team] \in Bots /\ docker[lock.team].id = bots
    BY <1>1, <1>2, HolderIs DEF Inv, ContainersOK
  <2> QED
    BY <2>1 DEF Bots
<1>7. /\ capture' \in [Teams -> BotIds \cup {Nil}]
      /\ capture'[lock.team] = IF s = "persist" THEN bots ELSE Nil
      /\ \A u \in Teams : u # lock.team => capture'[u] = capture[u]
  BY <1>1, <1>2, <1>4, <1>6 DEF TypeOK
<1>8. TypeOK'
  BY <1>1, <1>3, <1>4, <1>7 DEF TypeOK, Moved
<1>9. HolderOK(lock, registry, cars, bots)'
  BY <1>1, <1>3, <1>4 DEF Inv, Moved, HolderOK, Cleaning, Building, Undoing, Swapping
<1>10. ContainersOK(docker, refused, registry, lock, bots, dropped)'
  BY <1>1, <1>2, <1>3, <1>4 DEF Inv, Moved, ContainersOK
<1>11. LogsOK(capture, registry, lock, bots, dropped)'
  BY <1>1, <1>2, <1>3, <1>4, <1>7 DEF Inv, Moved, LogsOK
<1>12. SlotsOK(docker, registry, bots)'
  BY <1>3 DEF Inv, SlotsOK
<1> QED
  BY <1>5, <1>8, <1>9, <1>10, <1>11, <1>12 DEF Inv

\* The join is recorded with the bot just started, and its monitor with it.
LEMMA CommitPreserves == ASSUME Inv, JoinCommit PROVE Inv'
<1> USE DEF engine, store, boxes, counters
<1>1. TypeOK /\ lock # Nil /\ lock.at = "persist" /\ lock' = Nil
  BY DEF Inv, JoinCommit, At, Release
<1>2. /\ lock \in Holders /\ lock.team \in Teams /\ lock.car \in Cars /\ lock.op = "join"
      /\ lock.sandbox \in Sandboxes /\ lock.slot \in Slots /\ registry[lock.team] = Nil
  BY <1>1, HolderIs, Constants DEF Inv, HolderOK, Building, Undoing, Cleaning, Swapping
<1>3. UNCHANGED <<active, activations, vehicle, late, known, target, owner, switching,
                  docker, refused, capture, streams, hub, cars, bots, cancels, dropped>>
  BY DEF JoinCommit
<1>4. /\ docker[lock.team] \in Bots /\ docker[lock.team].id = bots
      /\ docker[lock.team].slot = lock.slot /\ bots \in BotIds /\ bots \in Nat
  <2>1. /\ docker[lock.team] \in Bots /\ docker[lock.team].id = bots
        /\ docker[lock.team].slot = lock.slot
    BY <1>1, <1>2, HolderIs DEF Inv, ContainersOK
  <2> QED
    BY <2>1, Constants DEF Bots
<1> DEFINE j == [car |-> lock.car, sandbox |-> lock.sandbox, slot |-> lock.slot, bot |-> bots]
<1>5. j \in Joins /\ j # Nil /\ j.car = lock.car /\ j.slot = lock.slot /\ j.bot = bots
  BY <1>2, <1>4, Constants DEF Joins
<1>6. registry' = [registry EXCEPT ![lock.team] = j]
  BY DEF JoinCommit, Team
<1> HIDE DEF j
<1>7. /\ registry' \in [Teams -> Joins \cup {Nil}] /\ registry'[lock.team] = j
      /\ \A u \in Teams : u # lock.team => registry'[u] = registry[u]
  BY <1>1, <1>2, <1>5, <1>6 DEF TypeOK
<1>8. TypeOK'
  <2>1. selected' \in [Teams -> Slots \cup {Nil}]
    BY <1>1, <1>2 DEF JoinCommit, Team, TypeOK
  <2>2. monitors' \subseteq [team: Teams, bot: BotIds]
    BY <1>1, <1>2, <1>4 DEF JoinCommit, Team, TypeOK
  <2> QED
    BY <2>1, <2>2, <1>1, <1>3, <1>7 DEF TypeOK
<1>9. HolderOK(lock, registry, cars, bots)'
  BY <1>1 DEF HolderOK
<1>10. OneCar(registry, owner, lock)'
  <2>1. \A t \in Teams, n \in Cars :
          Owns(t, n, registry, owner, lock)' => Owns(t, n, registry, owner, lock)
    BY <1>1, <1>3, <1>5, <1>7 DEF Owns
  <2> QED
    BY <2>1, <1>1 DEF Inv, OneCar
<1>11. StoreOK(known, target, owner, lock)'
  BY <1>1, <1>3 DEF Inv, StoreOK
<1>12. VehiclesOK(vehicle, late, registry, lock, dropped)'
  <2> SUFFICES ASSUME NEW n \in Cars, vehicle[n] # Nil
               PROVE  \/ n \in late \cup dropped.cars
                      \/ \E t \in Teams : registry'[t] # Nil /\ registry'[t].car = n
    BY <1>1, <1>3 DEF VehiclesOK
  <2>1. CASE n = lock.car
    BY <2>1, <1>2, <1>5, <1>7
  <2>2. CASE \E t \in Teams : registry[t] # Nil /\ registry[t].car = n
    BY <2>2, <1>2, <1>7
  <2> QED
    BY <2>1, <2>2 DEF Inv, VehiclesOK
<1>13. ContainersOK(docker, refused, registry, lock, bots, dropped)'
  BY <1>1, <1>2, <1>3, <1>5, <1>7 DEF Inv, ContainersOK
<1>14. LogsOK(capture, registry, lock, bots, dropped)'
  BY <1>1, <1>2, <1>3, <1>5, <1>7 DEF Inv, LogsOK
<1>15. SlotsOK(docker, registry, bots)'
  BY <1>2, <1>3, <1>4, <1>5, <1>7 DEF Inv, SlotsOK
<1>16. FlagOK(switching, registry, lock)'
  BY <1>2, <1>3 DEF Inv, FlagOK
<1> QED
  BY <1>8, <1>9, <1>10, <1>11, <1>12, <1>13, <1>14, <1>15, <1>16 DEF Inv

\* The rollback: container, vehicle, then the car in the store.
LEMMA UndoPreserves == ASSUME Inv, UndoContainer \/ UndoDespawn \/ UndoForget PROVE Inv'
<1> USE DEF engine, store, boxes, counters
<1>1. TypeOK /\ lock # Nil /\ lock.at \in Undoing
  BY DEF Inv, UndoContainer, UndoDespawn, UndoForget, At, Undoing
<1>2. /\ lock \in Holders /\ lock.team \in Teams /\ lock.car \in Cars /\ lock.op = "join"
  BY <1>1, HolderIs, Constants DEF Inv, HolderOK
<1>3. CASE UndoContainer
  <2>1. /\ Moved("undo_despawn") /\ lock.at = "undo_container"
        /\ UNCHANGED <<active, activations, vehicle, late, known, target, owner, switching,
                       registry, monitors, capture, streams, selected, hub, cars, bots, cancels,
                       dropped>>
    BY <1>2, <1>3, GotoMoves DEF UndoContainer, At, Steps
  <2>2. /\ OneCar(registry, owner, lock)'
        /\ StoreOK(known, target, owner, lock)'
        /\ VehiclesOK(vehicle, late, registry, lock, dropped)'
        /\ FlagOK(switching, registry, lock)'
    BY <1>1, <2>1, Proceeds DEF Building, Undoing, Steps
  <2>3. /\ docker' \in [Teams -> Bots \cup {Nil}] /\ refused' \subseteq Teams
        /\ docker'[lock.team] = Nil \/ (docker'[lock.team] = docker[lock.team]
                                         /\ lock.team \in refused')
        /\ \A u \in Teams : u # lock.team =>
              docker'[u] = docker[u] /\ (u \in refused' <=> u \in refused)
    BY <1>1, <1>2, <1>3, RemovesContainer DEF UndoContainer, Team
  <2>4. TypeOK'
    BY <1>1, <2>1, <2>3 DEF TypeOK, Moved
  <2>5. HolderOK(lock, registry, cars, bots)'
    BY <1>1, <2>1 DEF Inv, Moved, HolderOK, Cleaning, Building, Undoing, Swapping
  <2>6. ContainersOK(docker, refused, registry, lock, bots, dropped)'
    BY <1>1, <1>2, <2>1, <2>3 DEF Inv, Moved, ContainersOK
  <2>7. LogsOK(capture, registry, lock, bots, dropped)'
    BY <1>1, <2>1 DEF Inv, Moved, LogsOK, Undoing
  <2>8. SlotsOK(docker, registry, bots)'
    BY <2>1, <2>3 DEF Inv, SlotsOK
  <2> QED
    BY <2>2, <2>4, <2>5, <2>6, <2>7, <2>8 DEF Inv
<1>4. CASE UndoDespawn
  <2>1. /\ Moved("undo_forget") /\ lock.at = "undo_despawn"
        /\ UNCHANGED <<active, activations, known, target, owner, switching, docker, refused,
                       registry, monitors, capture, streams, selected, hub, cars, bots, cancels,
                       dropped>>
    BY <1>2, <1>4, GotoMoves DEF UndoDespawn, At, Steps
  <2>2. /\ vehicle' \in [Cars -> Sandboxes \cup {Nil}] /\ late' \subseteq Cars
        /\ vehicle'[lock.car] = Nil \/ lock.car \in late'
        /\ \A m \in Cars : vehicle'[m] # Nil => vehicle'[m] = vehicle[m]
        /\ \A m \in late : m \in late'
    BY <1>1, <1>2, <1>4, Despawns DEF UndoDespawn
  <2>3. TypeOK'
    BY <1>1, <2>1, <2>2 DEF TypeOK, Moved
  <2>4. HolderOK(lock, registry, cars, bots)'
    BY <1>1, <2>1 DEF Inv, Moved, HolderOK, Cleaning, Building, Undoing, Swapping
  <2>5. OneCar(registry, owner, lock)'
    BY <1>1, <2>1 DEF Inv, Moved, OneCar, Owns
  <2>6. StoreOK(known, target, owner, lock)'
    BY <1>1, <2>1 DEF Inv, Moved, StoreOK
  <2>7. VehiclesOK(vehicle, late, registry, lock, dropped)'
    BY <1>1, <2>1, <2>2 DEF Inv, Moved, VehiclesOK
  <2>8. ContainersOK(docker, refused, registry, lock, bots, dropped)'
    BY <1>1, <2>1 DEF Inv, Moved, ContainersOK
  <2>9. LogsOK(capture, registry, lock, bots, dropped)'
    BY <1>1, <2>1 DEF Inv, Moved, LogsOK
  <2>10. SlotsOK(docker, registry, bots)' /\ FlagOK(switching, registry, lock)'
    BY <2>1 DEF Inv, Moved, SlotsOK, FlagOK
  <2> QED
    BY <2>3, <2>4, <2>5, <2>6, <2>7, <2>8, <2>9, <2>10 DEF Inv
<1>5. CASE UndoForget
  <2>1. /\ lock' = Nil /\ lock.at = "undo_forget" /\ remove_car(lock.car)
        /\ UNCHANGED <<active, activations, vehicle, late, docker, refused,
                       registry, monitors, capture, streams, selected, hub, cars, bots, cancels,
                       dropped>>
    BY <1>5 DEF UndoForget, At, Release
  <2>2. /\ known' \subseteq Cars /\ switching' \subseteq Cars
        /\ target' \in [Cars -> Sandboxes \cup {Nil}]
        /\ owner' \in [Cars -> Teams \cup {Nil}]
        /\ switching' \subseteq switching
        /\ \A m \in Cars : owner'[m] # Nil =>
             owner'[m] = owner[m] /\ (m \in known => m \in known') /\ target'[m] = target[m]
    BY <1>1, <1>2, <2>1, Removes
  <2>3. TypeOK'
    BY <1>1, <2>1, <2>2 DEF TypeOK
  <2>4. HolderOK(lock, registry, cars, bots)'
    BY <2>1 DEF HolderOK
  <2>5. OneCar(registry, owner, lock)'
    <3>1. \A t \in Teams, n \in Cars :
            Owns(t, n, registry, owner, lock)' => Owns(t, n, registry, owner, lock)
      BY <2>1, <2>2, Constants DEF Owns
    <3> QED
      BY <3>1, <2>1 DEF Inv, OneCar
  <2>6. StoreOK(known, target, owner, lock)'
    BY <2>1, <2>2 DEF Inv, StoreOK
  <2>7. VehiclesOK(vehicle, late, registry, lock, dropped)'
    BY <1>1, <1>2, <2>1 DEF Inv, VehiclesOK
  <2>8. ContainersOK(docker, refused, registry, lock, bots, dropped)'
    BY <1>1, <2>1 DEF Inv, ContainersOK
  <2>9. LogsOK(capture, registry, lock, bots, dropped)'
    BY <1>1, <2>1 DEF Inv, LogsOK
  <2>10. SlotsOK(docker, registry, bots)' /\ FlagOK(switching, registry, lock)'
    BY <1>2, <2>1, <2>2 DEF Inv, SlotsOK, FlagOK
  <2> QED
    BY <2>3, <2>4, <2>5, <2>6, <2>7, <2>8, <2>9, <2>10 DEF Inv
<1> QED
  BY <1>3, <1>4, <1>5

-----------------------------------------------------------------------------
(* The clean-up of a join. *)

\* Container and capture, vehicle, then store and registry.
LEMMA CleanPreserves == ASSUME Inv, CleanContainer \/ CleanDespawn \/ CleanForget PROVE Inv'
<1> USE DEF engine, store, boxes, counters
<1>1. TypeOK /\ lock # Nil /\ lock.at \in {"container", "despawn", "forget"}
  BY DEF Inv, CleanContainer, CleanDespawn, CleanForget, At
<1>2. /\ lock \in Holders /\ lock.team \in Teams /\ lock.car = Nil /\ lock.op # "switch"
      /\ registry[lock.team] \in Joins /\ registry[lock.team] # Nil
  BY <1>1, HolderIs DEF Inv, HolderOK, Building, Undoing, Cleaning, Swapping
<1>3. registry[lock.team].car \in Cars
  BY <1>2 DEF Joins
<1>4. CASE CleanContainer
  <2>1. /\ Moved("despawn") /\ lock.at = "container"
        /\ UNCHANGED <<active, activations, vehicle, late, known, target, owner, switching,
                       registry, monitors, streams, selected, hub, cars, bots, cancels, dropped>>
    BY <1>2, <1>4, GotoMoves DEF CleanContainer, At, Steps
  <2>2. /\ docker' \in [Teams -> Bots \cup {Nil}] /\ refused' \subseteq Teams
        /\ docker'[lock.team] = Nil \/ (docker'[lock.team] = docker[lock.team]
                                         /\ lock.team \in refused')
        /\ \A u \in Teams : u # lock.team =>
              docker'[u] = docker[u] /\ (u \in refused' <=> u \in refused)
    BY <1>1, <1>2, <1>4, RemovesContainer DEF CleanContainer, Team
  <2>3. /\ capture' \in [Teams -> BotIds \cup {Nil}] /\ capture'[lock.team] = Nil
        /\ \A u \in Teams : u # lock.team => capture'[u] = capture[u]
    BY <1>1, <1>2, <1>4 DEF CleanContainer, StopCapture, Team, TypeOK
  <2>4. TypeOK'
    BY <1>1, <2>1, <2>2, <2>3 DEF TypeOK, Moved
  <2>5. HolderOK(lock, registry, cars, bots)'
    BY <1>1, <2>1 DEF Inv, Moved, HolderOK, Cleaning, Building, Undoing, Swapping
  <2>6. OneCar(registry, owner, lock)'
    BY <1>1, <2>1 DEF Inv, Moved, OneCar, Owns
  <2>7. StoreOK(known, target, owner, lock)'
    BY <1>1, <2>1 DEF Inv, Moved, StoreOK
  <2>8. VehiclesOK(vehicle, late, registry, lock, dropped)'
    BY <1>1, <2>1 DEF Inv, Moved, VehiclesOK
  <2>9. ContainersOK(docker, refused, registry, lock, bots, dropped)'
    BY <1>1, <1>2, <2>1, <2>2 DEF Inv, Moved, ContainersOK
  <2>10. LogsOK(capture, registry, lock, bots, dropped)'
    BY <1>1, <1>2, <2>1, <2>3 DEF Inv, Moved, LogsOK
  <2>11. SlotsOK(docker, registry, bots)' /\ FlagOK(switching, registry, lock)'
    BY <1>2, <2>1, <2>2 DEF Inv, Moved, SlotsOK, FlagOK
  <2> QED
    BY <2>4, <2>5, <2>6, <2>7, <2>8, <2>9, <2>10, <2>11 DEF Inv
<1>5. CASE CleanDespawn
  <2>1. /\ lock.at = "despawn"
        /\ lock' = [lock EXCEPT !.at = "forget",
                                !.failed = registry[lock.team].sandbox \notin active]
        /\ UNCHANGED <<active, activations, known, target, owner, switching, docker, refused,
                       registry, monitors, capture, streams, selected, hub, cars, bots, cancels,
                       dropped>>
    BY <1>5 DEF CleanDespawn, At, Join
  <2>2. Moved("forget")
    <3>1. (registry[lock.team].sandbox \notin active) \in BOOLEAN
      OBVIOUS
    <3>2. lock' \in Holders
      BY <1>2, <2>1, <3>1 DEF Holders, Steps
    <3>3. /\ lock'.at = "forget" /\ lock'.op = lock.op /\ lock'.team = lock.team
          /\ lock'.sandbox = lock.sandbox /\ lock'.slot = lock.slot /\ lock'.car = lock.car
      BY <1>2, <2>1 DEF Holders
    <3> QED
      BY <3>2, <3>3, Constants DEF Moved
  <2>3. /\ vehicle' \in [Cars -> Sandboxes \cup {Nil}] /\ late' \subseteq Cars
        /\ vehicle'[registry[lock.team].car] = Nil \/ registry[lock.team].car \in late'
        /\ \A m \in Cars : vehicle'[m] # Nil => vehicle'[m] = vehicle[m]
        /\ \A m \in late : m \in late'
    BY <1>1, <1>3, <1>5, Despawns DEF CleanDespawn, Join
  <2>4. TypeOK'
    BY <1>1, <2>1, <2>2, <2>3 DEF TypeOK, Moved
  <2>5. HolderOK(lock, registry, cars, bots)'
    BY <1>1, <2>1, <2>2 DEF Inv, Moved, HolderOK, Cleaning, Building, Undoing, Swapping
  <2>6. OneCar(registry, owner, lock)'
    BY <1>1, <2>1, <2>2 DEF Inv, Moved, OneCar, Owns
  <2>7. StoreOK(known, target, owner, lock)'
    BY <1>1, <2>1, <2>2 DEF Inv, Moved, StoreOK
  <2>8. VehiclesOK(vehicle, late, registry, lock, dropped)'
    BY <1>1, <2>1, <2>2, <2>3 DEF Inv, Moved, VehiclesOK
  <2>9. ContainersOK(docker, refused, registry, lock, bots, dropped)'
    BY <1>1, <2>1, <2>2 DEF Inv, Moved, ContainersOK
  <2>10. LogsOK(capture, registry, lock, bots, dropped)'
    BY <1>1, <2>1, <2>2 DEF Inv, Moved, LogsOK
  <2>11. SlotsOK(docker, registry, bots)' /\ FlagOK(switching, registry, lock)'
    BY <1>2, <2>1, <2>2 DEF Inv, Moved, SlotsOK, FlagOK
  <2> QED
    BY <2>4, <2>5, <2>6, <2>7, <2>8, <2>9, <2>10, <2>11 DEF Inv
<1>6. CASE CleanForget
  <2> DEFINE c == registry[lock.team].car
  <2>1. /\ lock.at = "forget" /\ remove_car(c)
        /\ registry' = [registry EXCEPT ![lock.team] = Nil]
        /\ lock' = Nil \/ (lock.op = "join" /\ Goto("orphans"))
        /\ UNCHANGED <<active, activations, vehicle, late, docker, refused,
                       monitors, capture, streams, selected, hub, cars, bots, cancels,
                       dropped>>
    BY <1>6 DEF CleanForget, At, Release, Join, Team
  <2>2. /\ known' \subseteq Cars /\ switching' \subseteq Cars
        /\ target' \in [Cars -> Sandboxes \cup {Nil}]
        /\ owner' \in [Cars -> Teams \cup {Nil}]
        /\ switching' \subseteq switching
        /\ \A m \in Cars : owner'[m] # Nil =>
             owner'[m] = owner[m] /\ (m \in known => m \in known') /\ target'[m] = target[m]
    BY <1>1, <1>3, <2>1, Removes
  <2>3. lock' = Nil \/ (lock.op = "join" /\ Moved("orphans"))
    BY <1>2, <2>1, GotoMoves DEF Steps
  <2>4. /\ registry' \in [Teams -> Joins \cup {Nil}] /\ registry'[lock.team] = Nil
        /\ \A u \in Teams : u # lock.team => registry'[u] = registry[u]
    BY <1>1, <1>2, <2>1 DEF TypeOK
  <2>5. TypeOK'
    BY <1>1, <2>1, <2>2, <2>3, <2>4 DEF TypeOK, Moved
  <2>6. HolderOK(lock, registry, cars, bots)'
    BY <1>1, <1>2, <2>1, <2>3, <2>4
       DEF Inv, Moved, HolderOK, Cleaning, Building, Undoing, Swapping
  <2>7. OneCar(registry, owner, lock)'
    <3>1. \A t \in Teams, n \in Cars :
            Owns(t, n, registry, owner, lock)' => Owns(t, n, registry, owner, lock)
      BY <1>2, <2>2, <2>3, <2>4, Constants DEF Owns, Moved
    <3> QED
      BY <3>1, <2>3 DEF Inv, OneCar, Moved
  <2>8. StoreOK(known, target, owner, lock)'
    BY <1>1, <2>1, <2>2 DEF Inv, StoreOK
  <2>9. VehiclesOK(vehicle, late, registry, lock, dropped)'
    <3>1. vehicle[c] = Nil \/ c \in late
      BY <1>1, <2>1 DEF Inv, VehiclesOK
    <3>2. \A n \in Cars : vehicle[n] # Nil =>
            \/ n \in late \cup dropped.cars
            \/ \E t \in Teams : registry[t] # Nil /\ registry[t].car = n
      BY <1>2, Constants DEF Inv, VehiclesOK
    <3> QED
      BY <2>1, <2>3, <2>4, <3>1, <3>2 DEF VehiclesOK, Moved
  <2>10. ContainersOK(docker, refused, registry, lock, bots, dropped)'
    BY <1>1, <1>2, <2>1, <2>3, <2>4 DEF Inv, Moved, ContainersOK
  <2>11. LogsOK(capture, registry, lock, bots, dropped)'
    BY <1>1, <1>2, <2>1, <2>3, <2>4 DEF Inv, Moved, LogsOK
  <2>12. SlotsOK(docker, registry, bots)'
    BY <2>1, <2>4 DEF Inv, SlotsOK
  <2>13. FlagOK(switching, registry, lock)'
    BY <1>2, <2>2 DEF Inv, FlagOK
  <2> QED
    BY <2>5, <2>6, <2>7, <2>8, <2>9, <2>10, <2>11, <2>12, <2>13 DEF Inv
<1> QED
  BY <1>4, <1>5, <1>6

-----------------------------------------------------------------------------
(* The switch of a slot. *)

\* The flag is set on the car of the join, if the store still has it.
LEMMA SwitchBeginPreserves == ASSUME Inv, NEW t \in Teams, SwitchBegin(t) PROVE Inv'
<1> USE DEF engine, store, boxes, counters
<1>1. TypeOK /\ lock = Nil /\ registry[t] \in Joins /\ registry[t] # Nil
  BY DEF Inv, SwitchBegin, TypeOK
<1>2. selected[t] \in Slots /\ bots < MaxBots
  BY <1>1 DEF SwitchBegin, TypeOK
<1>3. registry[t].car \in Cars
  BY <1>1 DEF Joins
<1>4. UNCHANGED <<active, activations, vehicle, late, known, target, owner, registry, docker,
                  refused, monitors, capture, streams, selected, hub, cars, bots, cancels,
                  dropped>>
  BY DEF SwitchBegin
<1>5. /\ lock' \in Holders /\ lock' # Nil /\ lock'.at = "swap" /\ lock'.op = "switch"
      /\ lock'.team = t /\ lock'.slot = selected[t] /\ lock'.car = Nil
  BY <1>2, HoldTakes DEF SwitchBegin, Ops, Steps
<1>6. switching' \subseteq {registry[t].car}
  <2>1. switching = {}
    BY <1>1 DEF Inv, FlagOK
  <2> QED
    BY <2>1 DEF SwitchBegin
<1>7. TypeOK'
  BY <1>1, <1>3, <1>4, <1>5, <1>6 DEF TypeOK
<1>8. HolderOK(lock, registry, cars, bots)'
  BY <1>1, <1>2, <1>4, <1>5, Constants DEF HolderOK, Cleaning, Building, Undoing, Swapping
<1>9. OneCar(registry, owner, lock)'
  <2>1. \A u \in Teams, n \in Cars :
          Owns(u, n, registry, owner, lock)' => Owns(u, n, registry, owner, lock)
    BY <1>4, <1>5, Constants DEF Owns
  <2> QED
    BY <2>1, <1>5 DEF Inv, OneCar
<1>10. StoreOK(known, target, owner, lock)'
  BY <1>1, <1>4 DEF Inv, StoreOK
<1>11. VehiclesOK(vehicle, late, registry, lock, dropped)'
  BY <1>1, <1>4, <1>5 DEF Inv, VehiclesOK
<1>12. ContainersOK(docker, refused, registry, lock, bots, dropped)'
  BY <1>1, <1>4, <1>5 DEF Inv, ContainersOK
<1>13. LogsOK(capture, registry, lock, bots, dropped)'
  BY <1>1, <1>4, <1>5 DEF Inv, LogsOK
<1>14. SlotsOK(docker, registry, bots)'
  BY <1>4 DEF Inv, SlotsOK
<1>15. FlagOK(switching, registry, lock)'
  BY <1>4, <1>5, <1>6 DEF FlagOK
<1> QED
  BY <1>7, <1>8, <1>9, <1>10, <1>11, <1>12, <1>13, <1>14, <1>15 DEF Inv

\* The container is swapped, or the switch is over.
LEMMA SwapPreserves == ASSUME Inv, SwitchSwap PROVE Inv'
<1> USE DEF engine, store, boxes, counters
<1>1. TypeOK /\ lock # Nil /\ lock.at = "swap"
  BY DEF Inv, SwitchSwap, At
<1>2. /\ lock \in Holders /\ lock.team \in Teams /\ lock.car = Nil /\ lock.op = "switch"
      /\ lock.slot \in Slots /\ bots < MaxBots /\ bots \in Nat
      /\ registry[lock.team] \in Joins /\ registry[lock.team] # Nil
  BY <1>1, HolderIs, Constants
     DEF Inv, HolderOK, Building, Undoing, Cleaning, Swapping, TypeOK
<1>3. UNCHANGED <<active, activations, vehicle, late, known, target, owner, registry,
                  monitors, capture, streams, selected, hub, cars, cancels, dropped>>
  BY DEF SwitchSwap
<1>4. \A t \in Teams : registry[t] # Nil => registry[t].bot <= bots /\ registry[t].bot \in Nat
  BY <1>1, Constants DEF Inv, SlotsOK, TypeOK, Joins
<1>5. /\ docker' \in [Teams -> Bots \cup {Nil}] /\ refused' \subseteq Teams
      /\ bots' \in 0..MaxBots /\ bots <= bots'
      /\ \A u \in Teams : u # lock.team =>
            docker'[u] = docker[u] /\ (u \in refused' <=> u \in refused)
      /\ docker'[lock.team] = Nil \/ docker'[lock.team] = docker[lock.team]
         \/ docker'[lock.team].id = bots + 1
  <2>1. CASE StartContainer(lock.team, lock.slot)
    BY <1>1, <1>2, <2>1, Starts
  <2>2. CASE ~StartContainer(lock.team, lock.slot)
             /\ (StartFails(lock.team, lock.slot) \/ UNCHANGED <<docker, refused, bots>>)
    BY <1>1, <1>2, <2>2 DEF StartFails, TypeOK
  <2> QED
    BY <2>1, <2>2 DEF SwitchSwap, Team
<1>6. SlotsOK(docker, registry, bots)'
  <2> SUFFICES ASSUME NEW t \in Teams, registry[t] # Nil
               PROVE  /\ registry[t].bot <= bots'
                      /\ docker'[t] # Nil /\ docker'[t].id = registry[t].bot
                            => docker'[t].slot = registry[t].slot
    BY <1>3 DEF SlotsOK
  <2>1. registry[t].bot <= bots'
    BY <1>2, <1>4, <1>5, Constants
  <2>2. docker'[t] = docker[t] \/ docker'[t] = Nil \/ docker'[t].id = bots + 1
    BY <1>5
  <2>3. registry[t].bot # bots + 1
    BY <1>2, <1>4
  <2> QED
    BY <2>1, <2>2, <2>3 DEF Inv, SlotsOK
<1>7. CASE StartContainer(lock.team, lock.slot) /\ Goto("follow") /\ UNCHANGED switching
  <2>1. Moved("follow")
    BY <1>2, <1>7, GotoMoves DEF Steps
  <2>2. /\ docker'[lock.team] # Nil /\ docker'[lock.team].id = bots'
        /\ docker'[lock.team].slot = lock.slot
    BY <1>1, <1>2, <1>7, Starts
  <2>3. TypeOK'
    BY <1>1, <1>3, <1>5, <1>7, <2>1 DEF TypeOK, Moved
  <2>4. HolderOK(lock, registry, cars, bots)'
    BY <1>1, <1>2, <1>3, <2>1 DEF Inv, Moved, HolderOK, Cleaning, Building, Undoing, Swapping
  <2>5. OneCar(registry, owner, lock)'
    BY <1>1, <1>3, <2>1 DEF Inv, Moved, OneCar, Owns
  <2>6. StoreOK(known, target, owner, lock)'
    BY <1>1, <1>3, <2>1 DEF Inv, Moved, StoreOK
  <2>7. VehiclesOK(vehicle, late, registry, lock, dropped)'
    BY <1>1, <1>3, <2>1 DEF Inv, Moved, VehiclesOK
  <2>8. ContainersOK(docker, refused, registry, lock, bots, dropped)'
    BY <1>1, <1>2, <1>3, <1>5, <2>1, <2>2 DEF Inv, Moved, ContainersOK
  <2>9. LogsOK(capture, registry, lock, bots, dropped)'
    BY <1>1, <1>3, <2>1 DEF Inv, Moved, LogsOK
  <2>10. FlagOK(switching, registry, lock)'
    BY <1>3, <1>7, <2>1 DEF Inv, Moved, FlagOK
  <2> QED
    BY <1>6, <2>3, <2>4, <2>5, <2>6, <2>7, <2>8, <2>9, <2>10 DEF Inv
<1>8. CASE SwitchOver /\ Release
  <2>1. lock' = Nil /\ switching' = {}
    BY <1>2, <1>8 DEF Inv, FlagOK, SwitchOver, Release, Join
  <2>2. TypeOK'
    BY <1>1, <1>3, <1>5, <2>1 DEF TypeOK
  <2>3. HolderOK(lock, registry, cars, bots)' /\ FlagOK(switching, registry, lock)'
    BY <2>1 DEF HolderOK, FlagOK
  <2>4. OneCar(registry, owner, lock)'
    BY <1>3, <2>1 DEF Inv, OneCar, Owns
  <2>5. StoreOK(known, target, owner, lock)'
    BY <1>1, <1>3 DEF Inv, StoreOK
  <2>6. VehiclesOK(vehicle, late, registry, lock, dropped)'
    BY <1>2, <1>3, <2>1, Constants DEF Inv, VehiclesOK
  <2>7. ContainersOK(docker, refused, registry, lock, bots, dropped)'
    BY <1>1, <1>2, <1>3, <1>5, <2>1 DEF Inv, ContainersOK
  <2>8. LogsOK(capture, registry, lock, bots, dropped)'
    BY <1>1, <1>3, <2>1 DEF Inv, LogsOK
  <2> QED
    BY <1>6, <2>2, <2>3, <2>4, <2>5, <2>6, <2>7, <2>8 DEF Inv
<1> QED
  BY <1>7, <1>8 DEF SwitchSwap, Team

\* The join is rewritten for the new bot, or keeps the old one.
LEMMA FollowPreserves == ASSUME Inv, SwitchFollow PROVE Inv'
<1> USE DEF engine, store, boxes, counters
<1>1. TypeOK /\ lock # Nil /\ lock.at = "follow" /\ lock' = Nil
  BY DEF Inv, SwitchFollow, At, Release
<1>2. /\ lock \in Holders /\ lock.team \in Teams /\ lock.car = Nil /\ lock.op = "switch"
      /\ lock.slot \in Slots /\ registry[lock.team] \in Joins /\ registry[lock.team] # Nil
  BY <1>1, HolderIs, Constants
     DEF Inv, HolderOK, Building, Undoing, Cleaning, Swapping
<1>3. UNCHANGED <<active, activations, vehicle, late, known, target, owner, docker, refused,
                  streams, selected, hub, cars, bots, cancels, dropped>>
  BY DEF SwitchFollow
<1>4. switching' = {}
  BY <1>2 DEF Inv, FlagOK, SwitchOver, SwitchFollow, Join
<1>5. /\ docker[lock.team] \in Bots /\ docker[lock.team].id = bots
      /\ docker[lock.team].slot = lock.slot /\ bots \in BotIds /\ bots \in Nat
  <2>1. /\ docker[lock.team] \in Bots /\ docker[lock.team].id = bots
        /\ docker[lock.team].slot = lock.slot
    BY <1>1, <1>2, HolderIs DEF Inv, ContainersOK
  <2> QED
    BY <2>1, Constants DEF Bots
<1>6. \A u \in Teams, q \in Joins : [registry EXCEPT ![u] = q] \in [Teams -> Joins \cup {Nil}]
  BY <1>1 DEF TypeOK
<1>7. /\ registry' \in [Teams -> Joins \cup {Nil}]
      /\ registry'[lock.team] # Nil /\ registry'[lock.team].car = registry[lock.team].car
      /\ \A u \in Teams : u # lock.team => registry'[u] = registry[u]
      /\ \/ /\ registry'[lock.team].bot = bots /\ registry'[lock.team].slot = lock.slot
            /\ capture' = [capture EXCEPT ![lock.team] = bots]
            /\ monitors' = monitors \cup {[team |-> lock.team, bot |-> bots]}
         \/ /\ registry' = registry /\ monitors' = monitors
            /\ capture' = [capture EXCEPT ![lock.team] = Nil]
  <2> DEFINE j == [registry[lock.team] EXCEPT !.slot = lock.slot, !.bot = bots]
  <2>1. j \in Joins /\ j.car = registry[lock.team].car /\ j.bot = bots /\ j.slot = lock.slot
    BY <1>2, <1>5 DEF Joins
  <2>2. \/ /\ registry' = [registry EXCEPT ![lock.team] = j]
           /\ capture' = [capture EXCEPT ![lock.team] = bots]
           /\ monitors' = monitors \cup {[team |-> lock.team, bot |-> bots]}
        \/ /\ registry' = registry /\ monitors' = monitors
           /\ capture' = [capture EXCEPT ![lock.team] = Nil]
    <3>1. [registry EXCEPT ![lock.team].slot = lock.slot, ![lock.team].bot = bots]
            = [registry EXCEPT ![lock.team] = j]
      BY <1>1, <1>2 DEF TypeOK
    <3> HIDE DEF j
    <3> QED
      BY <3>1 DEF SwitchFollow, StopCapture, Team
  <2> HIDE DEF j
  <2>3. j # Nil
    BY <2>1, Constants
  <2> QED
    BY <2>1, <2>2, <2>3, <1>1, <1>2, <1>6 DEF TypeOK
<1>8. /\ capture' \in [Teams -> BotIds \cup {Nil}]
      /\ \A u \in Teams : u # lock.team => capture'[u] = capture[u]
      /\ capture'[lock.team] = Nil \/ capture'[lock.team] = registry'[lock.team].bot
  BY <1>1, <1>2, <1>5, <1>7 DEF TypeOK
<1>9. TypeOK'
  <2>1. monitors' \subseteq [team: Teams, bot: BotIds]
    BY <1>1, <1>2, <1>5, <1>7 DEF TypeOK
  <2> QED
    BY <2>1, <1>1, <1>3, <1>4, <1>7, <1>8 DEF TypeOK
<1>10. HolderOK(lock, registry, cars, bots)' /\ FlagOK(switching, registry, lock)'
  BY <1>1, <1>4 DEF HolderOK, FlagOK
<1>11. OneCar(registry, owner, lock)'
  <2>1. \A t \in Teams, n \in Cars :
          Owns(t, n, registry, owner, lock)' => Owns(t, n, registry, owner, lock)
    BY <1>1, <1>2, <1>3, <1>7 DEF Owns
  <2> QED
    BY <2>1, <1>1 DEF Inv, OneCar
<1>12. StoreOK(known, target, owner, lock)'
  BY <1>1, <1>3 DEF Inv, StoreOK
<1>13. VehiclesOK(vehicle, late, registry, lock, dropped)'
  BY <1>1, <1>2, <1>3, <1>7, Constants DEF Inv, VehiclesOK
<1>14. ContainersOK(docker, refused, registry, lock, bots, dropped)'
  BY <1>1, <1>2, <1>3, <1>7 DEF Inv, ContainersOK
<1>15. LogsOK(capture, registry, lock, bots, dropped)'
  BY <1>1, <1>2, <1>3, <1>7, <1>8 DEF Inv, LogsOK
<1>16. SlotsOK(docker, registry, bots)'
  BY <1>2, <1>3, <1>5, <1>7 DEF Inv, SlotsOK
<1> QED
  BY <1>9, <1>10, <1>11, <1>12, <1>13, <1>14, <1>15, <1>16 DEF Inv

-----------------------------------------------------------------------------
(* A caller that goes away. *)

\* A command in flight makes at most one vehicle or one container, and otherwise only
\* takes away.
LEMMA FlightEnds ==
    ASSUME Inv, lock # Nil, lock.op # "switch", InFlight
    PROVE  /\ vehicle' \in [Cars -> Sandboxes \cup {Nil}] /\ late' \subseteq Cars
           /\ late \subseteq late' /\ cars' \in 0..MaxCars /\ cars <= cars'
           /\ \A n \in Cars : vehicle'[n] # Nil =>
                 vehicle'[n] = vehicle[n] \/ n \in (cars + 1)..cars'
           /\ docker' \in [Teams -> Bots \cup {Nil}] /\ refused' \subseteq Teams
           /\ bots' \in 0..MaxBots /\ bots <= bots'
           /\ \A u \in Teams : u # lock.team =>
                 docker'[u] = docker[u] /\ (u \in refused' <=> u \in refused)
           /\ \/ docker'[lock.team] = Nil
              \/ /\ docker'[lock.team] = docker[lock.team]
                 /\ lock.team \in refused => lock.team \in refused'
              \/ /\ lock.at = "start" /\ docker'[lock.team].id \in (bots + 1)..bots'
<1>1. TypeOK /\ cars \in Nat /\ bots \in Nat
  BY Constants DEF Inv, TypeOK
<1>2. lock \in Holders /\ lock.team \in Teams
  BY HolderIs
<1>3. CASE UNCHANGED <<vehicle, late, docker, refused, cars, bots>>
  BY <1>1, <1>3 DEF TypeOK
<1>4. CASE /\ At("spawn") /\ lock.sandbox \in active
           /\ cars' = cars + 1
           /\ vehicle' = [vehicle EXCEPT ![cars + 1] = lock.sandbox]
           /\ UNCHANGED <<late, docker, refused, bots>>
  <2>1. cars < MaxCars /\ lock.sandbox \in Sandboxes
    BY <1>1, <1>4, HolderIs
       DEF At, Inv, HolderOK, Building, Undoing, TypeOK
  <2>2. cars + 1 \in Cars /\ cars' \in 0..MaxCars /\ cars <= cars' /\ cars + 1 \in (cars + 1)..cars'
    BY <1>1, <1>4, <2>1, Constants DEF Cars
  <2>3. vehicle' \in [Cars -> Sandboxes \cup {Nil}]
        /\ \A n \in Cars : n # cars + 1 => vehicle'[n] = vehicle[n]
    BY <1>1, <1>4, <2>1, <2>2 DEF TypeOK
  <2> QED
    BY <1>1, <1>4, <2>2, <2>3 DEF TypeOK
<1>5. CASE /\ At("start") /\ StartContainer(lock.team, lock.slot)
           /\ UNCHANGED <<vehicle, late, cars>>
  <2>1. bots < MaxBots /\ lock.slot \in Slots
    BY <1>1, <1>5, HolderIs DEF At, Inv, HolderOK, Building, Undoing
  <2>2. /\ docker' \in [Teams -> Bots \cup {Nil}] /\ refused' \subseteq Teams
        /\ bots' = bots + 1 /\ bots' \in 0..MaxBots
        /\ docker'[lock.team].id = bots'
        /\ \A u \in Teams : u # lock.team =>
              docker'[u] = docker[u] /\ (u \in refused' <=> u \in refused)
    BY <1>1, <1>2, <1>5, <2>1, Starts
  <2> QED
    BY <1>1, <1>5, <2>2 DEF TypeOK, At
<1>6. CASE RemoveContainer(lock.team) /\ UNCHANGED <<vehicle, late, cars, bots>>
  <2>1. /\ docker' \in [Teams -> Bots \cup {Nil}] /\ refused' \subseteq Teams
        /\ docker'[lock.team] = Nil \/ (docker'[lock.team] = docker[lock.team]
                                         /\ lock.team \in refused')
        /\ \A u \in Teams : u # lock.team =>
              docker'[u] = docker[u] /\ (u \in refused' <=> u \in refused)
    BY <1>1, <1>2, <1>6, RemovesContainer
  <2> QED
    BY <1>1, <1>6, <2>1 DEF TypeOK
<1>7. ASSUME NEW n \in Cars, Despawn(n), UNCHANGED <<docker, refused, cars, bots>>
      PROVE  /\ vehicle' \in [Cars -> Sandboxes \cup {Nil}] /\ late' \subseteq Cars
             /\ late \subseteq late'
             /\ \A m \in Cars : vehicle'[m] # Nil => vehicle'[m] = vehicle[m]
             /\ docker' = docker /\ refused' = refused /\ cars' = cars /\ bots' = bots
  BY <1>1, <1>7, Despawns
<1>8. At("despawn") => registry[lock.team].car \in Cars
  BY HolderIs DEF At, Cleaning, Joins
<1>9. At("undo_despawn") => lock.car \in Cars
  BY HolderIs DEF At, Undoing
<1>10. CASE \E n \in Cars : Despawn(n) /\ UNCHANGED <<docker, refused, cars, bots>>
  BY <1>1, <1>7, <1>10 DEF TypeOK
<1> QED
  BY <1>3, <1>4, <1>5, <1>6, <1>8, <1>9, <1>10 DEF InFlight, Team, Join

\* What a cancelled command leaves behind is on record as dropped.
LEMMA GonePreserves == ASSUME Inv, CallerGone PROVE Inv'
<1> USE DEF engine, store, boxes, counters
<1>1. /\ TypeOK /\ lock # Nil /\ lock' = Nil /\ lock.op \in {"join", "leave"} /\ InFlight
      /\ lock.at \notin {"known", "target", "forget", "undo_forget"} /\ cancels < MaxCancels
      /\ cancels' = cancels + 1
  BY DEF Inv, CallerGone, Release
<1>2. lock \in Holders /\ lock.team \in Teams /\ lock.car \in Cars \cup {Nil}
  BY <1>1, HolderIs
<1>3. UNCHANGED <<active, activations, known, target, owner, switching, registry, monitors,
                  capture, streams, selected, hub>>
  BY DEF CallerGone
<1>4. /\ vehicle' \in [Cars -> Sandboxes \cup {Nil}] /\ late' \subseteq Cars
      /\ late \subseteq late' /\ cars' \in 0..MaxCars /\ cars <= cars'
      /\ \A n \in Cars : vehicle'[n] # Nil =>
            vehicle'[n] = vehicle[n] \/ n \in (cars + 1)..cars'
      /\ docker' \in [Teams -> Bots \cup {Nil}] /\ refused' \subseteq Teams
      /\ bots' \in 0..MaxBots /\ bots <= bots'
      /\ \A u \in Teams : u # lock.team =>
            docker'[u] = docker[u] /\ (u \in refused' <=> u \in refused)
      /\ \/ docker'[lock.team] = Nil
         \/ /\ docker'[lock.team] = docker[lock.team]
            /\ lock.team \in refused => lock.team \in refused'
         \/ /\ lock.at = "start" /\ docker'[lock.team].id \in (bots + 1)..bots'
  BY <1>1, FlightEnds
<1>5. /\ dropped' \in [cars: SUBSET Cars, bots: SUBSET BotIds]
      /\ dropped.cars \subseteq dropped'.cars /\ dropped.bots \subseteq dropped'.bots
      /\ lock.car \in Cars => lock.car \in dropped'.cars
      /\ (cars + 1)..cars' \subseteq dropped'.cars
      /\ (bots + 1)..bots' \subseteq dropped'.bots
      /\ lock.at \in {"capture", "persist", "undo_container"} /\ docker[lock.team] # Nil
            => docker[lock.team].id \in dropped'.bots
  <2> DEFINE B == {b \in BotIds :
                     /\ lock.at \in {"capture", "persist", "undo_container"}
                     /\ docker[lock.team] # Nil /\ docker[lock.team].id = b}
             C == dropped.cars \cup ({lock.car} \ {Nil}) \cup (cars + 1)..cars'
             D == dropped.bots \cup (bots + 1)..bots' \cup B
  <2>1. dropped' = [cars |-> C, bots |-> D]
    BY DEF CallerGone, Team
  <2>2. dropped.cars \subseteq Cars /\ dropped.bots \subseteq BotIds
    BY <1>1 DEF TypeOK
  <2>3. (cars + 1)..cars' \subseteq Cars
    BY <1>1, <1>4, Constants DEF TypeOK, Cars
  <2>4. (bots + 1)..bots' \subseteq BotIds
    BY <1>1, <1>4, Constants DEF TypeOK, BotIds
  <2>5. docker[lock.team] # Nil => docker[lock.team].id \in BotIds
    BY <1>1, <1>2 DEF TypeOK, Bots
  <2>6. C \subseteq Cars /\ D \subseteq BotIds
    BY <1>2, <2>2, <2>3, <2>4
  <2>7. lock.at \in {"capture", "persist", "undo_container"} /\ docker[lock.team] # Nil
            => docker[lock.team].id \in B
    BY <2>5
  <2>8. dropped'.cars = C /\ dropped'.bots = D
        /\ dropped' \in [cars: SUBSET Cars, bots: SUBSET BotIds]
    <3> HIDE DEF C, D
    <3> QED
      BY <2>1, <2>6
  <2> QED
    BY <2>7, <2>8, Constants
<1>6. TypeOK'
  <2>1. cancels' \in 0..MaxCancels
    BY <1>1, Constants DEF TypeOK
  <2> QED
    BY <1>1, <1>3, <1>4, <1>5, <2>1 DEF TypeOK
<1>7. HolderOK(lock, registry, cars, bots)' /\ FlagOK(switching, registry, lock)'
  BY <1>1, <1>3 DEF Inv, HolderOK, FlagOK
<1>8. OneCar(registry, owner, lock)'
  BY <1>1, <1>3 DEF Inv, OneCar, Owns
<1>9. StoreOK(known, target, owner, lock)'
  BY <1>1, <1>3 DEF Inv, StoreOK
<1>10. VehiclesOK(vehicle, late, registry, lock, dropped)'
  BY <1>1, <1>2, <1>3, <1>4, <1>5 DEF Inv, VehiclesOK
<1>11. ContainersOK(docker, refused, registry, lock, bots, dropped)'
  <2> SUFFICES ASSUME NEW t \in Teams, docker'[t] # Nil
               PROVE  \/ registry[t] # Nil \/ t \in refused' \/ docker'[t].id \in dropped'.bots
                      \/ ~docker'[t].running
    BY <1>1, <1>3 DEF ContainersOK
  <2>1. CASE docker'[t] = docker[t] /\ (t \in refused => t \in refused')
    BY <2>1, <1>1, <1>5 DEF Inv, ContainersOK
  <2>2. CASE t = lock.team /\ docker'[t].id \in (bots + 1)..bots'
    BY <2>2, <1>5
  <2> QED
    BY <2>1, <2>2, <1>4
<1>12. LogsOK(capture, registry, lock, bots, dropped)'
  <2>1. lock.at = "persist" => docker[lock.team] # Nil /\ docker[lock.team].id = bots
    BY <1>1 DEF Inv, ContainersOK
  <2>2. lock.at = "persist" => bots \in dropped'.bots
    BY <2>1, <1>5
  <2> QED
    BY <2>2, <1>1, <1>3, <1>5 DEF Inv, LogsOK
<1>13. SlotsOK(docker, registry, bots)'
  <2> SUFFICES ASSUME NEW t \in Teams, registry[t] # Nil
               PROVE  /\ registry[t].bot <= bots'
                      /\ docker'[t] # Nil /\ docker'[t].id = registry[t].bot
                            => docker'[t].slot = registry[t].slot
    BY <1>3 DEF SlotsOK
  <2>1. registry[t].bot <= bots /\ registry[t].bot \in Nat /\ bots \in Nat /\ bots' \in Nat
    <3>1. registry[t] \in Joins
      BY <1>1 DEF TypeOK
    <3>2. registry[t].bot \in BotIds
      BY <3>1 DEF Joins
    <3>3. bots \in Nat /\ bots' \in Nat
      BY <1>1, <1>4, Constants DEF TypeOK
    <3> QED
      BY <3>2, <3>3, Constants DEF Inv, SlotsOK
  <2>2. t = lock.team => lock.at # "start"
    BY <1>1, HolderIs DEF Cleaning, Swapping
  <2>3. docker'[t] = docker[t] \/ docker'[t] = Nil
    BY <2>2, <1>4
  <2> QED
    BY <2>1, <2>3, <1>4 DEF Inv, SlotsOK
<1> QED
  BY <1>6, <1>7, <1>8, <1>9, <1>10, <1>11, <1>12, <1>13 DEF Inv

-----------------------------------------------------------------------------
(* The theorems. *)

\* Every step preserves the invariant.
LEMMA StepInv == Inv /\ [Next]_vars => Inv'
<1> SUFFICES ASSUME Inv, [Next]_vars PROVE Inv'
  OBVIOUS
<1>1. CASE HolderStep
  BY <1>1, LooksPreserve, OrphanPreserves, SpawnPreserves, PlacePreserves, RegisterPreserves,
     StartPreserves, CapturePreserves, CommitPreserves, UndoPreserves, CleanPreserves,
     SwapPreserves, FollowPreserves
     DEF HolderStep
<1>2. CASE CallerGone
  BY <1>2, GonePreserves
<1>3. CASE \/ \E t \in Teams, sb \in Sandboxes, slot \in Slots : JoinBegin(t, sb, slot)
           \/ \E t \in Teams : LeaveBegin(t) \/ ReconcileBegin(t)
           \/ \E m \in monitors : MonitorWakes(m)
  BY <1>3, LooksPreserve
<1>4. CASE \E t \in Teams : SwitchBegin(t)
  BY <1>4, SwitchBeginPreserves
<1>5. CASE \/ \E t \in Teams : Connect(t) \/ BotExits(t) \/ CaptureEnds(t)
           \/ \E s \in streams : StreamBreaks(s) \/ StreamQuits(s)
           \/ \E n \in Cars : HubSees(n) \/ WorkerDespawns(n)
           \/ HubRemoves
           \/ \E sb \in Sandboxes : Activate(sb) \/ Deactivate(sb)
           \/ \E t \in Teams, slot \in Slots : select_slot(t, slot)
           \/ UNCHANGED vars
  BY <1>5, OthersPreserve
<1> QED
  BY <1>1, <1>2, <1>3, <1>4, <1>5 DEF Next

\* Every reachable state satisfies the invariant.
LEMMA Invariance == Spec => []Inv
BY InitInv, StepInv, PTL DEF Spec

\* A team has at most one vehicle on the tracks, and no vehicle is left in a world by
\* itself: it belongs to a join, or its despawn is on its way, or the caller of its join
\* went away (join_official_sandbox with its rollback and its clean-ups).
THEOREM CarsOwned == Spec => []CarsAreOwned
<1>1. Inv => CarsAreOwned
  <2> SUFFICES ASSUME Inv PROVE CarsAreOwned
    OBVIOUS
  <2>1. OneVehiclePerTeam
    <3> SUFFICES ASSUME NEW t \in Teams PROVE Cardinality(Holding(t)) <= 1
      BY DEF OneVehiclePerTeam
    <3>1. \A m, n \in Holding(t) : m = n
      BY DEF Holding, Inv, OneCar, Owns
    <3>2. CASE Holding(t) = {}
      BY <3>2, FS_EmptySet
    <3>3. CASE Holding(t) # {}
      <4>1. PICK n \in Holding(t) : TRUE
        BY <3>3
      <4>2. Holding(t) = {n}
        BY <3>1
      <4>3. Cardinality({n}) = 1
        BY FS_Singleton
      <4> QED
        BY <4>2, <4>3
    <3> QED
      BY <3>2, <3>3
  <2>2. NoStrayVehicle
    BY DEF Inv, VehiclesOK, NoStrayVehicle
  <2> QED
    BY <2>1, <2>2 DEF CarsAreOwned, Inv
<1> QED
  BY <1>1, Invariance, PTL

\* No bot runs without a join unless docker refused its removal or the caller of its join
\* went away, and the captured logs, the loaded slot and the switch flag are those of the
\* bot the team has.
THEOREM BotsOwned == Spec => []BotsAreOwned
<1>1. Inv => BotsAreOwned
  <2> SUFFICES ASSUME Inv PROVE BotsAreOwned
    OBVIOUS
  <2>1. NoStrayBot
    BY DEF Inv, ContainersOK, NoStrayBot, Running
  <2>2. LogsFollowBot
    BY DEF Inv, LogsOK, LogsFollowBot
  <2>3. LoadedSlotIsTrue
    BY DEF Inv, SlotsOK, LoadedSlotIsTrue
  <2>4. SwitchFlagOwned
    BY DEF Inv, FlagOK, SwitchFlagOwned, Join
  <2> QED
    BY <2>1, <2>2, <2>3, <2>4 DEF BotsAreOwned
<1> QED
  BY <1>1, Invariance, PTL

\* During a switch no step but one of the frame hub takes the car out of the store: the
\* stream of the bot that is being replaced leaves it alone.
THEOREM CarKept == Spec => SwitchKeepsCar
<1>1. Inv /\ [Next]_vars => [\A n \in switching : target'[n] = target[n] \/ hub = n]_vars
  <2> SUFFICES ASSUME Inv, Next, NEW n \in switching
               PROVE  target'[n] = target[n] \/ hub = n
    OBVIOUS
  <2> USE DEF engine, store, boxes, counters
  <2>1. /\ n \in Cars /\ target \in [Cars -> Sandboxes \cup {Nil}] /\ lock # Nil
        /\ lock.at \in Swapping
    BY DEF Inv, TypeOK, FlagOK, HolderOK
  <2>2. CASE HolderStep
    <3>1. SwitchSwap \/ SwitchFollow
      BY <2>1, <2>2 DEF HolderStep, JoinInspect, CleanOrphan, OrphansDone, JoinResolve, JoinSpawn,
         JoinPlace, JoinKnown, JoinTarget, JoinStart, JoinCapture, JoinCommit, JoinPersistFails,
         UndoContainer, UndoDespawn, UndoForget, CleanContainer, CleanDespawn, CleanForget,
         MonitorInspect, ReconcileInspect, ReconcileFails, At, Swapping
    <3> QED
      BY <3>1 DEF SwitchSwap, SwitchFollow
  <2>3. ASSUME NEW s \in streams, EndStream(s)
        PROVE  target'[n] = target[n]
    <3>1. s.car \in Cars
      BY DEF Inv, TypeOK
    <3>2. CASE s.car \in switching
      BY <2>3, <3>2 DEF EndStream
    <3>3. CASE s.car \notin switching
      BY <2>1, <2>3, <3>1, <3>3 DEF EndStream, remove_car
    <3> QED
      BY <3>2, <3>3
  <2>4. CASE HubRemoves
    BY <2>1, <2>4 DEF HubRemoves, remove_car
  <2>5. CASE \/ CallerGone
             \/ \E t \in Teams : Connect(t) \/ BotExits(t) \/ CaptureEnds(t)
             \/ \E m \in Cars : HubSees(m) \/ WorkerDespawns(m)
             \/ \E sb \in Sandboxes : Activate(sb) \/ Deactivate(sb)
             \/ \E t \in Teams, slot \in Slots : select_slot(t, slot)
    BY <2>5 DEF CallerGone, Connect, BotExits, CaptureEnds, HubSees, WorkerDespawns, Activate,
                Deactivate, select_slot
  <2>6. CASE \/ \E t \in Teams, sb \in Sandboxes, slot \in Slots : JoinBegin(t, sb, slot)
             \/ \E t \in Teams : LeaveBegin(t) \/ ReconcileBegin(t) \/ SwitchBegin(t)
             \/ \E m \in monitors : MonitorWakes(m)
    BY <2>1, <2>6 DEF JoinBegin, LeaveBegin, ReconcileBegin, SwitchBegin, MonitorWakes
  <2> QED
    BY <2>2, <2>3, <2>4, <2>5, <2>6 DEF Next, StreamBreaks, StreamQuits
<1> QED
  BY <1>1, Invariance, PTL DEF Spec, SwitchKeepsCar

=============================================================================
