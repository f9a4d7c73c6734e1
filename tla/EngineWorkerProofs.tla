------------------------- MODULE EngineWorkerProofs -------------------------
(***************************************************************************)
(* Proofs about EngineWorker, for every set of sandboxes, races, maps and  *)
(* clients and every value of the bounds.                                  *)
(***************************************************************************)
EXTENDS EngineWorker, TLAPS

\* A batch of due operations only names entries that are still scheduled, and
\* runs only while the worker does.
DueScheduled == \A i \in due : pending[i] # Nil /\ ~stopped

\* No client holds a revision the worker has not reached.
SeenNotAhead == \A c \in Clients : seen[c].revision <= revision

\* The part of the invariant that speaks of the metadata and the worlds.
Core ==
    /\ StateOK
    /\ WorldsOK
    /\ stopped \in BOOLEAN
    /\ WorldsMatchState
    /\ ActivityCoherent
    /\ NoActivationOfActive

\* The part that speaks of the clients' copies.
Copies ==
    /\ seen \in [Clients -> Snapshot]
    /\ SnapshotsAreSafe
    /\ SeenNotAhead

\* The part that speaks of the batch.
Batch ==
    /\ due \subseteq SandboxIds
    /\ now \in Times
    /\ DueScheduled

Inv == Core /\ Copies /\ Batch

\* What a step may do to the metadata: count itself, or show no change.
Counted ==
    \/ revision' = revision + 1
    \/ RuntimeState' = RuntimeState

-----------------------------------------------------------------------------
\* What the metadata shows of the sandboxes is well typed.
LEMMA ViewType ==
    ASSUME NEW boxes \in [SandboxIds -> SandboxState \cup {Nil}]
    PROVE  ViewOf(boxes) \in [SandboxIds -> SandboxView \cup {Nil}]
BY NilAssumption DEF ViewOf, SandboxState, SandboxView

\* The snapshot a client is given is well typed.
LEMMA SnapshotType ==
    ASSUME NEW r \in 0..MaxRevision, NEW a \in ActivityKinds, NEW m \in Maps,
           NEW t \in TimesOfDay, NEW l \in LocalRaceState \cup {Nil},
           NEW b \in [SandboxIds -> SandboxState \cup {Nil}],
           NEW p \in [SandboxIds -> Pending \cup {Nil}]
    PROVE  [revision |-> r, activity |-> a, map |-> m, tod |-> t, race |-> l,
            sandboxes |-> ViewOf(b), pending |-> p] \in Snapshot
BY ViewType DEF Snapshot

\* The invariant holds of the state EngineWorker::spawn starts from.
LEMMA InitInv == Init => Inv
<1> SUFFICES ASSUME Init PROVE Inv
  OBVIOUS
<1>1. StateOK
  BY MapAssumption, BoundAssumption DEF Init, StateOK, ActivityKinds, TimesOfDay
<1>2. RuntimeState \in Snapshot
  BY <1>1, SnapshotType DEF RuntimeState, StateOK
<1>3. Core
  BY <1>1 DEF Init, Core, WorldsOK, WorldsMatchState, ActivityCoherent,
              NoActivationOfActive, Active
<1>4. Copies
  <2>1. seen \in [Clients -> Snapshot] /\ SnapshotsAreSafe
    BY <1>2 DEF Init, SnapshotsAreSafe
  <2>2. SeenNotAhead
    BY <1>1 DEF Init, SeenNotAhead, RuntimeState, StateOK
  <2> QED
    BY <2>1, <2>2 DEF Copies
<1>5. Batch
  BY BoundAssumption DEF Init, Batch, DueScheduled, Times
<1> QED
  BY <1>3, <1>4, <1>5 DEF Inv

\* Collecting the due entries yields a batch of scheduled entries.
LEMMA CollectDueBatch ==
    ASSUME Inv, Idle, ThenCollectDue
    PROVE  Batch' /\ stopped' = stopped
BY DEF Idle, Inv, Batch, ThenCollectDue, DueIds, DueScheduled

\* Clients' copies stay sound over any step that counts its change, whether
\* it replies to a client or not.
LEMMA CopiesStep ==
    ASSUME Copies, StateOK, StateOK', Counted,
           seen' = seen \/ \E c \in Clients : Reply(c)
    PROVE  Copies'
<1>1. RuntimeState' \in Snapshot
  BY SnapshotType DEF RuntimeState, StateOK
<1>2. RuntimeState'.revision = revision' /\ RuntimeState.revision = revision
  BY DEF RuntimeState
<1>3. revision \in Nat /\ revision' \in Nat
  BY BoundAssumption DEF StateOK
<1>4. seen' \in [Clients -> Snapshot]
  BY <1>1 DEF Copies, Reply
<1>5. \A c \in Clients : seen'[c] = seen[c] \/ seen'[c] = RuntimeState'
  BY DEF Copies, Reply
<1>6. revision' >= revision /\ (revision' = revision => RuntimeState' = RuntimeState)
  BY <1>2, <1>3 DEF Counted
<1>7. \A c \in Clients : seen[c].revision \in Nat
  BY BoundAssumption DEF Copies, Snapshot
<1>8. SnapshotsAreSafe' /\ SeenNotAhead'
  BY <1>2, <1>3, <1>5, <1>6, <1>7 DEF Copies, SnapshotsAreSafe, SeenNotAhead
<1> QED
  BY <1>4, <1>8 DEF Copies

-----------------------------------------------------------------------------
(* The effects shared by commands and scheduled operations preserve Core. *)

\* Activating a sandbox that is not active.
LEMMA UpsertCore ==
    ASSUME Core, NEW i \in SandboxIds, NEW m \in Maps, NEW t \in Presets,
           ~stopped, stopped' = stopped, Bump, UpsertSandbox(i, m, t)
    PROVE  Core'
<1>1. [map |-> m, tod |-> t, weather |-> Nil] \in SandboxState
  BY DEF SandboxState
<1>2. StateOK'
  BY <1>1, BoundAssumption
     DEF Core, StateOK, Bump, UpsertSandbox, ActivityKinds, TimesOfDay
<1>3. WorldsOK'
  BY DEF Core, WorldsOK, UpsertSandbox
<1>4. WorldsMatchState'
  BY <1>1, NilAssumption DEF Core, StateOK, WorldsOK, WorldsMatchState, UpsertSandbox
<1>5. ActivityCoherent'
  BY <1>1, NilAssumption DEF Core, StateOK, ActivityCoherent, Active, UpsertSandbox
<1>6. NoActivationOfActive'
  BY DEF Core, StateOK, NoActivationOfActive, is_sandbox_active, UpsertSandbox
<1> QED
  BY <1>2, <1>3, <1>4, <1>5, <1>6 DEF Core

\* Deactivating a sandbox, whether or not it is active.
LEMMA RemoveCore ==
    ASSUME Core, NEW i \in SandboxIds,
           ~stopped, stopped' = stopped, Bump, RemoveSandbox(i)
    PROVE  Core'
<1>1. localRace # Nil => localRace.map \in Maps /\ localRace.tod \in TimesOfDay
  BY DEF Core, StateOK, LocalRaceState, TimesOfDay
<1>2. StateOK'
  BY <1>1, BoundAssumption
     DEF Core, StateOK, Bump, RemoveSandbox, FallBack, ActivityKinds, TimesOfDay
<1>3. WorldsOK'
  BY DEF Core, WorldsOK, RemoveSandbox, FallBack
<1>4. WorldsMatchState'
  BY DEF Core, StateOK, WorldsOK, WorldsMatchState, RemoveSandbox
<1>5. Active' = Active \ {i}
  BY DEF Core, StateOK, Active, RemoveSandbox
<1>6. ActivityCoherent'
  <2>1. CASE Active \subseteq {i} /\ activity = "Sandbox"
    BY <2>1, <1>5 DEF Core, ActivityCoherent, RemoveSandbox, FallBack
  <2>2. CASE ~(Active \subseteq {i} /\ activity = "Sandbox")
    BY <2>2, <1>5 DEF Core, ActivityCoherent, RemoveSandbox
  <2> QED
    BY <2>1, <2>2
<1>7. NoActivationOfActive'
  BY DEF Core, StateOK, NoActivationOfActive, is_sandbox_active, RemoveSandbox
<1> QED
  BY <1>2, <1>3, <1>4, <1>6, <1>7 DEF Core

-----------------------------------------------------------------------------
(* The commands preserve Core. *)

\* The two switches that tear every sandbox down.
LEMMA SwitchCore ==
    ASSUME Core, NEW c \in Clients, NEW m \in Maps, NEW t \in TimesOfDay,
           stopped' = stopped,
           SwitchToNone(c, m, t) \/ SwitchToOfficialRace(c, m, t)
    PROVE  Core'
<1>1. StateOK'
  BY BoundAssumption
     DEF Core, StateOK, Cas, Bump, SwitchToNone, SwitchToOfficialRace,
         DropSandboxes, ActivityKinds
<1>2. WorldsOK'
  BY DEF Core, WorldsOK, SwitchToNone, SwitchToOfficialRace, DropSandboxes
<1>3. WorldsMatchState'
  BY DEF Core, WorldsMatchState, SwitchToNone, SwitchToOfficialRace, DropSandboxes,
         Cas, Idle
<1>4. ActivityCoherent'
  BY DEF Core, ActivityCoherent, Active, SwitchToNone, SwitchToOfficialRace,
         DropSandboxes
<1>5. NoActivationOfActive'
  BY DEF Core, NoActivationOfActive, is_sandbox_active, SwitchToNone,
         SwitchToOfficialRace, DropSandboxes
<1> QED
  BY <1>1, <1>2, <1>3, <1>4, <1>5 DEF Core

\* ActivateLocalRace keeps metadata and worlds together.
LEMMA ActivateLocalRaceCore ==
    ASSUME Core, NEW c \in Clients, NEW r \in RaceIds, NEW m \in Maps,
           NEW t \in Presets, stopped' = stopped, ActivateLocalRace(c, r, m, t)
    PROVE  Core'
<1>1. [race |-> r, map |-> m, tod |-> t] \in LocalRaceState
  BY DEF LocalRaceState
<1>2. StateOK'
  BY <1>1, BoundAssumption
     DEF Core, StateOK, Cas, Bump, ActivateLocalRace, ActivityKinds, TimesOfDay
<1>3. WorldsOK'
  BY DEF Core, WorldsOK, ActivateLocalRace
<1>4. WorldsMatchState'
  BY <1>1, NilAssumption
     DEF Core, WorldsOK, WorldsMatchState, ActivateLocalRace, Cas, Idle
<1>5. ActivityCoherent'
  BY <1>1, NilAssumption DEF Core, ActivityCoherent, Active, ActivateLocalRace
<1>6. NoActivationOfActive'
  BY DEF Core, NoActivationOfActive, is_sandbox_active, ActivateLocalRace
<1> QED
  BY <1>2, <1>3, <1>4, <1>5, <1>6 DEF Core

\* DeactivateLocalRace keeps metadata and worlds together.
LEMMA DeactivateLocalRaceCore ==
    ASSUME Core, NEW c \in Clients, NEW r \in RaceIds, stopped' = stopped,
           DeactivateLocalRace(c, r)
    PROVE  Core'
<1>1. StateOK'
  BY BoundAssumption
     DEF Core, StateOK, Cas, Bump, DeactivateLocalRace, ActivityKinds, TimesOfDay
<1>2. WorldsOK'
  BY DEF Core, WorldsOK, DeactivateLocalRace
<1>3. WorldsMatchState'
  BY DEF Core, WorldsOK, WorldsMatchState, DeactivateLocalRace, Cas, Idle
<1>4. ActivityCoherent'
  BY DEF Core, ActivityCoherent, Active, DeactivateLocalRace
<1>5. NoActivationOfActive'
  BY DEF Core, NoActivationOfActive, is_sandbox_active, DeactivateLocalRace
<1> QED
  BY <1>1, <1>2, <1>3, <1>4, <1>5 DEF Core

\* The commands that leave the worlds alone.
LEMMA MetadataCommandCore ==
    ASSUME Core, NEW c \in Clients, stopped' = stopped,
           \/ BumpRevision(c)
           \/ \E i \in SandboxIds, t \in Presets : SetRuntimeTimeOfDay(c, i, t)
           \/ \E i \in SandboxIds, p \in Pending : SetPendingSandboxActivation(c, i, p)
           \/ \E i \in SandboxIds : CancelPendingSandboxActivation(c, i)
    PROVE  Core'
<1>1. CASE BumpRevision(c)
  BY <1>1, BoundAssumption
     DEF Core, BumpRevision, Cas, Bump, worlds, StateOK, WorldsOK, WorldsMatchState,
         ActivityCoherent, NoActivationOfActive, Active, is_sandbox_active
<1>2. ASSUME NEW i \in SandboxIds, NEW t \in Presets, SetRuntimeTimeOfDay(c, i, t)
      PROVE  Core'
  <2>1. /\ sandboxes[i] \in SandboxState
        /\ sandboxes' = [sandboxes EXCEPT ![i] = [sandboxes[i] EXCEPT !.tod = t]]
    BY <1>2 DEF Core, StateOK, SetRuntimeTimeOfDay, is_sandbox_active
  <2>2. /\ [sandboxes[i] EXCEPT !.tod = t] \in SandboxState
        /\ [sandboxes[i] EXCEPT !.tod = t].map = sandboxes[i].map
    BY <2>1 DEF SandboxState
  <2>3. StateOK' /\ WorldsOK'
    BY <1>2, <2>1, <2>2, BoundAssumption
       DEF Core, StateOK, WorldsOK, SetRuntimeTimeOfDay, Cas, Bump, TimesOfDay, worlds
  <2>4. \A j \in SandboxIds : /\ sandboxes'[j] = Nil <=> sandboxes[j] = Nil
                              /\ sandboxes[j] # Nil => sandboxes'[j].map = sandboxes[j].map
    BY <2>1, <2>2, NilAssumption DEF Core, StateOK
  <2>5. Active' = Active
    BY <2>4 DEF Active
  <2>6. WorldsMatchState' /\ ActivityCoherent' /\ NoActivationOfActive'
    BY <1>2, <2>4, <2>5
       DEF Core, WorldsMatchState, ActivityCoherent, NoActivationOfActive,
           is_sandbox_active, SetRuntimeTimeOfDay, worlds
  <2> QED
    BY <2>3, <2>6 DEF Core
<1>3. ASSUME NEW i \in SandboxIds, NEW p \in Pending,
             SetPendingSandboxActivation(c, i, p)
      PROVE  Core'
  <2>1. StateOK' /\ WorldsOK'
    BY <1>3, BoundAssumption
       DEF Core, StateOK, WorldsOK, SetPendingSandboxActivation, Cas, Bump, worlds
  <2>2. NoActivationOfActive'
    BY <1>3 DEF Core, StateOK, NoActivationOfActive, is_sandbox_active,
                SetPendingSandboxActivation
  <2> QED
    BY <1>3, <2>1, <2>2
       DEF Core, WorldsMatchState, ActivityCoherent, Active,
           SetPendingSandboxActivation, worlds
<1>4. ASSUME NEW i \in SandboxIds, CancelPendingSandboxActivation(c, i)
      PROVE  Core'
  BY <1>4, BoundAssumption
     DEF Core, StateOK, WorldsOK, CancelPendingSandboxActivation, Cas, Bump, worlds,
         WorldsMatchState, ActivityCoherent, Active, NoActivationOfActive,
         is_sandbox_active
<1> QED
  BY <1>1, <1>2, <1>3, <1>4

\* The weather of a sandbox is not part of what clients compare.
LEMMA SetWeatherCore ==
    ASSUME Core, NEW i \in SandboxIds, NEW w \in Weathers, stopped' = stopped,
           SetWeather(i, w)
    PROVE  Core' /\ RuntimeState' = RuntimeState
<1>1. /\ sandboxes[i] \in SandboxState
      /\ sandboxes' = [sandboxes EXCEPT ![i] = [sandboxes[i] EXCEPT !.weather = w]]
  BY DEF Core, StateOK, SetWeather, is_sandbox_active
<1>2. /\ [sandboxes[i] EXCEPT !.weather = w] \in SandboxState
      /\ [sandboxes[i] EXCEPT !.weather = w].map = sandboxes[i].map
      /\ [sandboxes[i] EXCEPT !.weather = w].tod = sandboxes[i].tod
  BY <1>1 DEF SandboxState
<1>3. StateOK' /\ WorldsOK'
  BY <1>1, <1>2 DEF Core, StateOK, WorldsOK, SetWeather, worlds
<1>4. \A j \in SandboxIds : /\ sandboxes'[j] = Nil <=> sandboxes[j] = Nil
                            /\ sandboxes[j] # Nil =>
                                  /\ sandboxes'[j].map = sandboxes[j].map
                                  /\ sandboxes'[j].tod = sandboxes[j].tod
  BY <1>1, <1>2, NilAssumption DEF Core, StateOK
<1>5. Active' = Active /\ ViewOf(sandboxes)' = ViewOf(sandboxes)
  BY <1>4 DEF Active, ViewOf
<1>6. WorldsMatchState' /\ ActivityCoherent' /\ NoActivationOfActive'
  BY <1>4, <1>5
     DEF Core, WorldsMatchState, ActivityCoherent, NoActivationOfActive,
         is_sandbox_active, SetWeather, worlds
<1> QED
  BY <1>3, <1>5, <1>6 DEF Core, RuntimeState, SetWeather

-----------------------------------------------------------------------------
\* Every command a client sends preserves the invariant.
LEMMA CommandStep ==
    ASSUME Inv, NEW c \in Clients, Command(c)
    PROVE  Inv'
<1>1. ThenCollectDue /\ Reply(c) /\ Idle
  BY DEF Command, SwitchToNone, SwitchToOfficialRace, SwitchToSandbox, DeactivateSandbox,
         ActivateLocalRace, DeactivateLocalRace, BumpRevision, SetRuntimeTimeOfDay,
         SetPendingSandboxActivation, CancelPendingSandboxActivation,
         GetRuntimeState, Cas
<1>2. Batch' /\ stopped' = stopped /\ ~stopped
  BY <1>1, CollectDueBatch DEF Idle
<1>3. Core' /\ Counted
  <2>1. CASE GetRuntimeState(c)
    BY <2>1, <1>2
       DEF GetRuntimeState, Counted, Inv, Core, state, worlds, RuntimeState, StateOK,
           WorldsOK, WorldsMatchState, ActivityCoherent, NoActivationOfActive, Active,
           is_sandbox_active
  <2>2. ASSUME NEW i \in SandboxIds, NEW m \in Maps, NEW t \in Presets,
               SwitchToSandbox(c, i, m, t)
        PROVE  Core' /\ Counted
    BY <2>2, <1>2, UpsertCore DEF SwitchToSandbox, Cas, Bump, Counted, Inv
  <2>3. ASSUME NEW i \in SandboxIds, DeactivateSandbox(c, i)
        PROVE  Core' /\ Counted
    BY <2>3, <1>2, RemoveCore DEF DeactivateSandbox, Cas, Bump, Counted, Inv
  <2>4. ASSUME NEW m \in Maps, NEW t \in TimesOfDay,
               SwitchToNone(c, m, t) \/ SwitchToOfficialRace(c, m, t)
        PROVE  Core' /\ Counted
    BY <2>4, <1>2, SwitchCore
       DEF SwitchToNone, SwitchToOfficialRace, Cas, Bump, Counted, Inv
  <2>5. ASSUME NEW r \in RaceIds, NEW m \in Maps, NEW t \in Presets,
               ActivateLocalRace(c, r, m, t)
        PROVE  Core' /\ Counted
    BY <2>5, <1>2, ActivateLocalRaceCore DEF ActivateLocalRace, Cas, Bump, Counted, Inv
  <2>6. ASSUME NEW r \in RaceIds, DeactivateLocalRace(c, r)
        PROVE  Core' /\ Counted
    BY <2>6, <1>2, DeactivateLocalRaceCore
       DEF DeactivateLocalRace, Cas, Bump, Counted, Inv
  <2>7. ASSUME \/ BumpRevision(c)
               \/ \E i \in SandboxIds, t \in Presets : SetRuntimeTimeOfDay(c, i, t)
               \/ \E i \in SandboxIds, p \in Pending :
                      SetPendingSandboxActivation(c, i, p)
               \/ \E i \in SandboxIds : CancelPendingSandboxActivation(c, i)
        PROVE  Core' /\ Counted
    <3>1. Core'
      BY <2>7, <1>2, MetadataCommandCore DEF Inv
    <3>2. Counted
      BY <2>7 DEF BumpRevision, SetRuntimeTimeOfDay, SetPendingSandboxActivation,
                  CancelPendingSandboxActivation, Cas, Bump, Counted
    <3> QED
      BY <3>1, <3>2
  <2> QED
    BY <2>1, <2>2, <2>3, <2>4, <2>5, <2>6, <2>7 DEF Command
<1>4. Copies'
  BY <1>1, <1>3, CopiesStep DEF Inv, Core
<1> QED
  BY <1>2, <1>3, <1>4 DEF Inv

\* Every scheduled operation preserves the invariant.
LEMMA RunDueStep ==
    ASSUME Inv, RunDue
    PROVE  Inv'
<1> PICK i \in SandboxIds :
        RunDueActivation(i) \/ DueActivationFails(i) \/ RunDueDeactivation(i)
  BY DEF RunDue
<1>1. i \in due /\ ~stopped /\ pending[i] # Nil /\ pending[i] \in Pending
  BY DEF RunDueActivation, DueActivationFails, RunDueDeactivation, EarliestDue,
         Inv, Batch, DueScheduled, Core, StateOK
<1>2. seen' = seen /\ now' = now /\ stopped' = stopped
  BY DEF RunDueActivation, DueActivationFails, RunDueDeactivation
<1>3. CASE RunDueActivation(i)
  <2>1. pending[i].map \in Maps /\ pending[i].tod \in Presets /\ ~is_sandbox_active(i)
    BY <1>1, <1>3 DEF RunDueActivation, Pending, PendingActivation,
                      PendingDeactivation, Inv, Core, NoActivationOfActive
  <2>2. Bump /\ UpsertSandbox(i, pending[i].map, pending[i].tod)
    BY <1>3, <2>1 DEF RunDueActivation
  <2>3. Core' /\ Counted
    BY <1>1, <1>2, <2>1, <2>2, UpsertCore DEF Inv, Bump, Counted
  <2>4. Batch'
    BY <1>2, <1>3, <2>2 DEF RunDueActivation, UpsertSandbox, Inv, Batch, DueScheduled,
                            Core, StateOK
  <2> QED
    BY <1>2, <2>3, <2>4, CopiesStep DEF Inv, Core
<1>4. CASE DueActivationFails(i)
  BY <1>4
     DEF DueActivationFails, state, worlds, Inv, Batch, DueScheduled, Core, StateOK,
         WorldsOK, WorldsMatchState, ActivityCoherent, NoActivationOfActive, Active,
         is_sandbox_active, Copies, SnapshotsAreSafe, SeenNotAhead, RuntimeState
<1>5. CASE RunDueDeactivation(i)
  <2>1. Core' /\ Counted
    BY <1>1, <1>2, <1>5, RemoveCore DEF RunDueDeactivation, Inv, Bump, Counted
  <2>2. Batch'
    BY <1>2, <1>5 DEF RunDueDeactivation, RemoveSandbox, Inv, Batch, DueScheduled,
                      Core, StateOK
  <2> QED
    BY <1>2, <2>1, <2>2, CopiesStep DEF Inv, Core
<1> QED
  BY <1>3, <1>4, <1>5

\* The steps that change nothing a client can see.
LEMMA QuietStep ==
    ASSUME Inv, Tick \/ AdvanceClock \/ Stop \/ UNCHANGED vars
    PROVE  Inv'
<1>1. UNCHANGED <<state, seen>>
  BY DEF Tick, AdvanceClock, Stop, vars, state
<1>2. Copies' /\ StateOK' /\ NoActivationOfActive'
  BY <1>1 DEF state, Inv, Copies, SnapshotsAreSafe, SeenNotAhead, RuntimeState, Core,
              StateOK, NoActivationOfActive, is_sandbox_active
<1>3. CASE Tick
  BY <1>1, <1>2, <1>3, CollectDueBatch
     DEF Tick, Idle, state, worlds, Inv, Core, WorldsOK, WorldsMatchState,
         ActivityCoherent, Active
<1>4. CASE AdvanceClock
  <2>1. Batch'
    BY <1>4, BoundAssumption
       DEF AdvanceClock, state, Inv, Batch, DueScheduled, Times
  <2> QED
    BY <1>1, <1>2, <1>4, <2>1
       DEF AdvanceClock, state, worlds, Inv, Core, WorldsOK, WorldsMatchState,
           ActivityCoherent, Active
<1>5. CASE Stop
  BY <1>1, <1>2, <1>5
     DEF Stop, Idle, state, Inv, Core, Batch, DueScheduled, WorldsOK, WorldsMatchState,
         ActivityCoherent, Active
<1>6. CASE UNCHANGED vars
  BY <1>1, <1>2, <1>6
     DEF vars, state, worlds, Inv, Core, Batch, DueScheduled, WorldsOK,
         WorldsMatchState, ActivityCoherent, Active
<1> QED
  BY <1>3, <1>4, <1>5, <1>6

\* The invariant is inductive.
LEMMA InductiveStep == Inv /\ [Next]_vars => Inv'
<1> SUFFICES ASSUME Inv, [Next]_vars PROVE Inv'
  OBVIOUS
<1>1. ASSUME NEW i \in SandboxIds, NEW w \in Weathers, SetWeather(i, w)
      PROVE  Inv'
  <2>1. Batch' /\ stopped' = stopped /\ seen' = seen
    BY <1>1, CollectDueBatch DEF SetWeather, Idle
  <2>2. Core' /\ Counted
    BY <1>1, <2>1, SetWeatherCore DEF Inv, Counted
  <2> QED
    BY <2>1, <2>2, CopiesStep DEF Inv, Core
<1> QED
  BY <1>1, CommandStep, RunDueStep, QuietStep DEF Next

\* Every reachable state of the worker satisfies the inductive invariant.
THEOREM InvariantHolds == Spec => []Inv
BY InitInv, InductiveStep, PTL DEF Spec

\* The worker's state stays well typed; in particular a scheduled activation
\* always carries the map and preset that running it needs.
THEOREM TypeCorrect == Spec => []TypeOK
<1>1. Inv => TypeOK
  BY DEF Inv, Core, Copies, Batch, TypeOK
<1> QED
  BY <1>1, InvariantHolds, PTL

\* The worlds and the metadata of switch_runtime, deactivate_sandbox,
\* activate_local_race and deactivate_local_race never come apart.
THEOREM WorldsFollowMetadata == Spec => []WorldsMatchState
<1>1. Inv => WorldsMatchState
  BY DEF Inv, Core
<1> QED
  BY <1>1, InvariantHolds, PTL

\* activity_kind always agrees with the active sandboxes, local race and
\* official world.
THEOREM ActivityIsCoherent == Spec => []ActivityCoherent
<1>1. Inv => ActivityCoherent
  BY DEF Inv, Core
<1> QED
  BY <1>1, InvariantHolds, PTL

\* The "already active" branch of the scheduled activations is dead code.
THEOREM ScheduledActivationIsNew == Spec => []NoActivationOfActive
<1>1. Inv => NoActivationOfActive
  BY DEF Inv, Core
<1> QED
  BY <1>1, InvariantHolds, PTL

\* The revision check of every compare-and-swap command is sound.
THEOREM CompareAndSwapSound == Spec => []SnapshotsAreSafe
<1>1. Inv => SnapshotsAreSafe
  BY DEF Inv, Copies
<1> QED
  BY <1>1, InvariantHolds, PTL

=============================================================================
