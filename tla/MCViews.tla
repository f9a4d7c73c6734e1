------------------------------ MODULE MCViews ------------------------------
(***************************************************************************)
(* Small instances, for TLC, of what a local backend keeps (its copy of    *)
(* the official maps, its store of sandboxes, their weather) and of what   *)
(* clients follow of a race (the tracks, the achievement stream and the    *)
(* race table).  They share nothing, so one of them runs in each behaviour *)
(* and the others rest.                                                    *)
(***************************************************************************)
EXTENDS Naturals, TLC

CONSTANTS Handlers, Streams, Maps, Nil,
          Blocks, MaxCatalogue, Part,
          LocalIds, MaxActive, MaxRevision, MaxRuntime, MaxFaults, EmptyFile, Partial,
          Weathers, Capacity,
          Sandboxes, Readers, MaxSwitches,
          RaceMaps, LapLength, Steps, Moved, Backtrack, Slack, MaxAge, MaxBehind,
          GridSize, MaxCars, MaxElapsed, MaxLaps

VARIABLES runs,
          disk, tmp, sync_lock, token, animated, official, catalogue, catTmp, call,
          store, file, admin, orphan, runtime, started, acked, hurt, faults,
          active, weather, setter, queue, lagged, stream, silent,
          world, switches, latest, descriptors, feed, known, snap, tracks, reader, late,
          frame, hub, spawned, req, cache, answer, open, seen, whole

\* Requests for maps and for the catalogue meet only in the token.
Mirror == INSTANCE MapMirror WITH Kinds <- {"map"}, Size <- Blocks
Catalogue == INSTANCE MapMirror WITH Kinds <- {"list"}, Size <- Blocks

Local == INSTANCE LocalSandboxes WITH Sandboxes <- LocalIds, Admins <- Handlers

Weather == INSTANCE WeatherStream WITH Admins <- Handlers, admin <- setter

Tracks == INSTANCE TrackCaches
    WITH frame <- latest, cache <- descriptors, stream <- feed

Table == INSTANCE RaceTable WITH Clients <- Streams, Maps <- RaceMaps

ASSUME Assumptions == /\ Mirror!MirrorAssumption
                      /\ Local!LocalSandboxesAssumption
                      /\ Weather!StreamAssumption
                      /\ Tracks!TrackAssumption
                      /\ Table!TableAssumption

mirrorVars == <<disk, tmp, sync_lock, token, animated, official, catalogue, catTmp, call>>
localVars == <<store, file, admin, orphan, runtime, started, acked, hurt, faults>>
weatherVars == <<active, weather, setter, queue, lagged, stream, silent>>
trackVars == <<world, switches, latest, descriptors, feed, known, snap, tracks, reader,
               late>>
tableVars == <<frame, hub, spawned, req, cache, answer, open, seen, whole>>
vars == <<runs, mirrorVars, localVars, weatherVars, trackVars, tableVars>>

Init == /\ runs \in {"mirror", "catalogue", "local", "weather", "tracks", "table"}
        /\ Mirror!Init /\ (runs # "mirror" => ~animated)
        /\ Local!Init /\ Weather!Init /\ Tracks!Init /\ Table!Init

Next == \/ /\ runs = "mirror" /\ Mirror!Next
           /\ UNCHANGED <<runs, localVars, weatherVars, trackVars, tableVars>>
        \/ /\ runs = "catalogue" /\ Catalogue!Next
           /\ UNCHANGED <<runs, localVars, weatherVars, trackVars, tableVars>>
        \/ /\ runs = "local" /\ Local!Next
           /\ UNCHANGED <<runs, mirrorVars, weatherVars, trackVars, tableVars>>
        \/ /\ runs = "weather" /\ Weather!Next
           /\ UNCHANGED <<runs, mirrorVars, localVars, trackVars, tableVars>>
        \/ /\ runs = "tracks" /\ Tracks!Next
           /\ UNCHANGED <<runs, mirrorVars, localVars, weatherVars, tableVars>>
        \/ /\ runs = "table" /\ Table!Next
           /\ UNCHANGED <<runs, mirrorVars, localVars, weatherVars, trackVars>>

Spec == Init /\ [][Next]_vars

\* Handlers are interchangeable, and so are local sandboxes and the maps of
\* tracks; TLC is fastest when the latter sets have the same elements.
Symmetry == Permutations(Handlers) \cup Permutations(LocalIds) \cup Permutations(Maps)

\* MapMirror's invariant on the copies: a request told that the map is cached finds
\* every required file, whole.
ReadyIsWhole == runs = "mirror" => Mirror!TypeOK /\ Mirror!ReadyIsWhole

\* The files of a map that is cached are never taken away again.
CachedStays == [][runs = "mirror" /\ Mirror!Cached => Mirror!Cached']_vars

\* MapMirror's invariant on the catalogue: one answered is one that was served.
CatalogueIsReal == runs = "catalogue" => Catalogue!TypeOK /\ Catalogue!CatalogueIsReal

\* LocalSandboxes' invariants: what an administrator was told survives a restart,
\* and no more sandboxes are active than the backend allows.
AcknowledgedIsDurable ==
    runs = "local" => Local!TypeOK /\ Local!AcknowledgedIsDurable /\ Local!ActiveLimit

\* WeatherStream's invariants: a stream with nothing left to send shows the weather
\* its sandbox has.
StreamIsCurrent == runs = "weather" => Weather!TypeOK /\ Weather!StreamIsCurrent

\* TrackCaches' invariants: a client's snapshot of the achievement stream is what it
\* was told before, and a cached track belongs to the map it is kept for.
TracksFitMaps ==
    runs = "tracks" =>
        Tracks!TypeOK /\ Tracks!SnapshotIsAnnounced /\ Tracks!TracksFitMaps

\* RaceTable's invariants: the table has every car of the race, in the order of the
\* race, with gaps that follow from what the cars drove.
TableIsTrue ==
    runs = "table" => /\ Table!TypeOK /\ Table!TableIsComplete
                      /\ Table!TrajectoriesGrow /\ Table!GapsAreTrue
                      /\ Table!PositionsFollowRace
=============================================================================
