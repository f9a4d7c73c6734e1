--------------------------- MODULE WeatherStream ---------------------------
(***************************************************************************)
(* The weather streams of a local backend (services/weather/query.rs,      *)
(* local_events.rs) for one sandbox, and the administration that changes   *)
(* its weather and announces each change on a broadcast channel            *)
(* (services/local_sandbox_admin.rs).  A stream subscribes, sends the      *)
(* weather of the runtime, and from then on looks at the runtime again     *)
(* when an event arrives; a stream that lags loses events and is told so.  *)
(* A request that is dropped after the engine changed the weather never    *)
(* announces it.                                                           *)
(***************************************************************************)
EXTENDS Integers, Sequences, FiniteSets

CONSTANTS Admins,     \* administrators' requests
          Streams,    \* clients' streams
          Weathers,   \* weather values
          Capacity,   \* broadcast::channel(128)
          Nil

\* Assumed of the constants.
StreamAssumption == Capacity \in Nat \ {0}

VARIABLES active,   \* the sandbox runs
          weather,  \* active_sandboxes[..].weather_now
          admin,    \* what each administrator's request is about to do
          queue,    \* the events each subscriber has not received
          lagged,   \* the subscribers that lost events
          stream,   \* the streams: where they are, and last_now
          silent    \* history: a change that its dropped request never announced

vars == <<active, weather, admin, queue, lagged, stream, silent>>

Closed == [at |-> "closed", last |-> Nil]
Resting == [at |-> "idle", value |-> Nil]

Init == /\ active = FALSE /\ weather = Nil
        /\ admin = [a \in Admins |-> Resting]
        /\ queue = [s \in Streams |-> <<>>]
        /\ lagged = {}
        /\ stream = [s \in Streams |-> Closed]
        /\ silent = FALSE

-----------------------------------------------------------------------------
(* Administration. *)

Ask(a, at, v) == admin' = [admin EXCEPT ![a] = [at |-> at, value |-> v]]

\* update_local_sandbox_weather: apply_weather_if_active reads the runtime.
UpdateWeather(a, v) ==
    /\ admin[a] = Resting
    /\ active
    /\ Ask(a, "set", v)
    /\ UNCHANGED <<active, weather, queue, lagged, stream, silent>>

\* set_local_sandbox_activation: switch_runtime starts the sandbox without a
\* weather of its own.
Activate(a, v) ==
    /\ admin[a] = Resting
    /\ ~active
    /\ active' = TRUE /\ weather' = Nil
    /\ Ask(a, "set", v)
    /\ UNCHANGED <<queue, lagged, stream, silent>>

\* set_sandbox_weather, in the engine; nothing if the sandbox is gone by then.
SetWeather(a) ==
    /\ admin[a].at = "set"
    /\ IF active
       THEN weather' = admin[a].value /\ Ask(a, "publish", "Updated")
       ELSE UNCHANGED weather /\ Ask(a, "idle", Nil)
    /\ UNCHANGED <<active, queue, lagged, stream, silent>>

\* deactivate_sandbox.
Deactivate(a) ==
    /\ admin[a] = Resting
    /\ active
    /\ active' = FALSE /\ weather' = Nil
    /\ Ask(a, "publish", "Deactivated")
    /\ UNCHANGED <<queue, lagged, stream, silent>>

\* LocalWeatherEventHub::publish: each subscriber's queue takes the event; a
\* full one loses its oldest.
Publish(a) ==
    LET subscribed == {s \in Streams : stream[s].at # "closed"}
        full == {s \in subscribed : Len(queue[s]) = Capacity}
    IN  /\ admin[a].at = "publish"
        /\ queue' = [s \in Streams |->
                       IF s \notin subscribed THEN queue[s]
                       ELSE Append(IF s \in full THEN Tail(queue[s]) ELSE queue[s],
                                   admin[a].value)]
        /\ lagged' = lagged \cup full
        /\ Ask(a, "idle", Nil)
        /\ UNCHANGED <<active, weather, stream, silent>>

\* The request is dropped; what it asked the engine for happens all the same.
DropRequest(a) ==
    /\ admin[a].at = "publish"
    /\ silent' = TRUE
    /\ Ask(a, "idle", Nil)
    /\ UNCHANGED <<active, weather, queue, lagged, stream>>

-----------------------------------------------------------------------------
(* Streams. *)

Close(s) ==
    /\ stream' = [stream EXCEPT ![s] = Closed]
    /\ queue' = [queue EXCEPT ![s] = <<>>]
    /\ lagged' = lagged \ {s}

\* stream_weather_updates_local subscribes ...
Open(s) ==
    /\ stream[s].at = "closed"
    /\ stream' = [stream EXCEPT ![s] = [at |-> "read", last |-> Nil]]
    /\ UNCHANGED <<active, weather, admin, queue, lagged, silent>>

\* ... and reads the runtime (local_weather_now), at first and on each event; a
\* sandbox that is gone or has no weather ends the stream. The value is sent if
\* it differs from last_now.
Read(s) ==
    /\ stream[s].at = "read"
    /\ IF active /\ weather # Nil
       THEN /\ stream' = [stream EXCEPT ![s] = [at |-> "open", last |-> weather]]
            /\ UNCHANGED <<queue, lagged>>
       ELSE Close(s)
    /\ UNCHANGED <<active, weather, admin, silent>>

\* recv: an event of this sandbox. Deactivated ends the stream.
Receive(s) ==
    /\ stream[s].at = "open"
    /\ s \notin lagged
    /\ queue[s] # <<>>
    /\ IF Head(queue[s]) = "Deactivated" THEN Close(s)
       ELSE /\ stream' = [stream EXCEPT ![s].at = "read"]
            /\ queue' = [queue EXCEPT ![s] = Tail(@)]
            /\ UNCHANGED lagged
    /\ UNCHANGED <<active, weather, admin, silent>>

\* Mutated form: a lagging stream goes on with the next event it has and forgets
\* the lost ones, whatever they said.
LaggedForget(s) ==
    /\ stream[s].at = "open"
    /\ s \in lagged
    /\ lagged' = lagged \ {s}
    /\ queue' = [queue EXCEPT ![s] = <<>>]
    /\ UNCHANGED <<active, weather, admin, stream, silent>>

\* RecvError::Lagged: the stream looks at the runtime.
Lagged(s) ==
    /\ stream[s].at = "open"
    /\ s \in lagged
    /\ lagged' = lagged \ {s}
    /\ stream' = [stream EXCEPT ![s].at = "read"]
    /\ UNCHANGED <<active, weather, admin, queue, silent>>

\* The client goes away.
Leave(s) ==
    /\ stream[s].at # "closed"
    /\ Close(s)
    /\ UNCHANGED <<active, weather, admin, silent>>

Next ==
    \/ \E a \in Admins :
         \/ \E v \in Weathers : UpdateWeather(a, v) \/ Activate(a, v)
         \/ SetWeather(a) \/ Deactivate(a) \/ Publish(a) \/ DropRequest(a)
    \/ \E s \in Streams :
         Open(s) \/ Read(s) \/ Receive(s) \/ Lagged(s) \/ Leave(s)

Spec == Init /\ [][Next]_vars

-----------------------------------------------------------------------------
(* Properties. *)

\* The variables keep their types.
TypeOK ==
    /\ weather \in Weathers \cup {Nil} /\ (weather # Nil => active)
    /\ admin \in [Admins -> [at : {"idle", "set", "publish"},
                             value : Weathers \cup {"Updated", "Deactivated", Nil}]]
    /\ \A s \in Streams : /\ Len(queue[s]) <= Capacity
                          /\ stream[s].at = "closed" => queue[s] = <<>> /\ s \notin lagged
    /\ lagged \subseteq Streams

\* Subscribing before the first read, and reading again after a lag: an open
\* stream with no event left to see shows the weather of the runtime, or the
\* change it has not seen is still to be announced.
StreamIsCurrent ==
    \A s \in Streams :
        (stream[s].at = "open" /\ queue[s] = <<>> /\ s \notin lagged) =>
            \/ stream[s].last = weather
            \/ \E a \in Admins : admin[a].at = "publish"
            \/ silent

=============================================================================
