---- MODULE WeatherWorker ----
(***************************************************************************)
(* The Open-Meteo environment worker (src/src/runtime/weather_worker.rs).  *)
(* It remembers the location it works for and the deadline before which it *)
(* does not ask again; deadline None and a deadline that has passed both   *)
(* mean "fetch now", so the deadline is whether it still lies ahead.       *)
(***************************************************************************)
EXTENDS SettingsService

VARIABLE weather   \* [pc, active, location, ahead]

WeatherStart(pc) ==
  [pc |-> pc, active |-> NoLocation, location |-> NoLocation, ahead |-> FALSE]

WeatherTypeOK ==
  weather \in [ pc       : {"top", "read", "fetch", "answered", "failed", "wait", "done"},
                active   : Locations \cup {NoLocation},   \* active_location
                location : Locations \cup {NoLocation},   \* of the request under way
                ahead    : BOOLEAN ]

WeatherOnly == UNCHANGED <<snapshot, settingsFile, solarFile, client, stop, main, restarts>>

WeatherGoto(pc) == weather' = [weather EXCEPT !.pc = pc]

\* Head of the loop: the stop flag, then drain_commands.
WeatherTop ==
  /\ weather.pc = "top"
  /\ IF stop
     THEN weather' = WeatherStart("done") /\ UNCHANGED inbox
     ELSE WeatherGoto("read") /\ inbox' = [inbox EXCEPT !["weather"] = FALSE]
  /\ WeatherOnly

\* Nothing to fetch: no location, or no field that needs the provider.
WeatherIdle ==
  /\ weather.pc = "read"
  /\ snapshot.settings.location = NoLocation \/ ~snapshot.settings.weather
  /\ weather' = WeatherStart("wait")
  /\ UNCHANGED inbox /\ WeatherOnly

\* The location it already works for, and its deadline has not passed.
WeatherEarly ==
  /\ weather.pc = "read"
  /\ snapshot.settings.location # NoLocation /\ snapshot.settings.weather
  /\ weather.active = snapshot.settings.location /\ weather.ahead
  /\ WeatherGoto("wait")
  /\ UNCHANGED inbox /\ WeatherOnly

\* Due, or a new location: active_location is replaced, the deadline is not
\* reset.
WeatherDue ==
  /\ weather.pc = "read"
  /\ snapshot.settings.location # NoLocation /\ snapshot.settings.weather
  /\ \E passed \in BOOLEAN :
       /\ weather.active = snapshot.settings.location /\ weather.ahead => passed
       /\ weather' = [ pc |-> "fetch", active |-> snapshot.settings.location,
                       location |-> snapshot.settings.location,
                       ahead |-> weather.ahead /\ ~passed ]
  /\ UNCHANGED inbox /\ WeatherOnly

WeatherFetch ==
  /\ weather.pc = "fetch"
  /\ IF stop
     THEN weather' = WeatherStart("done") /\ UNCHANGED inbox
     ELSE /\ \E pc \in {"answered", "failed"} : WeatherGoto(pc)
          /\ inbox' = [inbox EXCEPT !["weather"] = FALSE]
  /\ WeatherOnly

\* A result is recorded for the current location only; the new deadline then
\* sends the next round to sleep.
WeatherRecord ==
  /\ weather.pc \in {"answered", "failed"}
  /\ EnvironmentIsCurrent(snapshot, weather.location)
  /\ snapshot' = IF weather.pc = "answered"
                 THEN RecordEnvironment(snapshot, weather.location)
                 ELSE RecordEnvironmentError(snapshot)
  /\ weather' = [weather EXCEPT !.pc = "top", !.ahead = TRUE]
  /\ UNCHANGED <<settingsFile, solarFile, client, inbox, stop, main, restarts>>

\* A result nobody waits for any more: the loop starts over at once.
WeatherDrop ==
  /\ weather.pc \in {"answered", "failed"}
  /\ ~EnvironmentIsCurrent(snapshot, weather.location)
  /\ WeatherGoto("top")
  /\ UNCHANGED inbox /\ WeatherOnly

\* A message, the deadline or the stop flag ends the wait.
WeatherWake ==
  /\ weather.pc = "wait"
  /\ \/ stop /\ weather' = WeatherStart("done") /\ UNCHANGED inbox
     \/ /\ ~stop /\ inbox["weather"]
        /\ WeatherGoto("top")
        /\ inbox' = [inbox EXCEPT !["weather"] = FALSE]
     \/ /\ ~stop /\ ~inbox["weather"]
        /\ weather' = [weather EXCEPT !.pc = "top", !.ahead = FALSE]
        /\ UNCHANGED inbox
  /\ WeatherOnly

WeatherStep ==
  \/ WeatherTop \/ WeatherIdle \/ WeatherEarly \/ WeatherDue
  \/ WeatherFetch \/ WeatherRecord \/ WeatherDrop \/ WeatherWake

\* Asleep, with no message queued or about to be sent, the worker sleeps for
\* the location that is configured now.
WeatherSleepsForCurrent ==
  weather.pc = "wait" /\ ~inbox["weather"] /\ ~NotifyPending("weather") =>
    weather.active = IF snapshot.settings.weather THEN snapshot.settings.location
                     ELSE NoLocation
====
