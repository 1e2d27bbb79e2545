---- MODULE Runtime ----
(***************************************************************************)
(* RuntimeCoordinator::start and RuntimeHandle::shutdown                   *)
(* (src/src/runtime.rs): the settings service, the display loop and the    *)
(* four provider workers on one snapshot, one settings file and one stop   *)
(* flag.  A worker outside Workers takes no step.                          *)
(***************************************************************************)
EXTENDS AdsbWorker, FlightWorker, WeatherWorker, SolarWorker

workerVars == <<adsb, flight, weather, solar>>

vars == <<serviceVars, workerVars>>

StartPc(w) == IF w \in Workers THEN "top" ELSE "done"

Init ==
  /\ ServiceInit
  /\ adsb = AdsbStart(StartPc("adsb"))
  /\ flight = FlightStart(StartPc("flight"))
  /\ weather = WeatherStart(StartPc("weather"))
  /\ solar = SolarStart(StartPc("solar"))

WorkersDone == \A w \in {adsb, flight, weather, solar} : w.pc = "done"

\* A crash at any point or an exit, and a new process on the same files.
Reboot ==
  /\ Restart
  /\ adsb' = AdsbStart(StartPc("adsb"))
  /\ flight' = FlightStart(StartPc("flight"))
  /\ weather' = WeatherStart(StartPc("weather"))
  /\ solar' = SolarStart(StartPc("solar"))

Next ==
  \/ ServiceStep /\ UNCHANGED workerVars
  \/ AdsbStep /\ UNCHANGED <<flight, weather, solar>>
  \/ FlightStep /\ UNCHANGED <<adsb, weather, solar>>
  \/ WeatherStep /\ UNCHANGED <<adsb, flight, solar>>
  \/ SolarStep /\ UNCHANGED <<adsb, flight, weather>>
  \/ Exit(WorkersDone) /\ UNCHANGED workerVars
  \/ Reboot
  \/ Gone /\ UNCHANGED workerVars

\* Threads are scheduled, HTTP requests have read time-outs and waits end, so
\* a worker that can go on does; nobody is obliged to touch or signal.
Fairness ==
  /\ ServiceFairness
  /\ WF_vars(AdsbStep /\ UNCHANGED <<flight, weather, solar>>)
  /\ WF_vars(FlightStep /\ UNCHANGED <<adsb, weather, solar>>)
  /\ WF_vars(WeatherStep /\ UNCHANGED <<adsb, flight, solar>>)
  /\ WF_vars(SolarStep /\ UNCHANGED <<adsb, flight, weather>>)
  /\ WF_vars(Exit(WorkersDone) /\ UNCHANGED workerVars)

Spec == Init /\ [][Next]_vars /\ Fairness

----
\* Every variable has its type.
TypeOK == ServiceTypeOK /\ AdsbTypeOK /\ FlightTypeOK /\ WeatherTypeOK /\ SolarTypeOK

\* The aircraft on the display are inside the configured range of the
\* configured location and allowed by the configured filter, although answers
\* arrive after the settings they were fetched for have changed.
AircraftMatch == AircraftMatchSettings(snapshot)

\* Enrichment is displayed only for aircraft that are displayed.
EnrichmentMatch == EnrichmentIsDisplayed(snapshot)

\* Weather and sunset on the display belong to the configured location.
ProvidersMatch == ProvidersMatchSettings(snapshot)

\* Data with an age was fetched for the current location, and the radar is
\* shown only once such data has arrived.
Fresh == FreshnessIsConsistent(snapshot)

\* A newly configured query is answered or reported as failed, unless the
\* query changes again or the program stops.
QueryIsServed ==
  \A s \in Edits :
    snapshot.settings = s ~>
      \/ ~QueryIsCurrent(snapshot, Query(s))
      \/ stop
      \/ adsb.pc = "wait" /\ adsb.query = Query(s)

\* A stop signal ends the process: no worker, however asleep, keeps the main
\* thread in its joins.
StopEndsProcess == stop ~> main = "exited" \/ ~stop
====
