---- MODULE Runtime_proofs ----
(***************************************************************************)
(* What the runtime keeps true for any settings, any number of browser     *)
(* requests, any subset of the workers and any number of restarts.  IInv   *)
(* is the inductive invariant: the types, the promises of every published  *)
(* snapshot, and what each thread carries from one step to the next.       *)
(***************************************************************************)
EXTENDS Runtime, RuntimeModel_proofs

\* A thread past its save holds the candidate the file holds.
SavedIsOnFile ==
  \A c \in Clients : client[c].pc = "saved" => settingsFile = client[c].candidate

\* The location under way is a real one.
AdsbAsksAPlace == adsb.pc \in {"fetch", "answered", "failed"} => adsb.query.location # NoLocation

WeatherAsksAPlace == weather.pc \in {"fetch", "answered", "failed"} => weather.location \in Locations

FlightAsksAnAircraft ==
  flight.pc \in {"lookup", "answered", "failed"}
    => flight.target \in [aircraft : Sightings, needs : Needs]

ServiceInv == ServiceTypeOK /\ SnapshotOK(snapshot) /\ OneChangeAtATime /\ SavedIsOnFile

\* A worker that is not composed has ended before it began.
Composed(w, state) == state.pc # "done" => w \in Workers

AdsbInv == AdsbTypeOK /\ AdsbAsksAPlace /\ Composed("adsb", adsb)
FlightInv == FlightTypeOK /\ FlightAsksAnAircraft /\ Composed("flight", flight)
WeatherInv == WeatherTypeOK /\ WeatherAsksAPlace /\ Composed("weather", weather)

IInv == ServiceInv /\ AdsbInv /\ FlightInv /\ WeatherInv /\ SolarTypeOK

----
\* cycle_range stays inside the presets.
LEMMA NextRangeType ==
  ASSUME NEW r \in Ranges
  PROVE  NextRange(r) \in Ranges
<1>1. NumRanges \in Nat /\ NumRanges > 0
  BY ModelAssumption
<1>2. r \in Nat
  BY <1>1 DEF Ranges
<1>3. (r + 1) % NumRanges \in 0 .. NumRanges - 1
  BY <1>1, <1>2
<1>4. QED BY <1>3 DEF NextRange, Ranges

\* load_initial_model publishes the stored settings, and keeps every promise.
LEMMA BootSnapshotOK ==
  ASSUME settingsFile \in Settings, solarFile \in Places \cup {NoPlace}
  PROVE  \A boot \in BootSnapshots :
           boot \in Snapshot /\ SnapshotOK(boot) /\ boot.settings = settingsFile
<1> DEFINE new == NewSnapshot(settingsFile)
<1>1. new \in Snapshot /\ SnapshotOK(new) /\ new.settings = settingsFile
  BY NewSnapshotOK DEF NewSnapshot
<1>2. CASE SolarIsCurrent(new, solarFile)
  <2>1. RecordSolar(new, solarFile) \in Snapshot /\ SnapshotOK(RecordSolar(new, solarFile))
    BY <1>1, <1>2, RecordSolarOK
  <2>2. RecordSolar(new, solarFile).settings = settingsFile
    BY <1>1 DEF RecordSolar, Snapshot
  <2>3. BootSnapshots = {new, RecordSolar(new, solarFile)}
    BY <1>2 DEF BootSnapshots
  <2>4. QED BY <1>1, <2>1, <2>2, <2>3
<1>3. CASE ~SolarIsCurrent(new, solarFile)
  <2>1. BootSnapshots = {new}
    BY <1>3 DEF BootSnapshots
  <2>2. QED BY <1>1, <2>1
<1>4. QED BY <1>2, <1>3

\* The initial states satisfy the invariant.
LEMMA InitInv ==
  Init => IInv
<1> SUFFICES ASSUME Init PROVE IInv
  OBVIOUS
<1> USE ServiceAssumption, ModelAssumption
<1>1. settingsFile \in Settings /\ solarFile \in Places \cup {NoPlace}
  BY DEF Init, ServiceInit
<1>2. snapshot \in Snapshot /\ SnapshotOK(snapshot)
  BY <1>1, BootSnapshotOK DEF Init, ServiceInit
<1>3. \A c \in Clients : client[c] = IdleClient
  BY DEF Init, ServiceInit
<1>4. client \in [Clients -> Client]
  BY DEF Init, ServiceInit, IdleClient, Client
<1>5. ServiceTypeOK
  <2>1. inbox \in [Workers -> BOOLEAN] /\ stop \in BOOLEAN
    BY DEF Init, ServiceInit
  <2>2. main \in {"running", "joining", "exited"} /\ restarts \in 0 .. MaxRestarts
    BY DEF Init, ServiceInit
  <2>3. QED BY <1>1, <1>2, <1>4, <2>1, <2>2 DEF ServiceTypeOK
<1>6. OneChangeAtATime /\ SavedIsOnFile
  BY <1>3 DEF OneChangeAtATime, Holds, SavedIsOnFile, IdleClient
<1>7. AdsbInv
  <2>2. NoQuery \in {Query(s) : s \in Settings}
    <3>1. [FactorySettings EXCEPT !.range = 0] \in Settings
      BY DEF Settings, Ranges
    <3>2. Query([FactorySettings EXCEPT !.range = 0]) = NoQuery
      BY DEF Query, NoQuery, Settings
    <3>3. QED BY <3>1, <3>2
  <2>3. QED
    BY <2>2 DEF Init, AdsbInv, AdsbTypeOK, AdsbAsksAPlace, AdsbStart, StartPc, Composed
<1>8. FlightInv
  BY DEF Init, FlightInv, FlightTypeOK, FlightAsksAnAircraft, FlightStart, StartPc, Target, NoTarget,
         Needs, Composed
<1>9. WeatherInv
  BY DEF Init, WeatherInv, WeatherTypeOK, WeatherAsksAPlace, WeatherStart, StartPc, Composed
<1>10. SolarTypeOK
  BY DEF Init, SolarTypeOK, SolarStart, StartPc
<1>11. QED BY <1>2, <1>5, <1>6, <1>7, <1>8, <1>9, <1>10 DEF IInv, ServiceInv

----
(* The settings service *)

\* A form over a page's settings is a settings record again.
LEMMA MergeType ==
  ASSUME NEW base \in Settings, NEW edit \in Settings, NEW f \in SUBSET Fields
  PROVE  Merge(base, edit, f) \in Settings
BY DEF Merge, Settings

\* What a thread commits is a settings record.
LEMMA CandidateType ==
  ASSUME ServiceTypeOK, NEW c \in Clients
  PROVE  Candidate(c) \in Settings
<1>1. snapshot.settings \in Settings /\ client[c].candidate \in Settings
  BY DEF ServiceTypeOK, Snapshot, Client
<1>2. NextRange(snapshot.settings.range) \in Ranges
  BY <1>1, NextRangeType DEF Settings
<1>3. [snapshot.settings EXCEPT !.range = NextRange(@)] \in Settings
  BY <1>1, <1>2 DEF Settings
<1>4. QED BY <1>1, <1>3 DEF Candidate

\* A step that only moves one client, to a record that does not hold the
\* mutex, keeps the mutex and what is on file.
LEMMA ClientMovesFree ==
  ASSUME ServiceInv, NEW c \in Clients, NEW r \in Client, r.pc \in {"idle", "formed"},
         client' = [client EXCEPT ![c] = r], client[c].pc \in {"idle", "formed", "notify"},
         settingsFile' = settingsFile
  PROVE  client' \in [Clients -> Client] /\ OneChangeAtATime' /\ SavedIsOnFile'
<1>1. client \in [Clients -> Client]
  BY DEF ServiceInv, ServiceTypeOK
<1>2. client' \in [Clients -> Client] /\ client'[c] = r
  BY <1>1
<1>3. \A d \in Clients : d # c => client'[d] = client[d]
  BY <1>1
<1>4. OneChangeAtATime'
  BY <1>2, <1>3 DEF ServiceInv, OneChangeAtATime, Holds
<1>5. SavedIsOnFile'
  BY <1>2, <1>3 DEF ServiceInv, SavedIsOnFile
<1>6. QED BY <1>2, <1>4, <1>5

\* SubmitForm and Tap: a candidate, and nothing held yet.
LEMMA FormKeeps ==
  ASSUME ServiceInv, NEW c \in Clients, SubmitForm(c) \/ (Tap /\ c = Touch)
  PROVE  ServiceInv'
<1> USE ServiceAssumption
<1>1. PICK r \in Client : /\ r.pc = "formed"
                          /\ client' = [client EXCEPT ![c] = r]
  <2>1. CASE SubmitForm(c)
    <3>1. PICK e \in Edits, f \in FormShapes :
            client' = [client EXCEPT ![c] =
              [IdleClient EXCEPT !.pc = "formed", !.submitted = f,
                                 !.candidate = Merge(snapshot.settings, e, f)]]
      BY <2>1 DEF SubmitForm
    <3>2. Merge(snapshot.settings, e, f) \in Settings
      BY MergeType DEF ServiceInv, ServiceTypeOK, Snapshot
    <3>3. [IdleClient EXCEPT !.pc = "formed", !.submitted = f,
                             !.candidate = Merge(snapshot.settings, e, f)] \in Client
      BY <3>2 DEF IdleClient, Client
    <3>4. QED BY <3>1, <3>3 DEF IdleClient
  <2>2. CASE Tap /\ c = Touch
    <3>1. [IdleClient EXCEPT !.pc = "formed", !.submitted = {"range"}] \in Client
      BY DEF IdleClient, Client, Fields
    <3>2. QED BY <2>2, <3>1 DEF Tap, IdleClient
  <2>3. QED BY <2>1, <2>2
<1>2. client[c].pc = "idle"
  BY DEF SubmitForm, Tap
<1>3. UNCHANGED <<snapshot, settingsFile, solarFile, inbox, stop, main, restarts>>
  BY DEF SubmitForm, Tap
<1>4. client' \in [Clients -> Client] /\ OneChangeAtATime' /\ SavedIsOnFile'
  BY <1>1, <1>2, <1>3, ClientMovesFree
<1>5. QED BY <1>3, <1>4 DEF ServiceInv, ServiceTypeOK

\* Save: only the holder of the mutex, and its candidate is on file.
LEMMA SaveKeeps ==
  ASSUME ServiceInv, NEW c \in Clients, Save(c) \/ SaveFails(c)
  PROVE  ServiceInv'
<1>1. client \in [Clients -> Client] /\ Candidate(c) \in Settings
  BY CandidateType DEF ServiceInv, ServiceTypeOK
<1>2. client[c].pc = "formed" /\ \A d \in Clients : client[d].pc \notin {"saved", "notify"}
  BY DEF Save, SaveFails, CanSave, MutexFree, Holds
<1>3. UNCHANGED <<snapshot, solarFile, inbox, stop, main, restarts>>
  BY DEF Save, SaveFails
<1>4. CASE Save(c)
  <2>1. client' \in [Clients -> Client]
    BY <1>1, <1>4 DEF Save, Client
  <2>2. /\ client'[c].pc = "saved" /\ client'[c].candidate = Candidate(c)
        /\ settingsFile' = Candidate(c)
        /\ \A d \in Clients : d # c => client'[d] = client[d]
    BY <1>1, <1>4 DEF Save, Client
  <2>3. OneChangeAtATime' /\ SavedIsOnFile'
    BY <1>2, <2>2 DEF OneChangeAtATime, Holds, SavedIsOnFile
  <2>4. QED BY <1>1, <1>3, <2>1, <2>2, <2>3 DEF ServiceInv, ServiceTypeOK
<1>5. CASE SaveFails(c)
  <2>1. client' = [client EXCEPT ![c] = IdleClient] /\ settingsFile' \in Settings
    BY <1>1, <1>5 DEF SaveFails, ServiceInv, ServiceTypeOK
  <2>2. IdleClient \in Client /\ IdleClient.pc = "idle"
    BY ServiceAssumption DEF IdleClient, Client
  <2>3. client' \in [Clients -> Client] /\ \A d \in Clients : client'[d].pc \notin {"saved", "notify"}
    BY <1>1, <1>2, <2>1, <2>2
  <2>4. OneChangeAtATime' /\ SavedIsOnFile'
    BY <2>3 DEF OneChangeAtATime, Holds, SavedIsOnFile
  <2>5. QED BY <1>3, <2>1, <2>3, <2>4 DEF ServiceInv, ServiceTypeOK
<1>6. QED BY <1>4, <1>5

\* Publish: the holder keeps the mutex.
LEMMA PublishKeeps ==
  ASSUME ServiceInv, NEW c \in Clients, Publish(c)
  PROVE  ServiceInv'
<1>1. client \in [Clients -> Client] /\ client[c].candidate \in Settings /\ snapshot \in Snapshot
  BY DEF ServiceInv, ServiceTypeOK, Client
<1>2. snapshot' \in Snapshot /\ SnapshotOK(snapshot')
  BY <1>1, ReplaceSettingsType, ReplaceSettingsOK DEF Publish, ServiceInv
<1>3. client' \in [Clients -> Client]
  BY <1>1 DEF Publish, Client, ToWake
<1>4. /\ client[c].pc = "saved" /\ client'[c].pc = "notify"
      /\ \A d \in Clients : d # c => client'[d] = client[d]
  BY <1>1 DEF Publish, Client
<1>5. OneChangeAtATime' /\ SavedIsOnFile'
  BY <1>4 DEF Publish, ServiceInv, OneChangeAtATime, Holds, SavedIsOnFile
<1>6. UNCHANGED <<settingsFile, solarFile, inbox, stop, main, restarts>>
  BY DEF Publish
<1>7. QED BY <1>2, <1>3, <1>5, <1>6 DEF ServiceInv, ServiceTypeOK

\* Send: the last message releases the mutex.
LEMMA SendKeeps ==
  ASSUME ServiceInv, NEW c \in Clients, Send(c)
  PROVE  ServiceInv'
<1>1. client \in [Clients -> Client] /\ inbox \in [Workers -> BOOLEAN]
  BY DEF ServiceInv, ServiceTypeOK
<1>2. PICK w \in client[c].unsent :
        /\ inbox' = [inbox EXCEPT ![w] = TRUE]
        /\ client' = [client EXCEPT ![c] =
             IF client[c].unsent = {w} THEN IdleClient
               ELSE [client[c] EXCEPT !.unsent = @ \ {w}]]
  BY DEF Send
<1>3. UNCHANGED <<snapshot, settingsFile, solarFile, stop, main, restarts>> /\ client[c].pc = "notify"
  BY DEF Send
<1>4. inbox' \in [Workers -> BOOLEAN]
  BY <1>1, <1>2
<1>5. IdleClient \in Client
  BY ServiceAssumption DEF IdleClient, Client
<1> DEFINE rest == [client[c] EXCEPT !.unsent = @ \ {w}]
<1>6. rest \in Client /\ rest.pc = "notify"
  BY <1>1, <1>3 DEF Client
<1>7. /\ client' \in [Clients -> Client]
      /\ client'[c].pc \in {"idle", "notify"}
      /\ \A d \in Clients : d # c => client'[d] = client[d]
  <2>1. client' = [client EXCEPT ![c] = IF client[c].unsent = {w} THEN IdleClient ELSE rest]
    BY <1>2
  <2>2. IdleClient.pc = "idle"
    BY DEF IdleClient
  <2>3. QED BY <1>1, <1>5, <1>6, <2>1, <2>2
<1>8. OneChangeAtATime' /\ SavedIsOnFile'
  BY <1>3, <1>7 DEF ServiceInv, OneChangeAtATime, Holds, SavedIsOnFile
<1>9. QED BY <1>3, <1>4, <1>7, <1>8 DEF ServiceInv, ServiceTypeOK

\* Drawing a frame, the signal and the shutdown touch no settings.
LEMMA MainLoopKeeps ==
  ASSUME ServiceInv, Render \/ Signal \/ Shutdown \/ Exit(WorkersDone) \/ Gone
  PROVE  ServiceInv'
<1>1. snapshot' \in Snapshot /\ SnapshotOK(snapshot')
  <2>1. CASE Render
    BY <2>1, DirtyWriteOK DEF Render, ServiceInv, ServiceTypeOK
  <2>2. CASE Signal \/ Shutdown \/ Exit(WorkersDone) \/ Gone
    BY <2>2 DEF Signal, Shutdown, Exit, Gone, serviceVars, ServiceInv, ServiceTypeOK
  <2>3. QED BY <2>1, <2>2
<1>2. UNCHANGED <<settingsFile, solarFile, client, inbox, restarts>>
  BY DEF Render, Signal, Shutdown, Exit, Gone, serviceVars
<1>3. stop' \in BOOLEAN /\ main' \in {"running", "joining", "exited"}
  BY DEF Render, Signal, Shutdown, Exit, Gone, serviceVars, ServiceInv, ServiceTypeOK
<1>4. OneChangeAtATime' /\ SavedIsOnFile'
  BY <1>2 DEF ServiceInv, OneChangeAtATime, Holds, SavedIsOnFile
<1>5. QED BY <1>1, <1>2, <1>3, <1>4 DEF ServiceInv, ServiceTypeOK

LEMMA ServiceKeeps ==
  ASSUME ServiceInv, ServiceStep \/ Exit(WorkersDone) \/ Gone
  PROVE  ServiceInv'
<1>1. CASE \E c \in WebRequests : SubmitForm(c)
  BY <1>1, FormKeeps DEF Clients
<1>2. CASE Tap
  BY <1>2, FormKeeps DEF Clients
<1>3. CASE \E c \in Clients : CommitStep(c)
  BY <1>3, SaveKeeps, PublishKeeps, SendKeeps DEF CommitStep
<1>4. CASE Render \/ Signal \/ Shutdown \/ Exit(WorkersDone) \/ Gone
  BY <1>4, MainLoopKeeps
<1>5. QED BY <1>1, <1>2, <1>3, <1>4 DEF ServiceStep

----
(* Workers *)

\* A worker's step changes the snapshot, its inbox and the sunset cache at
\* most; the settings service carries on.
LEMMA WorkerLeavesService ==
  ASSUME ServiceInv, snapshot' \in Snapshot, SnapshotOK(snapshot'),
         solarFile' \in Places \cup {NoPlace}, inbox' \in [Workers -> BOOLEAN],
         UNCHANGED <<settingsFile, client, stop, main, restarts>>
  PROVE  ServiceInv'
<1>1. OneChangeAtATime' /\ SavedIsOnFile'
  BY DEF ServiceInv, OneChangeAtATime, Holds, SavedIsOnFile
<1>2. QED BY <1>1 DEF ServiceInv, ServiceTypeOK

\* An answer to a query holds sightings of its place.
LEMMA AnswersType ==
  ASSUME NEW q \in {Query(s) : s \in Settings}, NEW a \in Answers(q), q.location # NoLocation
  PROVE  a \in SUBSET Sightings
<1>1. q.location \in Locations /\ q.range \in Ranges
  BY DEF Query, Settings
<1>2. QED BY <1>1, ModelAssumption DEF Answers

LEMMA AdsbKeeps ==
  ASSUME ServiceInv, AdsbInv, AdsbStep
  PROVE  ServiceInv' /\ AdsbInv'
<1> USE DEF AdsbInv, AdsbTypeOK, AdsbAsksAPlace, Composed
<1>0. /\ snapshot \in Snapshot /\ SnapshotOK(snapshot) /\ inbox \in [Workers -> BOOLEAN]
      /\ solarFile \in Places \cup {NoPlace}
      /\ NoQuery \in {Query(s) : s \in Settings}
  <2>1. [FactorySettings EXCEPT !.range = 0] \in Settings
    BY ServiceAssumption, ModelAssumption DEF Settings, Ranges
  <2>2. Query([FactorySettings EXCEPT !.range = 0]) = NoQuery
    BY ServiceAssumption DEF Query, NoQuery, Settings
  <2>3. QED BY <2>1, <2>2 DEF ServiceInv, ServiceTypeOK
<1>1. CASE AdsbTop \/ AdsbRead \/ AdsbFetch \/ AdsbWake
  <2>1. UNCHANGED <<snapshot, settingsFile, solarFile, client, stop, main, restarts>>
    BY <1>1 DEF AdsbTop, AdsbRead, AdsbFetch, AdsbWake, AdsbOnly
  <2>2. inbox' \in [Workers -> BOOLEAN]
    BY <1>0, <1>1 DEF AdsbTop, AdsbRead, AdsbFetch, AdsbWake
  <2>3. AdsbInv'
    <3>1. CASE AdsbTop
      BY <1>0, <3>1 DEF AdsbTop, AdsbStart, AdsbGoto
    <3>2. CASE AdsbRead
      BY <1>0, <3>2 DEF AdsbRead, Query, Snapshot
    <3>3. CASE AdsbFetch
      BY <1>0, <3>3 DEF AdsbFetch, AdsbStart, AdsbGoto
    <3>4. CASE AdsbWake
      BY <1>0, <3>4 DEF AdsbWake, AdsbStart, AdsbGoto
    <3>5. QED BY <1>1, <3>1, <3>2, <3>3, <3>4
  <2>4. QED BY <1>0, <2>1, <2>2, <2>3, WorkerLeavesService
<1>2. CASE AdsbRecord
  <2>1. snapshot' \in Snapshot /\ SnapshotOK(snapshot')
    <3>1. CASE QueryIsCurrent(snapshot, adsb.query)
      <4>1. PICK a \in Answers(adsb.query) : snapshot' = RecordAircraft(snapshot, a)
        BY <1>2, <3>1 DEF AdsbRecord
      <4>2. adsb.query.location # NoLocation
        BY <1>2 DEF AdsbRecord
      <4>3. a \in SUBSET Sightings
        BY <4>2, AnswersType
      <4>4. QED BY <1>0, <3>1, <4>1, <4>2, <4>3, RecordAircraftOK
    <3>2. CASE ~QueryIsCurrent(snapshot, adsb.query)
      BY <1>0, <1>2, <3>2 DEF AdsbRecord
    <3>3. QED BY <3>1, <3>2
  <2>2. AdsbInv'
    BY <1>2 DEF AdsbRecord, AdsbGoto
  <2>3. UNCHANGED <<settingsFile, solarFile, client, inbox, stop, main, restarts>>
    BY <1>2 DEF AdsbRecord
  <2>4. QED BY <1>0, <2>1, <2>2, <2>3, WorkerLeavesService
<1>3. CASE AdsbFail
  <2>1. snapshot' \in Snapshot /\ SnapshotOK(snapshot')
    BY <1>0, <1>3, DirtyWriteOK DEF AdsbFail, RecordAdsbError
  <2>2. AdsbInv'
    BY <1>3 DEF AdsbFail, AdsbGoto
  <2>3. UNCHANGED <<settingsFile, solarFile, client, inbox, stop, main, restarts>>
    BY <1>3 DEF AdsbFail
  <2>4. QED BY <1>0, <2>1, <2>2, <2>3, WorkerLeavesService
<1>4. QED BY <1>1, <1>2, <1>3 DEF AdsbStep

LEMMA WeatherKeeps ==
  ASSUME ServiceInv, WeatherInv, WeatherStep
  PROVE  ServiceInv' /\ WeatherInv'
<1> USE DEF WeatherInv, WeatherTypeOK, WeatherAsksAPlace, Composed
<1>0. /\ snapshot \in Snapshot /\ SnapshotOK(snapshot) /\ inbox \in [Workers -> BOOLEAN]
      /\ solarFile \in Places \cup {NoPlace}
  BY DEF ServiceInv, ServiceTypeOK
<1>1. CASE WeatherTop \/ WeatherIdle \/ WeatherEarly \/ WeatherDue \/ WeatherFetch
           \/ WeatherDrop \/ WeatherWake
  <2>1. UNCHANGED <<snapshot, settingsFile, solarFile, client, stop, main, restarts>>
    BY <1>1 DEF WeatherTop, WeatherIdle, WeatherEarly, WeatherDue, WeatherFetch, WeatherDrop,
                WeatherWake, WeatherOnly
  <2>2. inbox' \in [Workers -> BOOLEAN]
    BY <1>0, <1>1 DEF WeatherTop, WeatherIdle, WeatherEarly, WeatherDue, WeatherFetch,
                      WeatherDrop, WeatherWake
  <2>3. WeatherInv'
    <3>0. "weather" \in Workers
      BY <1>1 DEF WeatherTop, WeatherIdle, WeatherEarly, WeatherDue, WeatherFetch, WeatherDrop,
                  WeatherWake
    <3>1. ASSUME NEW pc \in {"wait", "done"}, weather' = WeatherStart(pc)
          PROVE  WeatherInv'
      <4>1. WeatherTypeOK' /\ weather'.pc = pc
        BY <3>1 DEF WeatherStart
      <4>2. QED BY <3>0, <4>1
    <3>3. ASSUME NEW pc \in {"read", "wait", "top"}, weather' = [weather EXCEPT !.pc = pc]
          PROVE  WeatherInv'
      <4>1. WeatherTypeOK' /\ weather'.pc = pc
        BY <3>3
      <4>2. QED BY <3>0, <4>1
    <3>4. CASE WeatherTop \/ WeatherIdle \/ WeatherEarly \/ WeatherDrop
      BY <3>1, <3>3, <3>4 DEF WeatherTop, WeatherIdle, WeatherEarly, WeatherDrop, WeatherGoto
    <3>2. CASE WeatherDue
      BY <1>0, <3>2 DEF WeatherDue, Snapshot, Settings
    <3>5. CASE WeatherFetch
      <4>1. ASSUME NEW pc \in {"answered", "failed"}, weather' = [weather EXCEPT !.pc = pc]
            PROVE  WeatherInv'
        <5>1. WeatherTypeOK' /\ weather'.location = weather.location
          BY <4>1
        <5>2. weather.location \in Locations
          BY <3>5 DEF WeatherFetch
        <5>3. QED BY <3>0, <5>1, <5>2
      <4>2. QED BY <3>1, <3>5, <4>1 DEF WeatherFetch, WeatherGoto
    <3>6. CASE WeatherWake
      <4>1. CASE weather' = [weather EXCEPT !.pc = "top", !.ahead = FALSE]
        <5>1. WeatherTypeOK' /\ weather'.pc = "top"
          BY <4>1
        <5>2. QED BY <3>0, <5>1
      <4>2. QED BY <3>1, <3>3, <3>6, <4>1 DEF WeatherWake, WeatherGoto
    <3>7. QED BY <1>1, <3>2, <3>4, <3>5, <3>6
  <2>4. QED BY <1>0, <2>1, <2>2, <2>3, WorkerLeavesService
<1>2. CASE WeatherRecord
  <2>1. weather.location \in Locations /\ EnvironmentIsCurrent(snapshot, weather.location)
    BY <1>2 DEF WeatherRecord
  <2>2. snapshot' \in Snapshot /\ SnapshotOK(snapshot')
    BY <1>0, <1>2, <2>1, RecordEnvironmentOK, RecordEnvironmentErrorOK DEF WeatherRecord
  <2>3. WeatherInv'
    BY <1>2 DEF WeatherRecord
  <2>4. UNCHANGED <<settingsFile, solarFile, client, inbox, stop, main, restarts>>
    BY <1>2 DEF WeatherRecord
  <2>5. QED BY <1>0, <2>2, <2>3, <2>4, WorkerLeavesService
<1>3. QED BY <1>1, <1>2 DEF WeatherStep

LEMMA SolarKeeps ==
  ASSUME ServiceInv, SolarTypeOK, SolarStep
  PROVE  ServiceInv' /\ SolarTypeOK'
<1> USE DEF SolarTypeOK
<1>0. /\ snapshot \in Snapshot /\ SnapshotOK(snapshot) /\ inbox \in [Workers -> BOOLEAN]
      /\ solarFile \in Places \cup {NoPlace}
  BY DEF ServiceInv, ServiceTypeOK
<1>1. CASE SolarTop \/ SolarRead \/ SolarCheck \/ SolarFetch \/ SolarDrop \/ SolarRecheck \/ SolarWake
  <2>1. UNCHANGED <<snapshot, settingsFile, solarFile, client, stop, main, restarts>>
    BY <1>1 DEF SolarTop, SolarRead, SolarCheck, SolarFetch, SolarDrop, SolarRecheck, SolarWake,
                SolarOnly
  <2>2. inbox' \in [Workers -> BOOLEAN]
    <3>1. UNCHANGED inbox \/ inbox' = [inbox EXCEPT !["solar"] = FALSE]
      BY <1>1 DEF SolarTop, SolarRead, SolarCheck, SolarFetch, SolarDrop, SolarRecheck, SolarWake
    <3>2. QED BY <1>0, <3>1
  <2>3. SolarTypeOK'
    <3>1. CASE SolarTop \/ SolarFetch \/ SolarWake
      <4>1. CASE solar' = SolarStart("done")
        BY <4>1 DEF SolarStart
      <4>2. CASE \E pc \in {"read", "answered", "failed", "top"} : SolarGoto(pc)
        BY <4>2 DEF SolarGoto
      <4>3. QED BY <3>1, <4>1, <4>2 DEF SolarTop, SolarFetch, SolarWake
    <3>3. CASE SolarCheck \/ SolarDrop
      BY <3>3 DEF SolarCheck, SolarDrop, SolarGoto
    <3>4. CASE SolarRecheck
      <4>1. (solar.today \/ snapshot.solar = solar.active) \in BOOLEAN
        OBVIOUS
      <4>2. QED BY <3>4, <4>1 DEF SolarRecheck
    <3>2. CASE SolarRead
      <4>1. PlaceOfSettings(snapshot.settings) \in Places \cup {NoPlace}
        BY <1>0, ModelAssumption DEF PlaceOfSettings, Snapshot, Settings
      <4>2. QED BY <3>2, <4>1 DEF SolarRead
    <3>5. QED BY <1>1, <3>1, <3>2, <3>3, <3>4
  <2>4. QED BY <1>0, <2>1, <2>2, <2>3, WorkerLeavesService
<1>2. CASE SolarLoad \/ SolarSave
  <2>1. snapshot' \in Snapshot /\ SnapshotOK(snapshot')
    BY <1>0, <1>2, RecordSolarOK DEF SolarLoad, SolarSave
  <2>2. solarFile' \in Places \cup {NoPlace} /\ SolarTypeOK'
    BY <1>0, <1>2 DEF SolarLoad, SolarSave, SolarGoto
  <2>3. UNCHANGED <<settingsFile, client, inbox, stop, main, restarts>>
    BY <1>2 DEF SolarLoad, SolarSave
  <2>4. QED BY <1>0, <2>1, <2>2, <2>3, WorkerLeavesService
<1>3. CASE SolarSaveFails \/ SolarFail
  <2>1. snapshot' \in Snapshot /\ SnapshotOK(snapshot')
    BY <1>0, <1>3, RecordSolarErrorOK DEF SolarSaveFails, SolarFail
  <2>2. solarFile' \in Places \cup {NoPlace}
    BY <1>0, <1>3 DEF SolarSaveFails, SolarFail
  <2>5. SolarTypeOK'
    <3>1. \E pc \in {"failed", "wait", "top"} : solar' = [solar EXCEPT !.pc = pc]
      BY <1>3 DEF SolarSaveFails, SolarFail, SolarGoto
    <3>2. QED BY <3>1
  <2>3. UNCHANGED <<settingsFile, client, inbox, stop, main, restarts>>
    BY <1>3 DEF SolarSaveFails, SolarFail
  <2>4. QED BY <1>0, <2>1, <2>2, <2>3, <2>5, WorkerLeavesService
<1>4. QED BY <1>1, <1>2, <1>3 DEF SolarStep

\* publish_if_current keeps the promises, whatever the worker believes.
LEMMA PublishEnrichmentOK ==
  ASSUME ServiceInv, NEW a \in Sightings, NEW fields \in Needs
  PROVE  /\ PublishEnrichment(a, fields) \in Snapshot
         /\ SnapshotOK(PublishEnrichment(a, fields))
<1>1. KeyOf[a] \in Keys /\ snapshot \in Snapshot /\ SnapshotOK(snapshot)
  BY ModelAssumption DEF ServiceInv, ServiceTypeOK
<1>2. QED BY <1>1, RecordEnrichmentOK DEF PublishEnrichment

\* A flight worker that has ended.
LEMMA FlightDoneType ==
  ASSUME flight' = FlightStart("done")
  PROVE  FlightInv'
<1>1. NoTarget \in Target
  BY DEF Target
<1>2. {} \in Needs /\ [k \in Keys |-> {}] \in [Keys -> Needs]
  BY DEF Needs
<1>3. FlightTypeOK'
  BY <1>1, <1>2 DEF FlightTypeOK, FlightStart
<1>4. flight'.pc = "done"
  BY DEF FlightStart
<1>5. QED BY <1>3, <1>4 DEF FlightInv, FlightAsksAnAircraft, Composed

\* What the flight worker takes over from a snapshot is well typed.
LEMMA FlightReadType ==
  ASSUME FlightInv, FlightRead, NoTarget \in Target,
         snapshot.settings.location \in Locations \cup {NoLocation},
         snapshot.settings.needs \in Needs, snapshot.aircraft \in SUBSET Sightings
  PROVE  FlightInv'
<1> DEFINE s == snapshot.settings
           idle == s.location = NoLocation \/ s.needs = {}
<1>1. PICK cache \in [Keys -> Needs] :
        flight' = [ flight EXCEPT
          !.pc = IF idle THEN "wait" ELSE "scan",
          !.location = s.location, !.needs = s.needs,
          !.aircraft = IF idle THEN {} ELSE snapshot.aircraft,
          !.todo = IF idle THEN {} ELSE snapshot.aircraft,
          !.backoff = IF idle THEN NoTarget ELSE @, !.cache = cache ]
  BY DEF FlightRead
<1>2. flight.pc = "read"
  BY DEF FlightRead
<1> HIDE DEF idle
<1>3. FlightTypeOK'
  BY <1>1 DEF FlightInv, FlightTypeOK
<1>4. flight'.pc \in {"wait", "scan"}
  BY <1>1 DEF FlightInv, FlightTypeOK
<1>5. QED BY <1>2, <1>3, <1>4 DEF FlightInv, FlightAsksAnAircraft, Composed

LEMMA FlightKeeps ==
  ASSUME ServiceInv, FlightInv, FlightStep
  PROVE  ServiceInv' /\ FlightInv'
<1> USE DEF FlightInv, FlightTypeOK, FlightAsksAnAircraft, Composed
<1>0. /\ snapshot \in Snapshot /\ SnapshotOK(snapshot) /\ inbox \in [Workers -> BOOLEAN]
      /\ solarFile \in Places \cup {NoPlace}
  BY DEF ServiceInv, ServiceTypeOK
<1>1. CASE FlightTop \/ FlightRead \/ FlightChoose \/ FlightLookup \/ FlightFail \/ FlightWake
  <2>1. UNCHANGED <<snapshot, settingsFile, solarFile, client, stop, main, restarts>>
    BY <1>1 DEF FlightTop, FlightRead, FlightChoose, FlightLookup, FlightFail, FlightWake, FlightOnly
  <2>2. inbox' \in [Workers -> BOOLEAN]
    <3>1. UNCHANGED inbox \/ inbox' = [inbox EXCEPT !["flight"] = FALSE]
      BY <1>1 DEF FlightTop, FlightRead, FlightChoose, FlightLookup, FlightFail, FlightWake
    <3>2. QED BY <1>0, <3>1
  <2>3. FlightInv'
    <3>1. CASE FlightTop \/ FlightWake
      <4>1. CASE flight' = FlightStart("done")
        BY <4>1, FlightDoneType
      <4>2. CASE \E pc \in {"read", "top"} : flight' = [flight EXCEPT !.pc = pc]
        BY <3>1, <4>2 DEF FlightTop, FlightWake
      <4>3. QED BY <3>1, <4>1, <4>2 DEF FlightTop, FlightWake
    <3>2. CASE FlightRead
      <4>1. /\ snapshot.settings.location \in Locations \cup {NoLocation}
            /\ snapshot.settings.needs \in Needs /\ snapshot.aircraft \in SUBSET Sightings
        BY <1>0 DEF Snapshot, Settings
      <4>2. NoTarget \in Target
        BY DEF Target
      <4>3. QED BY <3>2, <4>1, <4>2, FlightReadType
    <3>3. CASE FlightChoose
      <4>1. NoTarget \in Target
        BY DEF Target
      <4>2. CASE flight' = [flight EXCEPT !.pc = "wait", !.aircraft = {}, !.backoff = NoTarget]
        BY <3>3, <4>1, <4>2 DEF FlightChoose
      <4>3. CASE flight' = [flight EXCEPT !.pc = "wait", !.aircraft = {}]
        BY <3>3, <4>3 DEF FlightChoose
      <4>4. ASSUME NEW a \in Candidates,
                   flight' = [flight EXCEPT !.pc = "lookup", !.aircraft = {},
                     !.target = [aircraft |-> a, needs |-> Pending(flight.cache, a, flight.needs)]]
            PROVE  FlightInv'
        <5>1. a \in Sightings /\ Pending(flight.cache, a, flight.needs) \in Needs
          BY DEF Candidates, Pending, Needs
        <5> DEFINE target == [aircraft |-> a, needs |-> Pending(flight.cache, a, flight.needs)]
        <5>2. target \in [aircraft : Sightings, needs : Needs] /\ target \in Target
          BY <5>1 DEF Target
        <5>3. flight' = [flight EXCEPT !.pc = "lookup", !.aircraft = {}, !.target = target]
          BY <4>4
        <5>4. "flight" \in Workers
          BY <3>3 DEF FlightChoose
        <5> HIDE DEF target
        <5>5. QED BY <5>2, <5>3, <5>4
      <4>5. QED BY <3>3, <4>2, <4>3, <4>4 DEF FlightChoose
    <3>4. CASE FlightLookup
      <4>1. CASE stop
        BY <3>4, <4>1, FlightDoneType DEF FlightLookup
      <4>2. CASE ~stop
        <5>1. PICK pc \in {"answered", "failed"} :
                flight' = [flight EXCEPT !.pc = pc, !.changed = inbox["flight"]]
          BY <3>4, <4>2 DEF FlightLookup
        <5>2. "flight" \in Workers /\ flight.pc = "lookup"
          BY <3>4 DEF FlightLookup
        <5>3. inbox["flight"] \in BOOLEAN
          BY <1>0, <5>2
        <5>4. QED BY <5>1, <5>2, <5>3
      <4>3. QED BY <4>1, <4>2
    <3>5. CASE FlightFail
      BY <3>5 DEF FlightFail, Target
    <3>6. QED BY <1>1, <3>1, <3>2, <3>3, <3>4, <3>5
  <2>4. QED BY <1>0, <2>1, <2>2, <2>3, WorkerLeavesService
<1>2. CASE FlightScan
  <2>1. PICK a \in flight.todo :
          /\ flight' = [flight EXCEPT !.todo = @ \ {a}]
          /\ snapshot' = IF Pending(flight.cache, a, flight.needs) # flight.needs
                         THEN PublishEnrichment(a, flight.needs \ Pending(flight.cache, a, flight.needs))
                         ELSE snapshot
    BY <1>2 DEF FlightScan
  <2>2. a \in Sightings /\ flight.needs \ Pending(flight.cache, a, flight.needs) \in Needs
    BY DEF Needs
  <2>3. snapshot' \in Snapshot /\ SnapshotOK(snapshot')
    BY <1>0, <2>1, <2>2, PublishEnrichmentOK
  <2>4. FlightInv'
    BY <1>2, <2>1 DEF FlightScan
  <2>5. UNCHANGED <<settingsFile, solarFile, client, inbox, stop, main, restarts>>
    BY <1>2 DEF FlightScan, FlightRest
  <2>6. QED BY <1>0, <2>3, <2>4, <2>5, WorkerLeavesService
<1>3. CASE FlightAnswer
  <2> DEFINE key == KeyOf[flight.target.aircraft]
             known == flight.cache[key] \cup flight.target.needs
  <2>1. /\ flight.target.aircraft \in Sightings /\ key \in Keys
        /\ known \in Needs /\ flight.needs \cap known \in Needs
    BY <1>3, ModelAssumption DEF FlightAnswer, Needs
  <2>2. snapshot' \in Snapshot /\ SnapshotOK(snapshot')
    BY <1>0, <1>3, <2>1, PublishEnrichmentOK DEF FlightAnswer
  <2>3. FlightInv'
    <3>1. NoTarget \in Target
      BY DEF Target
    <3>2. [flight.cache EXCEPT ![key] = known] \in [Keys -> Needs]
      BY <2>1
    <3>3. flight' = [ flight EXCEPT !.pc = IF flight.changed THEN "top" ELSE "wait",
                        !.cache[key] = known, !.target = NoTarget,
                        !.backoff = NoTarget, !.changed = FALSE ]
      BY <1>3 DEF FlightAnswer
    <3>4. "flight" \in Workers
      BY <1>3 DEF FlightAnswer
    <3>5. QED BY <2>1, <3>1, <3>2, <3>3, <3>4
  <2>4. UNCHANGED <<settingsFile, solarFile, client, inbox, stop, main, restarts>>
    BY <1>3 DEF FlightAnswer, FlightRest
  <2>5. QED BY <1>0, <2>2, <2>3, <2>4, WorkerLeavesService
<1>4. QED BY <1>1, <1>2, <1>3 DEF FlightStep

----
(* The runtime *)

\* A new process starts from what is on disk.
LEMMA RebootKeeps ==
  ASSUME IInv, Reboot
  PROVE  IInv'
<1> USE ServiceAssumption, ModelAssumption
<1>1. /\ settingsFile \in Settings /\ solarFile \in Places \cup {NoPlace}
      /\ restarts \in 0 .. MaxRestarts
  BY DEF IInv, ServiceInv, ServiceTypeOK
<1>2. snapshot' \in Snapshot /\ SnapshotOK(snapshot')
  BY <1>1, BootSnapshotOK DEF Reboot, Restart
<1>3. /\ client' \in [Clients -> Client]
      /\ \A c \in Clients : client'[c].pc = "idle"
  BY DEF Reboot, Restart, IdleClient, Client
<1>4. ServiceTypeOK'
  <2>1. inbox' \in [Workers -> BOOLEAN] /\ stop' \in BOOLEAN /\ main' = "running"
    BY DEF Reboot, Restart
  <2>2. restarts' \in 0 .. MaxRestarts
    BY <1>1 DEF Reboot, Restart
  <2>3. UNCHANGED <<settingsFile, solarFile>>
    BY DEF Reboot, Restart
  <2>4. QED BY <1>1, <1>2, <1>3, <2>1, <2>2, <2>3 DEF ServiceTypeOK
<1>5. OneChangeAtATime' /\ SavedIsOnFile'
  BY <1>3 DEF OneChangeAtATime, Holds, SavedIsOnFile
<1>6. AdsbInv'
  <2>1. NoQuery \in {Query(s) : s \in Settings}
    <3>1. [FactorySettings EXCEPT !.range = 0] \in Settings
      BY DEF Settings, Ranges
    <3>2. Query([FactorySettings EXCEPT !.range = 0]) = NoQuery
      BY DEF Query, NoQuery, Settings
    <3>3. QED BY <3>1, <3>2
  <2>2. QED
    BY <2>1 DEF Reboot, AdsbInv, AdsbTypeOK, AdsbAsksAPlace, AdsbStart, StartPc, Composed
<1>7. FlightInv'
  BY DEF Reboot, FlightInv, FlightTypeOK, FlightAsksAnAircraft, FlightStart, StartPc, Target,
         NoTarget, Needs, Composed
<1>8. WeatherInv' /\ SolarTypeOK'
  BY DEF Reboot, WeatherInv, WeatherTypeOK, WeatherAsksAPlace, WeatherStart, StartPc,
         SolarTypeOK, SolarStart, Composed
<1>9. QED BY <1>2, <1>4, <1>5, <1>6, <1>7, <1>8 DEF IInv, ServiceInv

\* Nobody's step, and no stutter, touches another thread's own state.
LEMMA OthersKept ==
  /\ AdsbInv /\ UNCHANGED adsb => AdsbInv'
  /\ FlightInv /\ UNCHANGED flight => FlightInv'
  /\ WeatherInv /\ UNCHANGED weather => WeatherInv'
  /\ SolarTypeOK /\ UNCHANGED solar => SolarTypeOK'
BY DEF AdsbInv, AdsbTypeOK, AdsbAsksAPlace, FlightInv, FlightTypeOK, FlightAsksAnAircraft,
       WeatherInv, WeatherTypeOK, WeatherAsksAPlace, SolarTypeOK, Composed

LEMMA NextInv ==
  IInv /\ [Next]_vars => IInv'
<1> SUFFICES ASSUME IInv, [Next]_vars PROVE IInv'
  OBVIOUS
<1>1. CASE (ServiceStep \/ Exit(WorkersDone) \/ Gone) /\ UNCHANGED workerVars
  BY <1>1, ServiceKeeps, OthersKept DEF IInv, workerVars
<1>2. CASE AdsbStep /\ UNCHANGED <<flight, weather, solar>>
  BY <1>2, AdsbKeeps, OthersKept DEF IInv
<1>3. CASE FlightStep /\ UNCHANGED <<adsb, weather, solar>>
  BY <1>3, FlightKeeps, OthersKept DEF IInv
<1>4. CASE WeatherStep /\ UNCHANGED <<adsb, flight, solar>>
  BY <1>4, WeatherKeeps, OthersKept DEF IInv
<1>5. CASE SolarStep /\ UNCHANGED <<adsb, flight, weather>>
  BY <1>5, SolarKeeps, OthersKept DEF IInv
<1>6. CASE Reboot
  BY <1>6, RebootKeeps
<1>7. CASE UNCHANGED vars
  <2>1. ServiceInv'
    BY <1>7 DEF IInv, vars, serviceVars, ServiceInv, ServiceTypeOK, OneChangeAtATime, Holds, SavedIsOnFile
  <2>2. QED BY <1>7, <2>1, OthersKept DEF IInv, vars, workerVars
<1>8. QED BY <1>1, <1>2, <1>3, <1>4, <1>5, <1>6, <1>7 DEF Next

\* The inductive invariant holds in every run.
THEOREM RuntimeInvariant == Spec => []IInv
BY InitInv, NextInv, PTL DEF Spec

----
(* What follows from the invariant *)

\* Every variable keeps its type.
THEOREM RuntimeTypes == Spec => []TypeOK
<1>1. IInv => TypeOK
  BY DEF IInv, ServiceInv, AdsbInv, FlightInv, WeatherInv, TypeOK
<1>2. QED BY <1>1, RuntimeInvariant, PTL

\* Late answers notwithstanding, aircraft on the display match the settings:
\* record_aircraft_if_query and replace_settings together see to it.
THEOREM AircraftAlwaysMatch == Spec => []AircraftMatch
<1>1. IInv => AircraftMatch
  BY DEF IInv, ServiceInv, SnapshotOK, AircraftMatch
<1>2. QED BY <1>1, RuntimeInvariant, PTL

\* Enrichment never outlives the aircraft it was joined to.
THEOREM EnrichmentAlwaysMatches == Spec => []EnrichmentMatch
<1>1. IInv => EnrichmentMatch
  BY DEF IInv, ServiceInv, SnapshotOK, EnrichmentMatch
<1>2. QED BY <1>1, RuntimeInvariant, PTL

\* Weather and sunset always belong to the configured location.
THEOREM ProvidersAlwaysMatch == Spec => []ProvidersMatch
<1>1. IInv => ProvidersMatch
  BY DEF IInv, ServiceInv, SnapshotOK, ProvidersMatch
<1>2. QED BY <1>1, RuntimeInvariant, PTL

\* Data with an age is data of the current location.
THEOREM AlwaysFresh == Spec => []Fresh
<1>1. IInv => Fresh
  BY DEF IInv, ServiceInv, SnapshotOK, Fresh
<1>2. QED BY <1>1, RuntimeInvariant, PTL

\* The update mutex serialises any number of browser requests and taps.
THEOREM AlwaysOneChange == Spec => []OneChangeAtATime
<1>1. IInv => OneChangeAtATime
  BY DEF IInv, ServiceInv
<1>2. QED BY <1>1, RuntimeInvariant, PTL
----
(* What a step of the runtime may never do: publish settings that are not   *)
(* on disk, or let a tap undo another change.  The second needs more than    *)
(* IInv: what the thread that holds the mutex knows.                         *)

\* Worker answers write data, never settings.
LEMMA RecordsKeepSettings ==
  ASSUME NEW snap \in Snapshot
  PROVE  /\ \A a : RecordAircraft(snap, a).settings = snap.settings
         /\ RecordAdsbError(snap).settings = snap.settings
         /\ \A k, e : RecordEnrichment(snap, k, e).settings = snap.settings
         /\ \A l : RecordEnvironment(snap, l).settings = snap.settings
         /\ RecordEnvironmentError(snap).settings = snap.settings
         /\ \A p : RecordSolar(snap, p).settings = snap.settings
         /\ RecordSolarError(snap).settings = snap.settings
BY DEF RecordAircraft, RecordAdsbError, RecordEnrichment, RecordEnvironment,
       RecordEnvironmentError, RecordSolar, RecordSolarError, Snapshot

\* A worker's step leaves the settings, their file and the clients alone.
LEMMA WorkersKeepSettings ==
  ASSUME snapshot \in Snapshot, AdsbStep \/ FlightStep \/ WeatherStep \/ SolarStep
  PROVE  /\ snapshot'.settings = snapshot.settings
         /\ UNCHANGED <<settingsFile, client>>
<1>1. CASE AdsbStep
  BY <1>1, RecordsKeepSettings
     DEF AdsbStep, AdsbTop, AdsbRead, AdsbFetch, AdsbRecord, AdsbFail, AdsbWake, AdsbOnly
<1>2. CASE FlightStep
  <2>1. \A a, f : PublishEnrichment(a, f).settings = snapshot.settings
    BY RecordsKeepSettings DEF PublishEnrichment
  <2>2. CASE FlightScan
    <3>1. \E a, f : snapshot' \in {snapshot, PublishEnrichment(a, f)}
      BY <2>2 DEF FlightScan
    <3>2. QED BY <2>1, <2>2, <3>1 DEF FlightScan, FlightRest
  <2>5. CASE FlightAnswer
    <3>1. \E a, f : snapshot' \in {snapshot, PublishEnrichment(a, f)}
      BY <2>5 DEF FlightAnswer
    <3>2. QED BY <2>1, <2>5, <3>1 DEF FlightAnswer, FlightRest
  <2>3. CASE FlightTop \/ FlightRead \/ FlightChoose \/ FlightLookup \/ FlightFail \/ FlightWake
    BY <2>3 DEF FlightTop, FlightRead, FlightChoose, FlightLookup, FlightFail, FlightWake, FlightOnly
  <2>4. QED BY <1>2, <2>2, <2>3, <2>5 DEF FlightStep
<1>3. CASE WeatherStep
  <2>1. CASE WeatherRecord
    BY <2>1, RecordsKeepSettings DEF WeatherRecord
  <2>2. CASE WeatherTop \/ WeatherIdle \/ WeatherEarly \/ WeatherDue \/ WeatherFetch
             \/ WeatherDrop \/ WeatherWake
    BY <2>2 DEF WeatherTop, WeatherIdle, WeatherEarly, WeatherDue, WeatherFetch, WeatherDrop,
                WeatherWake, WeatherOnly
  <2>3. QED BY <1>3, <2>1, <2>2 DEF WeatherStep
<1>4. CASE SolarStep
  <2>1. CASE SolarLoad \/ SolarSave \/ SolarSaveFails \/ SolarFail
    BY <2>1, RecordsKeepSettings DEF SolarLoad, SolarSave, SolarSaveFails, SolarFail
  <2>2. CASE SolarTop \/ SolarRead \/ SolarCheck \/ SolarFetch \/ SolarDrop \/ SolarRecheck
             \/ SolarWake
    BY <2>2 DEF SolarTop, SolarRead, SolarCheck, SolarFetch, SolarDrop, SolarRecheck, SolarWake,
                SolarOnly
  <2>3. QED BY <1>4, <2>1, <2>2 DEF SolarStep
<1>5. QED BY <1>1, <1>2, <1>3, <1>4

\* Of the service's steps, only a publication and a restart change settings.
LEMMA ServiceKeepsSettings ==
  ASSUME snapshot \in Snapshot,
         \/ \E c \in WebRequests : SubmitForm(c)
         \/ Tap \/ Render \/ Signal \/ Shutdown \/ Exit(WorkersDone) \/ Gone
         \/ \E c \in Clients : Save(c) \/ SaveFails(c) \/ Send(c)
  PROVE  snapshot'.settings = snapshot.settings
<1>1. CASE Render
  BY <1>1 DEF Render, Snapshot
<1>2. CASE \E c \in Clients : Save(c) \/ SaveFails(c) \/ Send(c)
  BY <1>2 DEF Save, SaveFails, Send
<1>3. CASE \/ \E c \in WebRequests : SubmitForm(c)
           \/ Tap \/ Signal \/ Shutdown \/ Exit(WorkersDone) \/ Gone
  BY <1>3 DEF SubmitForm, Tap, Signal, Shutdown, Exit, Gone, serviceVars
<1>4. QED BY <1>1, <1>2, <1>3

\* replace_settings publishes the settings it is given.
LEMMA ReplacedSettings ==
  ASSUME NEW snap, NEW s
  PROVE  ReplaceSettings(snap, s).settings = s
BY DEF ReplaceSettings

----
\* RuntimeSettingsService::commit saves before it publishes: a restart at any
\* point loads the settings that were in use, or newer ones.
THEOREM SettingsAlwaysDurable == Spec => PublishedSettingsAreDurable
<1> DEFINE Durable == snapshot'.settings # snapshot.settings => snapshot'.settings = settingsFile'
<1>1. ASSUME IInv, [Next]_vars PROVE [Durable]_serviceVars
  <2>0. snapshot \in Snapshot /\ settingsFile \in Settings /\ solarFile \in Places \cup {NoPlace}
    BY <1>1 DEF IInv, ServiceInv, ServiceTypeOK
  <2>1. CASE AdsbStep \/ FlightStep \/ WeatherStep \/ SolarStep
    BY <2>0, <2>1, WorkersKeepSettings
  <2>2. ASSUME NEW c \in Clients, Publish(c) PROVE Durable
    <3>1. snapshot'.settings = client[c].candidate /\ UNCHANGED settingsFile
      BY <2>2, ReplacedSettings DEF Publish
    <3>2. settingsFile = client[c].candidate
      BY <1>1, <2>2 DEF Publish, IInv, ServiceInv, SavedIsOnFile
    <3>3. QED BY <3>1, <3>2
  <2>3. CASE ServiceStep \/ Exit(WorkersDone) \/ Gone
    BY <2>0, <2>2, <2>3, ServiceKeepsSettings DEF ServiceStep, CommitStep
  <2>4. CASE Reboot
    BY <2>0, <2>4, BootSnapshotOK DEF Reboot, Restart
  <2>5. CASE UNCHANGED vars
    BY <2>5 DEF vars
  <2>6. QED BY <1>1, <2>1, <2>3, <2>4, <2>5 DEF Next
<1>2. QED BY <1>1, RuntimeInvariant, PTL DEF Spec, PublishedSettingsAreDurable

----
(* A tap against everything else *)

\* A tap past its save has advanced the range that is still configured:
\* nobody else publishes while it holds the mutex.
TapHoldsNext ==
  client[Touch].pc = "saved" =>
    client[Touch].candidate = [snapshot.settings EXCEPT !.range = NextRange(@)]

\* The settings under a thread that holds the mutex change by its own hand.
LEMMA TapHolds ==
  IInv /\ TapHoldsNext /\ [Next]_vars => TapHoldsNext'
<1> SUFFICES ASSUME IInv, TapHoldsNext, [Next]_vars, client'[Touch].pc = "saved"
    PROVE  client'[Touch].candidate = [snapshot'.settings EXCEPT !.range = NextRange(@)]
  BY DEF TapHoldsNext
<1>0. /\ snapshot \in Snapshot /\ client \in [Clients -> Client]
      /\ OneChangeAtATime /\ Touch \in Clients
  BY DEF IInv, ServiceInv, ServiceTypeOK, Clients
<1>1. CASE client' = client /\ snapshot'.settings = snapshot.settings
  BY <1>1 DEF TapHoldsNext
<1>2. CASE AdsbStep \/ FlightStep \/ WeatherStep \/ SolarStep
  BY <1>0, <1>1, <1>2, WorkersKeepSettings
<1>3. CASE Render \/ Signal \/ Shutdown \/ Exit(WorkersDone) \/ Gone
  <2>1. client' = client
    BY <1>3 DEF Render, Signal, Shutdown, Exit, Gone, serviceVars
  <2>2. QED BY <1>0, <1>1, <1>3, <2>1, ServiceKeepsSettings
<1>4. CASE Tap
  <2>1. client'[Touch].pc = "formed"
    BY <1>0, <1>4 DEF Tap, IdleClient
  <2>2. QED BY <2>1
<1>5. ASSUME NEW c \in WebRequests, SubmitForm(c)
      PROVE  client'[Touch].candidate = [snapshot'.settings EXCEPT !.range = NextRange(@)]
  <2>1. c # Touch
    BY ServiceAssumption
  <2>2. client'[Touch] = client[Touch]
    BY <1>0, <1>5, <2>1 DEF SubmitForm
  <2>3. snapshot'.settings = snapshot.settings
    BY <1>0, <1>5, ServiceKeepsSettings
  <2>4. QED BY <2>2, <2>3 DEF TapHoldsNext
<1>6. ASSUME NEW c \in Clients, CommitStep(c)
      PROVE  client'[Touch].candidate = [snapshot'.settings EXCEPT !.range = NextRange(@)]
  <2>1. CASE Save(c) /\ c = Touch
    BY <1>0, <2>1 DEF Save, Candidate, Client
  <2>2. CASE (SaveFails(c) \/ Publish(c) \/ Send(c)) /\ c = Touch
    <3>1. CASE SaveFails(c) /\ c = Touch
      BY <1>0, <3>1 DEF SaveFails, IdleClient
    <3>2. CASE Publish(c) /\ c = Touch
      BY <1>0, <3>2 DEF Publish, Client
    <3>3. CASE Send(c) /\ c = Touch
      <4>1. client'[Touch].pc \in {"idle", "notify"}
        BY <1>0, <3>3 DEF Send, IdleClient, Client
      <4>2. QED BY <4>1
    <3>4. QED BY <2>2, <3>1, <3>2, <3>3
  <2>3. CASE (Save(c) \/ SaveFails(c) \/ Send(c)) /\ c # Touch
    <3>1. client'[Touch] = client[Touch]
      BY <1>0, <2>3 DEF Save, SaveFails, Send
    <3>2. snapshot'.settings = snapshot.settings
      BY <1>0, <2>3, ServiceKeepsSettings
    <3>3. QED BY <3>1, <3>2 DEF TapHoldsNext
  <2>4. CASE Publish(c) /\ c # Touch
    <3>1. client'[Touch] = client[Touch] /\ client[c].pc = "saved"
      BY <1>0, <2>4 DEF Publish
    <3>2. QED BY <1>0, <2>4, <3>1 DEF OneChangeAtATime, Holds
  <2>5. QED BY <1>6, <2>1, <2>2, <2>3, <2>4 DEF CommitStep
<1>7. CASE ServiceStep
  BY <1>3, <1>4, <1>5, <1>6, <1>7 DEF ServiceStep
<1>8. CASE Reboot
  <2>1. client'[Touch].pc = "idle"
    BY <1>0, <1>8 DEF Reboot, Restart, IdleClient
  <2>2. QED BY <2>1
<1>9. CASE UNCHANGED vars
  BY <1>1, <1>9 DEF vars, serviceVars
<1>10. QED BY <1>2, <1>3, <1>7, <1>8, <1>9 DEF Next

\* cycle_range derives its candidate inside the update mutex: whatever forms
\* are saved at the same time, a tap changes the range of the settings it
\* replaces and nothing else.
THEOREM TapsKeepOtherSettings == Spec => TapKeepsOtherSettings
<1> DEFINE OnlyRange ==
      client[Touch].pc = "saved" /\ client'[Touch].pc = "notify" =>
        snapshot'.settings = [snapshot.settings EXCEPT !.range = NextRange(@)]
<1>1. Init => TapHoldsNext
  BY DEF Init, ServiceInit, TapHoldsNext, Clients, IdleClient
<1>2. ASSUME IInv, TapHoldsNext, [Next]_vars PROVE [OnlyRange]_serviceVars
  <2> SUFFICES ASSUME client[Touch].pc = "saved", client'[Touch].pc = "notify"
      PROVE  snapshot'.settings = [snapshot.settings EXCEPT !.range = NextRange(@)]
    OBVIOUS
  <2>0. snapshot \in Snapshot /\ client \in [Clients -> Client] /\ Touch \in Clients
    BY <1>2 DEF IInv, ServiceInv, ServiceTypeOK, Clients
  <2>1. client' # client
    OBVIOUS
  <2>2. Publish(Touch)
    <3>1. ~(AdsbStep \/ FlightStep \/ WeatherStep \/ SolarStep)
      BY <2>0, <2>1, WorkersKeepSettings
    <3>2. ~(Render \/ Signal \/ Shutdown \/ Exit(WorkersDone) \/ Gone \/ UNCHANGED vars)
      BY <2>1 DEF Render, Signal, Shutdown, Exit, Gone, vars, serviceVars
    <3>3. ~Reboot
      BY <2>0 DEF Reboot, Restart, IdleClient
    <3>4. ~Tap
      BY DEF Tap
    <3>5. ~\E c \in WebRequests : SubmitForm(c)
      BY <2>0 DEF SubmitForm, IdleClient
    <3>6. PICK c \in Clients : CommitStep(c)
      BY <1>2, <3>1, <3>2, <3>3, <3>4, <3>5 DEF Next, ServiceStep
    <3>7. c = Touch
      <4>1. \E r : client' = [client EXCEPT ![c] = r]
        BY <2>0, <3>6 DEF CommitStep, Save, SaveFails, Publish, Send
      <4>2. QED BY <2>0, <4>1
    <3>8. ~(Save(Touch) \/ SaveFails(Touch) \/ Send(Touch))
      BY DEF Save, SaveFails, Send, CanSave
    <3>9. QED BY <3>6, <3>7, <3>8 DEF CommitStep
  <2>3. snapshot'.settings = client[Touch].candidate
    BY <2>2, ReplacedSettings DEF Publish
  <2>4. QED BY <1>2, <2>3 DEF TapHoldsNext
<1>3. QED BY <1>1, <1>2, TapHolds, RuntimeInvariant, PTL DEF Spec, TapKeepsOtherSettings

----
(* No wake-up is lost.  A worker asleep has used the settings that are      *)
(* configured now, or a message for it is queued or about to be sent.       *)
(* Settings and messages change in three places (publish, send, drain),     *)
(* each in a step of its own; the argument is that a publication owes       *)
(* every worker a message before anything else can happen, that only the    *)
(* worker itself takes a message from its channel, and that after taking    *)
(* one it reads the snapshot again before it sleeps.                        *)

\* A message for w is queued, or the holder of the mutex owes it one.
Told(w) == inbox[w] \/ NotifyPending(w)

\* Taking a message is the first thing the settings service never undoes: a
\* debt is paid by queueing, and new settings are a new debt.
LEMMA NewsIsTold ==
  ASSUME IInv, NEW w \in Workers, ServiceStep \/ Exit(WorkersDone) \/ Gone
  PROVE  /\ Told(w) => Told(w)'
         /\ snapshot'.settings # snapshot.settings => Told(w)'
<1>0. /\ snapshot \in Snapshot /\ client \in [Clients -> Client]
      /\ inbox \in [Workers -> BOOLEAN] /\ OneChangeAtATime
  BY DEF IInv, ServiceInv, ServiceTypeOK
<1>1. CASE Render \/ Signal \/ Shutdown \/ Exit(WorkersDone) \/ Gone
  <2>1. UNCHANGED <<client, inbox>>
    BY <1>1 DEF Render, Signal, Shutdown, Exit, Gone, serviceVars
  <2>2. QED BY <1>0, <1>1, <2>1, ServiceKeepsSettings DEF Told, NotifyPending
<1>2. ASSUME NEW c \in Clients, NEW r, client' = [client EXCEPT ![c] = r],
             client[c].pc # "notify", UNCHANGED inbox
      PROVE  Told(w) => Told(w)'
  <2>1. \A d \in Clients : client[d].pc = "notify" => client'[d] = client[d]
    BY <1>0, <1>2
  <2>2. QED BY <1>2, <2>1 DEF Told, NotifyPending
<1>3. CASE Tap
  BY <1>0, <1>2, <1>3, ServiceKeepsSettings DEF Tap, Clients
<1>4. ASSUME NEW c \in WebRequests, SubmitForm(c)
      PROVE  (Told(w) => Told(w)') /\ snapshot'.settings = snapshot.settings
  <2>1. \E r : client' = [client EXCEPT ![c] = r]
    BY <1>4 DEF SubmitForm
  <2>2. client[c].pc # "notify" /\ UNCHANGED inbox
    BY <1>4 DEF SubmitForm
  <2>3. QED BY <1>0, <1>2, <1>4, <2>1, <2>2, ServiceKeepsSettings DEF Clients
<1>5. ASSUME NEW c \in Clients, Save(c) \/ SaveFails(c)
      PROVE  (Told(w) => Told(w)') /\ snapshot'.settings = snapshot.settings
  <2>1. \E r : client' = [client EXCEPT ![c] = r]
    BY <1>0, <1>5 DEF Save, SaveFails
  <2>2. client[c].pc # "notify" /\ UNCHANGED inbox
    BY <1>5 DEF Save, SaveFails, CanSave
  <2>3. QED BY <1>0, <1>2, <1>5, <2>1, <2>2, ServiceKeepsSettings
<1>6. ASSUME NEW c \in Clients, Publish(c)
      PROVE  Told(w)'
  <2>1. client'[c].pc = "notify" /\ client'[c].unsent = Workers
    BY <1>0, <1>6 DEF Publish, Client, ToWake
  <2>2. QED BY <2>1 DEF Told, NotifyPending
<1>7. ASSUME NEW c \in Clients, Send(c)
      PROVE  (Told(w) => Told(w)') /\ snapshot'.settings = snapshot.settings
  <2>1. PICK v \in client[c].unsent :
          /\ inbox' = [inbox EXCEPT ![v] = TRUE]
          /\ client' = [client EXCEPT ![c] =
               IF client[c].unsent = {v} THEN IdleClient
                 ELSE [client[c] EXCEPT !.unsent = @ \ {v}]]
    BY <1>7 DEF Send
  <2>2. v \in Workers /\ client[c].pc = "notify"
    BY <1>0, <1>7 DEF Send, Client
  <2>3. ASSUME v = w PROVE Told(w)'
    <3>1. inbox'[w] = TRUE
      BY <1>0, <2>1, <2>2, <2>3
    <3>2. QED BY <3>1 DEF Told
  <2>4. ASSUME v # w PROVE Told(w) => Told(w)'
    <3>1. inbox'[w] = inbox[w]
      BY <1>0, <2>1, <2>4
    <3>2. ASSUME NotifyPending(w) PROVE NotifyPending(w)'
      <4>1. PICK d \in Clients : client[d].pc = "notify" /\ w \in client[d].unsent
        BY <3>2 DEF NotifyPending
      <4>2. d = c
        BY <1>0, <2>2, <4>1 DEF OneChangeAtATime, Holds
      <4>3. client[c].unsent # {v} /\ w \in client[c].unsent \ {v}
        BY <2>4, <4>1, <4>2
      <4> DEFINE rest == [client[c] EXCEPT !.unsent = @ \ {v}]
      <4>4. client'[c] = rest
        BY <1>0, <2>1, <4>3
      <4>5. rest.pc = "notify" /\ rest.unsent = client[c].unsent \ {v}
        BY <1>0, <2>2 DEF Client
      <4>6. client'[c].pc = "notify" /\ w \in client'[c].unsent
        BY <4>3, <4>4, <4>5
      <4> HIDE DEF rest
      <4>7. QED BY <4>6 DEF NotifyPending
    <3>3. QED BY <3>1, <3>2 DEF Told
  <2>5. snapshot'.settings = snapshot.settings
    BY <1>0, <1>7, ServiceKeepsSettings
  <2>6. QED BY <2>3, <2>4, <2>5
<1>8. QED BY <1>1, <1>3, <1>4, <1>5, <1>6, <1>7, <1>0, ServiceKeepsSettings DEF ServiceStep, CommitStep

\* A worker drains its own channel and no other.
LEMMA OwnInboxOnly ==
  ASSUME inbox \in [Workers -> BOOLEAN], NEW w \in Workers
  PROVE  /\ AdsbStep /\ w # "adsb" => inbox'[w] = inbox[w]
         /\ FlightStep /\ w # "flight" => inbox'[w] = inbox[w]
         /\ WeatherStep /\ w # "weather" => inbox'[w] = inbox[w]
         /\ SolarStep /\ w # "solar" => inbox'[w] = inbox[w]
<1>1. AdsbStep => UNCHANGED inbox \/ inbox' = [inbox EXCEPT !["adsb"] = FALSE]
  BY DEF AdsbStep, AdsbTop, AdsbRead, AdsbFetch, AdsbRecord, AdsbFail, AdsbWake
<1>2. FlightStep => UNCHANGED inbox \/ inbox' = [inbox EXCEPT !["flight"] = FALSE]
  BY DEF FlightStep, FlightTop, FlightRead, FlightScan, FlightChoose, FlightLookup,
         FlightAnswer, FlightFail, FlightWake, FlightRest
<1>3. WeatherStep => UNCHANGED inbox \/ inbox' = [inbox EXCEPT !["weather"] = FALSE]
  BY DEF WeatherStep, WeatherTop, WeatherIdle, WeatherEarly, WeatherDue, WeatherFetch,
         WeatherRecord, WeatherDrop, WeatherWake
<1>4. SolarStep => UNCHANGED inbox \/ inbox' = [inbox EXCEPT !["solar"] = FALSE]
  BY DEF SolarStep, SolarTop, SolarRead, SolarLoad, SolarCheck, SolarFetch, SolarSave,
         SolarSaveFails, SolarDrop, SolarRecheck, SolarFail, SolarWake
<1>5. QED BY <1>1, <1>2, <1>3, <1>4

\* What another thread does to a worker that keeps its own state: it is told
\* of new settings, and what it has been told stays told.
LEMMA TheOthersTell ==
  ASSUME IInv, NEW w \in Workers,
         \/ ServiceStep \/ Exit(WorkersDone) \/ Gone
         \/ (AdsbStep /\ w # "adsb") \/ (FlightStep /\ w # "flight")
         \/ (WeatherStep /\ w # "weather") \/ (SolarStep /\ w # "solar")
         \/ UNCHANGED vars
  PROVE  /\ Told(w) => Told(w)'
         /\ snapshot'.settings # snapshot.settings => Told(w)'
<1>0. snapshot \in Snapshot /\ inbox \in [Workers -> BOOLEAN]
  BY DEF IInv, ServiceInv, ServiceTypeOK
<1>1. CASE ServiceStep \/ Exit(WorkersDone) \/ Gone
  BY <1>1, NewsIsTold
<1>2. CASE \/ (AdsbStep /\ w # "adsb") \/ (FlightStep /\ w # "flight")
           \/ (WeatherStep /\ w # "weather") \/ (SolarStep /\ w # "solar")
  <2>1. UNCHANGED client /\ snapshot'.settings = snapshot.settings
    BY <1>0, <1>2, WorkersKeepSettings
  <2>2. inbox'[w] = inbox[w]
    BY <1>0, <1>2, OwnInboxOnly
  <2>3. QED BY <2>1, <2>2 DEF Told, NotifyPending
<1>3. CASE UNCHANGED vars
  BY <1>3 DEF vars, serviceVars, Told, NotifyPending
<1>4. QED BY <1>1, <1>2, <1>3

----
\* The ADS-B worker never sleeps on an old query: whatever is saved while it
\* fetches, records or waits, the new query is fetched without a time-out.
THEOREM AdsbNeverSleepsUninformed == Spec => []AdsbSleepsInformed
<1>1. Init => AdsbSleepsInformed
  BY DEF Init, AdsbStart, StartPc, AdsbSleepsInformed
<1>2. IInv /\ AdsbSleepsInformed /\ [Next]_vars => AdsbSleepsInformed'
  <2> SUFFICES ASSUME IInv, AdsbSleepsInformed, [Next]_vars, adsb'.pc = "wait", ~Told("adsb")'
      PROVE  Query(snapshot'.settings) = adsb'.query
    BY DEF AdsbSleepsInformed, QueryIsCurrent, Told
  <2>0. snapshot \in Snapshot /\ inbox \in [Workers -> BOOLEAN] /\ AdsbInv
    BY DEF IInv, ServiceInv, ServiceTypeOK
  <2>1. CASE AdsbStep
    <3>1. snapshot'.settings = snapshot.settings
      BY <2>0, <2>1, WorkersKeepSettings
    <3>2. CASE AdsbRead
      BY <3>1, <3>2 DEF AdsbRead
    <3>3. CASE AdsbRecord \/ AdsbFail
      <4>1. adsb'.query = adsb.query
        BY <2>0, <3>3 DEF AdsbRecord, AdsbFail, AdsbGoto, AdsbInv, AdsbTypeOK
      <4>2. QueryIsCurrent(snapshot, adsb.query)
        BY <2>0, <3>3 DEF AdsbRecord, AdsbFail, AdsbGoto, AdsbInv, AdsbTypeOK
      <4>3. QED BY <3>1, <4>1, <4>2 DEF QueryIsCurrent
    <3>4. CASE AdsbTop \/ AdsbFetch \/ AdsbWake
      <4>1. CASE adsb' = AdsbStart("done")
        BY <4>1 DEF AdsbStart
      <4>2. CASE \E pc \in {"read", "answered", "failed", "top"} : adsb' = [adsb EXCEPT !.pc = pc]
        BY <2>0, <4>2 DEF AdsbInv, AdsbTypeOK
      <4>3. QED BY <3>4, <4>1, <4>2 DEF AdsbTop, AdsbFetch, AdsbWake, AdsbGoto
    <3>5. QED BY <2>1, <3>2, <3>3, <3>4 DEF AdsbStep
  <2>2. CASE UNCHANGED adsb /\ ~AdsbStep /\ ~Reboot
    <3>1. "adsb" \in Workers
      BY <2>0, <2>2 DEF AdsbInv, Composed
    <3>2. /\ Told("adsb") => Told("adsb")'
          /\ snapshot'.settings # snapshot.settings => Told("adsb")'
      <4>1. \/ ServiceStep \/ Exit(WorkersDone) \/ Gone
            \/ FlightStep \/ WeatherStep \/ SolarStep \/ UNCHANGED vars
        BY <2>2 DEF Next
      <4>2. QED BY <3>1, <4>1, TheOthersTell
    <3>3. QED BY <2>2, <3>2 DEF AdsbSleepsInformed, Told, QueryIsCurrent
  <2>3. CASE Reboot
    BY <2>3 DEF Reboot, AdsbStart, StartPc
  <2>4. QED BY <2>1, <2>2, <2>3 DEF Next, vars, workerVars
<1>3. QED BY <1>1, <1>2, RuntimeInvariant, PTL DEF Spec

----
\* The flight worker from its snapshot to its sleep: unless it has been told
\* otherwise, what it works for is configured.  A message drained after the
\* lookup is remembered (CommandDrain::Changed) and keeps it awake.
FlightInformed ==
  \/ flight.pc \in {"scan", "lookup", "wait"}
  \/ flight.pc \in {"answered", "failed"} /\ ~flight.changed

FlightKnows ==
  FlightInformed /\ ~Told("flight") =>
    EnrichmentIsCurrent(snapshot, flight.location, flight.needs)

\* The flight worker never sleeps through a change of the location or of the
\* enrichment that is asked for, although its rounds take a lookup's time and
\* answers that come late are kept.
THEOREM FlightNeverSleepsUninformed == Spec => []FlightSleepsInformed
<1>1. Init => FlightKnows
  BY DEF Init, FlightStart, StartPc, FlightKnows, FlightInformed
<1>2. IInv /\ FlightKnows /\ [Next]_vars => FlightKnows'
  <2> SUFFICES ASSUME IInv, FlightKnows, [Next]_vars, FlightInformed', ~Told("flight")'
      PROVE  /\ snapshot'.settings.location = flight'.location
             /\ snapshot'.settings.needs = flight'.needs
    BY DEF FlightKnows, EnrichmentIsCurrent
  <2>0. /\ snapshot \in Snapshot /\ inbox \in [Workers -> BOOLEAN] /\ client \in [Clients -> Client]
        /\ FlightTypeOK /\ Composed("flight", flight)
    BY DEF IInv, ServiceInv, ServiceTypeOK, FlightInv
  <2>1. ASSUME FlightStep, FlightInformed, Told("flight") => Told("flight")',
               flight'.location = flight.location, flight'.needs = flight.needs
        PROVE  /\ snapshot'.settings.location = flight'.location
               /\ snapshot'.settings.needs = flight'.needs
    <3>1. snapshot'.settings = snapshot.settings
      BY <2>0, <2>1, WorkersKeepSettings
    <3>2. EnrichmentIsCurrent(snapshot, flight.location, flight.needs)
      BY <2>1 DEF FlightKnows
    <3>3. QED BY <2>1, <3>1, <3>2 DEF EnrichmentIsCurrent
  <2>2. CASE FlightRead
    <3>1. snapshot'.settings = snapshot.settings
      BY <2>0, <2>2, WorkersKeepSettings DEF FlightStep
    <3>2. flight'.location = snapshot.settings.location /\ flight'.needs = snapshot.settings.needs
      BY <2>0, <2>2 DEF FlightRead, FlightTypeOK
    <3>3. QED BY <3>1, <3>2
  <2>3. CASE FlightScan \/ FlightChoose \/ FlightAnswer \/ FlightFail
    <3>1. Told("flight") => Told("flight")'
      <4>1. UNCHANGED <<inbox, client>>
        BY <2>3 DEF FlightScan, FlightChoose, FlightAnswer, FlightFail, FlightRest, FlightOnly
      <4>2. QED BY <4>1 DEF Told, NotifyPending
    <3>2. flight'.location = flight.location /\ flight'.needs = flight.needs
      BY <2>0, <2>3 DEF FlightScan, FlightChoose, FlightAnswer, FlightFail, FlightTypeOK
    <3>3. CASE FlightScan \/ FlightChoose
      BY <2>1, <3>1, <3>2, <3>3 DEF FlightScan, FlightChoose, FlightInformed, FlightStep
    <3>4. CASE FlightAnswer \/ FlightFail
      <4>1. flight.changed => flight'.pc = "top"
        BY <2>0, <3>4 DEF FlightAnswer, FlightFail, FlightTypeOK
      <4>2. flight.pc \in {"answered", "failed"}
        BY <3>4 DEF FlightAnswer, FlightFail
      <4>3. FlightInformed
        BY <4>1, <4>2 DEF FlightInformed
      <4>4. QED BY <2>1, <3>1, <3>2, <3>4, <4>3 DEF FlightStep
    <3>5. QED BY <2>3, <3>3, <3>4
  <2>4. CASE FlightTop \/ FlightWake
    <3>1. flight'.pc \notin {"scan", "lookup", "wait", "answered", "failed"}
      <4>1. CASE flight' = FlightStart("done")
        BY <4>1 DEF FlightStart
      <4>2. CASE \E pc \in {"read", "top"} : flight' = [flight EXCEPT !.pc = pc]
        BY <2>0, <4>2 DEF FlightTypeOK
      <4>3. QED BY <2>4, <4>1, <4>2 DEF FlightTop, FlightWake
    <3>2. QED BY <3>1 DEF FlightInformed
  <2>5. CASE FlightLookup
    <3>1. CASE stop
      BY <2>5, <3>1 DEF FlightLookup, FlightStart, FlightInformed
    <3>2. CASE ~stop
      <4>1. PICK pc \in {"answered", "failed"} :
              flight' = [flight EXCEPT !.pc = pc, !.changed = inbox["flight"]]
        BY <2>5, <3>2 DEF FlightLookup
      <4>2. /\ flight'.changed = inbox["flight"] /\ flight'.pc = pc
            /\ flight'.location = flight.location /\ flight'.needs = flight.needs
        BY <2>0, <4>1 DEF FlightTypeOK
      <4>3. ~inbox["flight"]
        BY <4>2 DEF FlightInformed
      <4>4. UNCHANGED client
        BY <2>5 DEF FlightLookup, FlightOnly
      <4>5. Told("flight") => Told("flight")'
        BY <4>3, <4>4 DEF Told, NotifyPending
      <4>6. FlightInformed
        BY <2>5 DEF FlightLookup, FlightInformed
      <4>7. QED BY <2>1, <2>5, <4>2, <4>5, <4>6 DEF FlightStep
    <3>3. QED BY <3>1, <3>2
  <2>6. CASE UNCHANGED flight /\ ~FlightStep /\ ~Reboot
    <3>1. FlightInformed
      BY <2>6 DEF FlightInformed
    <3>2. "flight" \in Workers
      BY <2>0, <3>1 DEF FlightInformed, Composed
    <3>3. /\ Told("flight") => Told("flight")'
          /\ snapshot'.settings # snapshot.settings => Told("flight")'
      <4>1. \/ ServiceStep \/ Exit(WorkersDone) \/ Gone
            \/ AdsbStep \/ WeatherStep \/ SolarStep \/ UNCHANGED vars
        BY <2>6 DEF Next
      <4>2. QED BY <3>2, <4>1, TheOthersTell
    <3>4. QED BY <2>6, <3>1, <3>3 DEF FlightKnows, EnrichmentIsCurrent
  <2>7. CASE Reboot
    BY <2>7 DEF Reboot, FlightStart, StartPc, FlightInformed
  <2>8. QED BY <2>2, <2>3, <2>4, <2>5, <2>6, <2>7 DEF Next, FlightStep, vars, workerVars
<1>3. FlightKnows => FlightSleepsInformed
  BY DEF FlightKnows, FlightInformed, FlightSleepsInformed, Told
<1>4. QED BY <1>1, <1>2, <1>3, RuntimeInvariant, PTL DEF Spec

----
\* The weather worker never sleeps for a location that is no longer the one
\* configured, nor for any when no field needs it.
THEOREM WeatherNeverSleepsElsewhere == Spec => []WeatherSleepsForCurrent
<1> DEFINE Wanted == IF snapshot.settings.weather THEN snapshot.settings.location ELSE NoLocation
<1>1. Init => WeatherSleepsForCurrent
  BY DEF Init, WeatherStart, StartPc, WeatherSleepsForCurrent
<1>2. IInv /\ WeatherSleepsForCurrent /\ [Next]_vars => WeatherSleepsForCurrent'
  <2> SUFFICES ASSUME IInv, WeatherSleepsForCurrent, [Next]_vars,
                      weather'.pc = "wait", ~Told("weather")'
      PROVE  weather'.active = Wanted'
    BY DEF WeatherSleepsForCurrent, Told
  <2>0. /\ snapshot \in Snapshot /\ inbox \in [Workers -> BOOLEAN] /\ WeatherTypeOK
        /\ Composed("weather", weather)
    BY DEF IInv, ServiceInv, ServiceTypeOK, WeatherInv
  <2>1. CASE WeatherStep
    <3>1. snapshot'.settings = snapshot.settings
      BY <2>0, <2>1, WorkersKeepSettings
    <3>2. CASE WeatherIdle
      <4>1. weather'.active = NoLocation
        BY <3>2 DEF WeatherIdle, WeatherStart
      <4>2. Wanted = NoLocation
        BY <3>2 DEF WeatherIdle
      <4>3. QED BY <3>1, <4>1, <4>2
    <3>3. CASE WeatherEarly
      <4>1. weather'.active = weather.active
        BY <2>0, <3>3 DEF WeatherEarly, WeatherGoto, WeatherTypeOK
      <4>2. QED BY <3>1, <3>3, <4>1 DEF WeatherEarly
    <3>4. CASE WeatherTop \/ WeatherDue \/ WeatherFetch \/ WeatherRecord \/ WeatherDrop \/ WeatherWake
      <4>1. CASE weather' = WeatherStart("done")
        BY <4>1 DEF WeatherStart
      <4>2. CASE \E pc \in {"read", "answered", "failed", "top"} : weather' = [weather EXCEPT !.pc = pc]
        BY <2>0, <4>2 DEF WeatherTypeOK
      <4>3. CASE WeatherDue
        BY <4>3 DEF WeatherDue
      <4>4. CASE WeatherRecord
        BY <2>0, <4>4 DEF WeatherRecord, WeatherTypeOK
      <4>5. CASE weather' = [weather EXCEPT !.pc = "top", !.ahead = FALSE]
        BY <2>0, <4>5 DEF WeatherTypeOK
      <4>6. QED
        BY <3>4, <4>1, <4>2, <4>3, <4>4, <4>5
           DEF WeatherTop, WeatherFetch, WeatherDrop, WeatherWake, WeatherGoto
    <3>5. QED BY <2>1, <3>2, <3>3, <3>4 DEF WeatherStep
  <2>2. CASE UNCHANGED weather /\ ~WeatherStep /\ ~Reboot
    <3>1. "weather" \in Workers
      BY <2>0, <2>2 DEF Composed
    <3>2. /\ Told("weather") => Told("weather")'
          /\ snapshot'.settings # snapshot.settings => Told("weather")'
      <4>1. \/ ServiceStep \/ Exit(WorkersDone) \/ Gone
            \/ AdsbStep \/ FlightStep \/ SolarStep \/ UNCHANGED vars
        BY <2>2 DEF Next
      <4>2. QED BY <3>1, <4>1, TheOthersTell
    <3>3. snapshot'.settings = snapshot.settings /\ ~Told("weather")
      BY <3>2
    <3>4. weather.active = Wanted
      BY <2>2, <3>3 DEF WeatherSleepsForCurrent, Told
    <3>5. QED BY <2>2, <3>3, <3>4
  <2>3. CASE Reboot
    BY <2>3 DEF Reboot, WeatherStart, StartPc
  <2>4. QED BY <2>1, <2>2, <2>3 DEF Next, vars, workerVars
<1>3. QED BY <1>1, <1>2, RuntimeInvariant, PTL DEF Spec

----
(* The sunset schedule *)

Sunset(snap) == <<snap.solar, snap.solarError>>

WantsSunset(snap) == snap.settings.night /\ snap.settings.location # NoLocation

\* Aircraft, enrichment and weather are written beside the schedule.
LEMMA RecordsKeepSunset ==
  ASSUME NEW snap \in Snapshot
  PROVE  /\ \A a : Sunset(RecordAircraft(snap, a)) = Sunset(snap)
         /\ Sunset(RecordAdsbError(snap)) = Sunset(snap)
         /\ \A k, e : Sunset(RecordEnrichment(snap, k, e)) = Sunset(snap)
         /\ \A l : Sunset(RecordEnvironment(snap, l)) = Sunset(snap)
         /\ Sunset(RecordEnvironmentError(snap)) = Sunset(snap)
BY DEF RecordAircraft, RecordAdsbError, RecordEnrichment, RecordEnvironment,
       RecordEnvironmentError, Snapshot, Sunset

\* The other workers leave the schedule and its cache alone.
LEMMA WorkersKeepSunset ==
  ASSUME snapshot \in Snapshot, AdsbStep \/ FlightStep \/ WeatherStep
  PROVE  Sunset(snapshot') = Sunset(snapshot) /\ UNCHANGED solarFile
<1>1. CASE AdsbStep
  BY <1>1, RecordsKeepSunset
     DEF AdsbStep, AdsbTop, AdsbRead, AdsbFetch, AdsbRecord, AdsbFail, AdsbWake, AdsbOnly
<1>2. CASE FlightStep
  <2>1. \A a, f : Sunset(PublishEnrichment(a, f)) = Sunset(snapshot)
    BY RecordsKeepSunset DEF PublishEnrichment
  <2>2. CASE FlightScan \/ FlightAnswer
    <3>1. (\E a, f : snapshot' \in {snapshot, PublishEnrichment(a, f)}) /\ UNCHANGED solarFile
      BY <2>2 DEF FlightScan, FlightAnswer, FlightRest
    <3>2. QED BY <2>1, <3>1
  <2>3. CASE FlightTop \/ FlightRead \/ FlightChoose \/ FlightLookup \/ FlightFail \/ FlightWake
    BY <2>3 DEF FlightTop, FlightRead, FlightChoose, FlightLookup, FlightFail, FlightWake,
                FlightOnly
  <2>4. QED BY <1>2, <2>2, <2>3 DEF FlightStep
<1>3. CASE WeatherStep
  <2>1. CASE WeatherRecord
    BY <2>1, RecordsKeepSunset DEF WeatherRecord
  <2>2. CASE WeatherTop \/ WeatherIdle \/ WeatherEarly \/ WeatherDue \/ WeatherFetch
             \/ WeatherDrop \/ WeatherWake
    BY <2>2 DEF WeatherTop, WeatherIdle, WeatherEarly, WeatherDue, WeatherFetch, WeatherDrop,
                WeatherWake, WeatherOnly
  <2>3. QED BY <1>3, <2>1, <2>2 DEF WeatherStep
<1>4. QED BY <1>1, <1>2, <1>3

\* The service only ever drops it, and not while the settings that want it stay.
LEMMA ServiceKeepsSunset ==
  ASSUME snapshot \in Snapshot, ServiceStep \/ Exit(WorkersDone) \/ Gone
  PROVE  /\ UNCHANGED solarFile
         /\ snapshot'.solar \in {NoPlace, snapshot.solar}
         /\ snapshot'.settings = snapshot.settings /\ WantsSunset(snapshot) =>
              Sunset(snapshot') = Sunset(snapshot)
<1>1. CASE Render
  BY <1>1 DEF Render, Snapshot, Sunset
<1>2. ASSUME NEW c \in Clients, Publish(c)
      PROVE  /\ UNCHANGED solarFile
             /\ snapshot'.solar \in {NoPlace, snapshot.solar}
             /\ snapshot'.settings = snapshot.settings /\ WantsSunset(snapshot) =>
                  Sunset(snapshot') = Sunset(snapshot)
  <2> DEFINE s == client[c].candidate
  <2>1. snapshot' = ReplaceSettings(snapshot, s) /\ UNCHANGED solarFile
    BY <1>2 DEF Publish
  <2>2. /\ snapshot'.settings = s
        /\ snapshot'.solar = (IF SolarGone(snapshot.settings, s) THEN NoPlace ELSE snapshot.solar)
        /\ snapshot'.solarError = (snapshot.solarError /\ ~SolarGone(snapshot.settings, s))
    BY <2>1 DEF ReplaceSettings
  <2>3. s = snapshot.settings /\ WantsSunset(snapshot) => ~SolarGone(snapshot.settings, s)
    BY DEF SolarGone, WantsSunset
  <2>4. snapshot.solarError \in BOOLEAN
    BY DEF Snapshot
  <2> HIDE DEF s
  <2>5. QED BY <2>1, <2>2, <2>3, <2>4 DEF Sunset
<1>3. CASE \/ \E c \in Clients : Save(c) \/ SaveFails(c) \/ Send(c)
           \/ \E c \in WebRequests : SubmitForm(c)
           \/ Tap \/ Signal \/ Shutdown \/ Exit(WorkersDone) \/ Gone
  BY <1>3 DEF Save, SaveFails, Send, SubmitForm, Tap, Signal, Shutdown, Exit, Gone, serviceVars
<1>4. QED BY <1>1, <1>2, <1>3 DEF ServiceStep, CommitStep

\* A wanted place is a place.
LEMMA WantedPlace ==
  ASSUME snapshot \in Snapshot, NEW p, SolarIsCurrent(snapshot, p)
  PROVE  p \in Places /\ p # NoPlace
BY ModelAssumption DEF SolarIsCurrent, Snapshot, Settings

\* What the solar worker writes into the snapshot.
LEMMA RecordedSunset ==
  ASSUME NEW snap \in Snapshot, NEW p
  PROVE  RecordSolar(snap, p).solar = p /\ RecordSolarError(snap).solar = snap.solar
         /\ RecordSolarError(snap).solarError = TRUE
BY DEF RecordSolar, RecordSolarError, Snapshot

\* The sunset on display is the one a restart would load: it is saved under
\* the lock before it is published, and a save that fails halfway can only
\* have replaced a schedule by one of the same place.
THEOREM SunsetAlwaysCached == Spec => []SunsetIsCached
<1>0. \A s \in Settings : NewSnapshot(s) \in Snapshot
  BY NewSnapshotOK
<1>1. ASSUME settingsFile \in Settings
      PROVE  \A boot \in BootSnapshots : boot.solar # NoPlace => solarFile = boot.solar
  <2>1. NewSnapshot(settingsFile).solar = NoPlace
    BY DEF NewSnapshot
  <2>2. RecordSolar(NewSnapshot(settingsFile), solarFile).solar = solarFile
    BY <1>0, <1>1, RecordedSunset
  <2>3. QED BY <2>1, <2>2 DEF BootSnapshots
<1>2. Init => SunsetIsCached
  <2> SUFFICES ASSUME Init PROVE SunsetIsCached
    OBVIOUS
  <2>1. settingsFile \in Settings
    BY InitInv DEF IInv, ServiceInv, ServiceTypeOK
  <2>2. QED BY <1>1, <2>1 DEF Init, ServiceInit, SunsetIsCached
<1>3. IInv /\ SunsetIsCached /\ [Next]_vars => SunsetIsCached'
  <2> SUFFICES ASSUME IInv, SunsetIsCached, [Next]_vars PROVE SunsetIsCached'
    OBVIOUS
  <2>0. /\ snapshot \in Snapshot /\ ProvidersMatchSettings(snapshot)
        /\ settingsFile \in Settings
    BY DEF IInv, ServiceInv, ServiceTypeOK, SnapshotOK
  <2>1. CASE SolarStep
    <3>1. CASE SolarLoad
      BY <2>0, <3>1, RecordedSunset DEF SolarLoad, SunsetIsCached
    <3>2. CASE SolarSave
      <4>1. solarFile' = solar.active /\ snapshot'.solar = solar.active
        <5>1. CASE snapshot' = RecordSolar(snapshot, solar.active)
          BY <2>0, <3>2, <5>1, RecordedSunset DEF SolarSave
        <5>2. CASE snapshot.solar = solar.active /\ UNCHANGED snapshot
          BY <3>2, <5>2 DEF SolarSave
        <5>3. QED BY <3>2, <5>1, <5>2 DEF SolarSave
      <4>2. QED BY <4>1 DEF SunsetIsCached
    <3>3. CASE SolarSaveFails
      <4>1. snapshot.solar # NoPlace => snapshot.solar = solar.active
        BY <2>0, <3>3 DEF SolarSaveFails, SolarIsCurrent, ProvidersMatchSettings
      <4>2. QED BY <3>3, <4>1 DEF SolarSaveFails, SunsetIsCached
    <3>4. CASE SolarFail
      BY <2>0, <3>4, RecordedSunset DEF SolarFail, SunsetIsCached
    <3>5. CASE SolarTop \/ SolarRead \/ SolarCheck \/ SolarFetch \/ SolarDrop \/ SolarRecheck
               \/ SolarWake
      BY <3>5 DEF SolarTop, SolarRead, SolarCheck, SolarFetch, SolarDrop, SolarRecheck,
                  SolarWake, SolarOnly, SunsetIsCached
    <3>6. QED BY <2>1, <3>1, <3>2, <3>3, <3>4, <3>5 DEF SolarStep
  <2>2. CASE AdsbStep \/ FlightStep \/ WeatherStep
    BY <2>0, <2>2, WorkersKeepSunset DEF SunsetIsCached, Sunset
  <2>3. CASE ServiceStep \/ Exit(WorkersDone) \/ Gone
    BY <2>0, <2>3, ServiceKeepsSunset DEF SunsetIsCached
  <2>4. CASE Reboot
    BY <1>1, <2>0, <2>4 DEF Reboot, Restart, SunsetIsCached
  <2>5. CASE UNCHANGED vars
    BY <2>5 DEF vars, serviceVars, SunsetIsCached
  <2>6. QED BY <2>1, <2>2, <2>3, <2>4, <2>5 DEF Next
<1>4. QED BY <1>2, <1>3, RuntimeInvariant, PTL DEF Spec

\* The sunset worker runs only where it was started.
SolarComposed == Composed("solar", solar)

\* The sunset worker never sleeps without a schedule or a recorded failure
\* while night mode wants one: what takes a schedule away is a change of
\* settings, and that is told.
THEOREM SolarNeverSleepsUninformed == Spec => []SolarSleepsInformed
<1>1. Init => SolarSleepsInformed /\ SolarComposed
  BY DEF Init, SolarStart, StartPc, SolarSleepsInformed, SolarComposed, Composed
<1>2. IInv /\ SolarComposed /\ [Next]_vars => SolarComposed'
  <2> SUFFICES ASSUME SolarComposed, [Next]_vars PROVE SolarComposed'
    OBVIOUS
  <2>1. CASE SolarStep
    <3>1. solar.pc # "done"
      BY <2>1 DEF SolarStep, SolarTop, SolarRead, SolarLoad, SolarCheck, SolarFetch, SolarSave,
                  SolarSaveFails, SolarDrop, SolarRecheck, SolarFail, SolarWake
    <3>2. QED BY <3>1 DEF SolarComposed, Composed
  <2>2. CASE Reboot
    BY <2>2 DEF Reboot, SolarStart, StartPc, SolarComposed, Composed
  <2>3. CASE UNCHANGED solar
    BY <2>3 DEF SolarComposed, Composed
  <2>4. QED BY <2>1, <2>2, <2>3 DEF Next, vars, workerVars
<1>3. IInv /\ SolarComposed /\ SolarSleepsInformed /\ [Next]_vars => SolarSleepsInformed'
  <2> SUFFICES ASSUME IInv, SolarComposed, SolarSleepsInformed, [Next]_vars,
                      solar'.pc = "wait", ~Told("solar")', WantsSunset(snapshot')
      PROVE  snapshot'.solar # NoPlace \/ snapshot'.solarError
    BY DEF SolarSleepsInformed, Told, WantsSunset
  <2>0. /\ snapshot \in Snapshot /\ SnapshotOK(snapshot) /\ inbox \in [Workers -> BOOLEAN]
        /\ SolarTypeOK
    BY DEF IInv, ServiceInv, ServiceTypeOK
  <2>1. CASE SolarStep
    <3>1. snapshot'.settings = snapshot.settings
      BY <2>0, <2>1, WorkersKeepSettings
    <3>2. CASE SolarRead
      <4>1. PlaceOfSettings(snapshot.settings) # NoPlace
        <5>1. snapshot.settings.location \in Locations
          BY <2>0, <3>1 DEF WantsSunset, Snapshot, Settings
        <5>2. QED BY <3>1, <5>1, ModelAssumption DEF WantsSunset, PlaceOfSettings
      <4>2. solar'.pc \in {"load", "check"}
        BY <3>1, <3>2, <4>1 DEF SolarRead, WantsSunset
      <4>3. QED BY <4>2
    <3>3. CASE SolarCheck
      BY <2>0, <3>3 DEF SolarCheck, SolarGoto, SolarOnly, SolarTypeOK
    <3>4. CASE SolarFail
      BY <2>0, <3>4, RecordedSunset DEF SolarFail, SolarGoto, SolarTypeOK
    <3>5. CASE SolarTop \/ SolarLoad \/ SolarFetch \/ SolarSave \/ SolarSaveFails \/ SolarDrop
               \/ SolarRecheck \/ SolarWake
      <4>1. CASE solar' = SolarStart("done")
        BY <4>1 DEF SolarStart
      <4>2. CASE \E pc \in {"read", "check", "answered", "failed", "recheck", "top"} :
                   solar' = [solar EXCEPT !.pc = pc]
        BY <2>0, <4>2 DEF SolarTypeOK
      <4>3. CASE \E b : solar' = [solar EXCEPT !.pc = "top", !.today = b]
        BY <2>0, <4>3 DEF SolarTypeOK
      <4>4. QED
        BY <3>5, <4>1, <4>2, <4>3
           DEF SolarTop, SolarLoad, SolarFetch, SolarSave, SolarSaveFails, SolarDrop,
               SolarRecheck, SolarWake, SolarGoto
    <3>6. QED BY <2>1, <3>2, <3>3, <3>4, <3>5 DEF SolarStep
  <2>2. CASE UNCHANGED solar /\ ~SolarStep /\ ~Reboot
    <3>1. "solar" \in Workers
      BY <2>2 DEF SolarComposed, Composed
    <3>2. snapshot'.settings = snapshot.settings /\ ~Told("solar")
      <4>1. \/ ServiceStep \/ Exit(WorkersDone) \/ Gone
            \/ AdsbStep \/ FlightStep \/ WeatherStep \/ UNCHANGED vars
        BY <2>2 DEF Next
      <4>2. QED BY <3>1, <4>1, TheOthersTell
    <3>3. Sunset(snapshot') = Sunset(snapshot)
      <4>1. CASE ServiceStep \/ Exit(WorkersDone) \/ Gone
        BY <2>0, <3>2, <4>1, ServiceKeepsSunset DEF WantsSunset
      <4>2. CASE AdsbStep \/ FlightStep \/ WeatherStep
        BY <2>0, <4>2, WorkersKeepSunset
      <4>3. CASE UNCHANGED vars
        BY <4>3 DEF vars, serviceVars
      <4>4. QED BY <2>2, <4>1, <4>2, <4>3 DEF Next
    <3>4. snapshot.solar # NoPlace \/ snapshot.solarError
      BY <2>2, <3>2 DEF SolarSleepsInformed, Told, WantsSunset
    <3>5. QED BY <3>3, <3>4 DEF Sunset
  <2>3. CASE Reboot
    BY <2>3 DEF Reboot, SolarStart, StartPc
  <2>4. QED BY <2>1, <2>2, <2>3 DEF Next, vars, workerVars
<1>4. QED BY <1>1, <1>2, <1>3, RuntimeInvariant, PTL DEF Spec
====
