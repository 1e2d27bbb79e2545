---- MODULE SettingsService ----
(***************************************************************************)
(* Settings changes in the PlaneRadar runtime (src/src/runtime.rs,         *)
(* src/src/web.rs, src/src/app.rs): browser requests and the touch thread  *)
(* derive a candidate, write settings.json, publish the new snapshot and   *)
(* wake every worker.  RuntimeSettingsService.update serialises the write, *)
(* the publication and the wake-ups, but a browser request derives its     *)
(* candidate before it takes that mutex.                                   *)
(*                                                                         *)
(* The payload of SettingsChanged is never read: a channel is whether at   *)
(* least one message is queued.  Stop messages only shorten a wait that    *)
(* polls the stop flag anyway, so the flag stands for both.                *)
(***************************************************************************)
EXTENDS RuntimeModel, FiniteSets

CONSTANTS
  Workers,          \* those composed: subset of adsb, flight, weather, solar
  WebRequests,      \* browser requests in flight (at most 16 in the program)
  Touch,            \* the main thread: SDL, gestures, rendering
  FactorySettings,  \* RadarSettings::default()
  Edits,            \* settings a form or an earlier session may ask for
  FormShapes,       \* which fields a form submits; the location always
  MaxRestarts       \* bound on process restarts

Fields == {"location", "range", "filter", "needs", "weather", "night"}

ASSUME ServiceAssumption ==
  /\ Workers \subseteq {"adsb", "flight", "weather", "solar"}
  /\ Touch \notin WebRequests
  /\ FactorySettings \in Settings
  /\ FactorySettings.location = NoLocation
  /\ Edits \subseteq Settings
  /\ FormShapes \subseteq SUBSET Fields
  /\ \A f \in FormShapes : "location" \in f
  /\ MaxRestarts \in Nat

Clients == WebRequests \cup {Touch}

VARIABLES
  snapshot,      \* RuntimeModel.snapshot
  settingsFile,  \* settings.json; the factory settings when there is none
  solarFile,     \* coordinates of solar-schedule.json
  client,        \* what each thread that changes settings is doing
  inbox,         \* SettingsChanged queued for a worker
  stop,          \* the stop flag (SIGINT, SIGTERM)
  main,          \* the main thread: running, joining the workers, exited
  restarts       \* restarts so far

serviceVars == <<snapshot, settingsFile, solarFile, client, inbox, stop, main, restarts>>

\* idle; formed: candidate derived (a touch: about to lock); saved: file
\* replaced, mutex held; notify: published, unsent channels left, mutex held.
Client ==
  [ pc        : {"idle", "formed", "saved", "notify"},
    candidate : Settings,
    submitted : SUBSET Fields,
    unsent    : SUBSET Workers ]

IdleClient ==
  [ pc |-> "idle", candidate |-> FactorySettings, submitted |-> {}, unsent |-> {} ]

ServiceTypeOK ==
  /\ snapshot \in Snapshot
  /\ settingsFile \in Settings
  /\ solarFile \in Places \cup {NoPlace}
  /\ client \in [Clients -> Client]
  /\ inbox \in [Workers -> BOOLEAN]
  /\ stop \in BOOLEAN
  /\ main \in {"running", "joining", "exited"}
  /\ restarts \in 0 .. MaxRestarts

Holds(c) == client[c].pc \in {"saved", "notify"}

MutexFree == \A c \in Clients : ~Holds(c)

\* A wake-up for w is still to be sent by the thread that holds the mutex.
NotifyPending(w) == \E c \in Clients : client[c].pc = "notify" /\ w \in client[c].unsent

----
\* load_initial_model: the stored settings, and the cached sunset schedule if
\* it is for their coordinates and night mode is on, and can be read.
BootSnapshots ==
  LET new == NewSnapshot(settingsFile)
  IN  {new} \cup IF SolarIsCurrent(new, solarFile) THEN {RecordSolar(new, solarFile)} ELSE {}

ServiceInit ==
  /\ settingsFile \in Edits \cup {FactorySettings}
  /\ solarFile = NoPlace
  /\ snapshot \in BootSnapshots
  /\ client = [c \in Clients |-> IdleClient]
  /\ inbox = [w \in Workers |-> FALSE]
  /\ stop = FALSE
  /\ main = "running"
  /\ restarts = 0

\* candidate_from_form: the submitted fields over the settings the page was read from.
Merge(base, edit, submitted) ==
  LET From(f) == IF f \in submitted THEN edit ELSE base
  IN  [ location |-> From("location").location, range  |-> From("range").range,
        filter   |-> From("filter").filter,     needs  |-> From("needs").needs,
        weather  |-> From("weather").weather,   night  |-> From("night").night ]

\* A browser posts the form.  The candidate is derived from the page state read here, outside the mutex.
SubmitForm(c) ==
  /\ main # "exited"
  /\ client[c].pc = "idle"
  /\ \E e \in Edits, f \in FormShapes :
       /\ e.location # NoLocation
       /\ client' = [client EXCEPT ![c] =
            [IdleClient EXCEPT !.pc = "formed", !.submitted = f,
                               !.candidate = Merge(snapshot.settings, e, f)]]
  /\ UNCHANGED <<snapshot, settingsFile, solarFile, inbox, stop, main, restarts>>

\* A tap on the radar (handle_gesture): only while the radar is displayed.
Tap ==
  /\ main = "running"
  /\ client[Touch].pc = "idle"
  /\ snapshot.settings.location # NoLocation
  /\ snapshot.everFetched
  /\ client' = [client EXCEPT ![Touch] =
       [IdleClient EXCEPT !.pc = "formed", !.submitted = {"range"}]]
  /\ UNCHANGED <<snapshot, settingsFile, solarFile, inbox, stop, main, restarts>>

\* Mutant: the range runs past the last preset.
NextRangeUnwrapped(r) == r + 1

NextRange(r) == (r + 1) % NumRanges

\* What c commits once it holds the mutex: cycle_range derives its candidate
\* there, a browser request brings the one it derived earlier.
Candidate(c) ==
  IF c = Touch
  THEN [snapshot.settings EXCEPT !.range = NextRange(@)]
  ELSE client[c].candidate

\* Mutant: no mutex.
CanSaveUnlocked(c) == main # "exited" /\ client[c].pc = "formed"

CanSave(c) == main # "exited" /\ client[c].pc = "formed" /\ MutexFree

\* Mutant: the snapshot is published before the file is written.
PublishFirst(c) ==
  /\ CanSave(c)
  /\ snapshot' = ReplaceSettings(snapshot, Candidate(c))
  /\ client' = [client EXCEPT ![c].pc = "saved", ![c].candidate = Candidate(c)]
  /\ UNCHANGED <<settingsFile, solarFile, inbox, stop, main, restarts>>

\* Takes the mutex; SettingsStore::save writes, syncs and renames.
Save(c) ==
  /\ CanSave(c)
  /\ settingsFile' = Candidate(c)
  /\ client' = [client EXCEPT ![c].pc = "saved", ![c].candidate = Candidate(c)]
  /\ UNCHANGED <<snapshot, solarFile, inbox, stop, main, restarts>>

\* save fails: before the rename, or after it when the directory sync fails.
SaveFails(c) ==
  /\ CanSave(c)
  /\ settingsFile' \in {settingsFile, Candidate(c)}
  /\ client' = [client EXCEPT ![c] = IdleClient]
  /\ UNCHANGED <<snapshot, solarFile, inbox, stop, main, restarts>>

\* Mutants: only the primary worker hears of a change; only the optional
\* ones do; the list of channels is fixed, whatever was started.
WakeAdsbOnly == Workers \cap {"adsb"}

WakeOptional == Workers \ {"adsb"}

WakeEveryName == {"adsb", "flight", "weather", "solar"}

\* The channels of start(): one for each worker.
ToWake == Workers

\* replace_settings publishes the saved candidate.
Publish(c) ==
  /\ main # "exited" /\ client[c].pc = "saved"
  /\ snapshot' = ReplaceSettings(snapshot, client[c].candidate)
  /\ client' = [client EXCEPT ![c].pc = "notify", ![c].unsent = ToWake]
  /\ UNCHANGED <<settingsFile, solarFile, inbox, stop, main, restarts>>

Rank == [adsb |-> 1, flight |-> 2, weather |-> 3, solar |-> 4]

\* settings_changed: one channel after the other, in the order of start().
\* A worker that has ended has dropped its receiver; the send then fails and
\* the loop goes on.  The last send releases the mutex.
Send(c) ==
  /\ main # "exited" /\ client[c].pc = "notify"
  /\ \E w \in client[c].unsent :
       /\ \A v \in client[c].unsent : Rank[w] <= Rank[v]
       /\ inbox' = [inbox EXCEPT ![w] = TRUE]
       /\ client' = [client EXCEPT ![c] =
            IF client[c].unsent = {w} THEN IdleClient
               ELSE [client[c] EXCEPT !.unsent = @ \ {w}]]
  /\ UNCHANGED <<snapshot, settingsFile, solarFile, stop, main, restarts>>

\* The main loop draws the newest snapshot when its generation is not the
\* one on the display.
Render ==
  /\ main = "running" /\ ~stop
  /\ client[Touch].pc = "idle"
  /\ snapshot.dirty
  /\ snapshot' = [snapshot EXCEPT !.dirty = FALSE]
  /\ UNCHANGED <<settingsFile, solarFile, client, inbox, stop, main, restarts>>

Signal ==
  /\ ~stop
  /\ stop' = TRUE
  /\ UNCHANGED <<snapshot, settingsFile, solarFile, client, inbox, main, restarts>>

\* step() sees the flag after its gestures and starts to join the workers.
Shutdown ==
  /\ main = "running" /\ stop
  /\ client[Touch].pc = "idle"
  /\ main' = "joining"
  /\ UNCHANGED <<snapshot, settingsFile, solarFile, client, inbox, stop, restarts>>

\* Every worker has been joined: the process ends, detached requests with it.
Exit(workersDone) ==
  /\ main = "joining" /\ workersDone
  /\ main' = "exited"
  /\ UNCHANGED <<snapshot, settingsFile, solarFile, client, inbox, stop, restarts>>

\* A crash at any point or an exit, and a new process on the same files.
Restart ==
  /\ restarts < MaxRestarts
  /\ restarts' = restarts + 1
  /\ snapshot' \in BootSnapshots
  /\ client' = [c \in Clients |-> IdleClient]
  /\ inbox' = [w \in Workers |-> FALSE]
  /\ stop' = FALSE
  /\ main' = "running"
  /\ UNCHANGED <<settingsFile, solarFile>>

\* The process is gone and nothing starts it again.
Gone == main = "exited" /\ UNCHANGED serviceVars

CommitStep(c) == Save(c) \/ SaveFails(c) \/ Publish(c) \/ Send(c)

\* Steps of the service that touch no worker's own state.
ServiceStep ==
  \/ \E c \in WebRequests : SubmitForm(c)
  \/ Tap
  \/ \E c \in Clients : CommitStep(c)
  \/ Render
  \/ Signal
  \/ Shutdown

\* A thread that has started a change goes on with it, and gets the mutex in
\* the end (people do not save settings without a pause).  The main loop
\* handles a bounded batch of events and then draws or sees the flag, however
\* many taps follow.
ServiceFairness ==
  /\ \A c \in Clients : SF_serviceVars(CommitStep(c))
  /\ SF_serviceVars(Render)
  /\ SF_serviceVars(Shutdown)

----
(* Properties of settings changes *)

\* The mutex admits one change at a time.
OneChangeAtATime == \A c, d \in Clients : Holds(c) /\ Holds(d) => c = d

\* A change is never visible before it is durable: whatever settings the
\* runtime starts to use are the ones a restart would load
\* (RuntimeSettingsService::commit saves before it publishes).
PublishedSettingsAreDurable ==
  [][snapshot'.settings # snapshot.settings => snapshot'.settings = settingsFile']_serviceVars

\* A tap changes the range and nothing else, whatever a browser saves at the same time.
TapKeepsOtherSettings ==
  [][ client[Touch].pc = "saved" /\ client'[Touch].pc = "notify" =>
        snapshot'.settings = [snapshot.settings EXCEPT !.range = NextRange(@)] ]_serviceVars

\* The documented transaction derives the candidate from the current
\* snapshot: a form changes no field it did not submit.
FormKeepsOtherSettings ==
  [][ \A c \in WebRequests :
        client[c].pc = "saved" /\ client'[c].pc = "notify" =>
          \A f \in Fields \ client[c].submitted :
            snapshot'.settings[f] = snapshot.settings[f] ]_serviceVars
====
