# PlaneRadar in TLA+

A verification project for RPi-Plane-Radar: the appliance that draws nearby
aircraft on a round display (`src/src`), and `planeradarctl`, the program that
installs and maintains it from a Mac (`src/crates/planeradarctl`). The modules
are translated from the Rust sources. Paths below are as in the repository,
under `src/`.

## The system

| Component | State | Operations | Talks to | Must hold |
|---|---|---|---|---|
| Runtime model (`src/model.rs`) | one `RuntimeSnapshot` behind an `RwLock` | replace settings; record aircraft, enrichment, environment, sunset, errors, each guarded by "is this still wanted" | everything reads copies of it | what is shown belongs to what is configured; every change has a new generation |
| Settings service (`src/runtime.rs`) | update mutex, `settings.json`, four channels | tap (`cycle_range`), form (`replace`): save, publish, wake | web threads, main thread, workers | one change at a time; published is durable; nobody's change is lost |
| ADS-B worker (`src/runtime.rs`) | query, failures, channel | drain, read, fetch, record, wait | the model, adsb feed | late answers rejected; no lost wake-up; the query is served |
| Flight-data worker (`src/runtime/flight_worker.rs`) | cache, back-off, channel | scan a copy of the aircraft, publish what is cached, look up the nearest | the model, ADSBDB | enrichment only for displayed aircraft; no lost wake-up |
| Weather worker (`src/runtime/weather_worker.rs`) | active location, deadline | fetch when due | the model, Open-Meteo | reading belongs to the location; asks after a change |
| Solar worker (`src/runtime/solar_worker.rs`) | active coordinates, days fetched, `solar-schedule.json` | cache, fetch once a day, save and publish | the model, provider | shown schedule is the cached one; sleeps only with a schedule or an error |
| Web server (`src/web.rs`) | request slots, sessions | pages, settings form, location search | settings service, geocoder | slots return; every request is answered; forms change what they ask for |
| Display (`src/app.rs`, `src/touch.rs`) | key of the last frame, gesture, cached background | gestures, policy, backlight, draw, shut down | settings service, backlight | shows every change; old data labelled; ends on a signal |
| Backlight, night mode (`src/backlight.rs`, `src/night_mode.rs`) | level, ramp, colour that waits; schedule | ramp, write, retry | display | dim before red, full colour before bright; night is what it says |
| Geocoder (`src/geocode.rs`) | cache, time of the last request | search | web server | one request per second; an answer is on file |
| Capture (`src/capture.rs`, `planeradarctl` `operations.rs`) | debug.png, current.png, metadata before | signal, wait, publish, fetch | display, service | a screenshot is a frame shown after it was asked for |
| Installer (`planeradarctl` `install.rs`, `system_install.rs`, `state.rs`) | a phase on the Mac, a phase on the Pi | twelve phases: perform, verify, record twice | Pi over SSH, driver scripts, helper | records are earned; rerunning resumes |
| On-device helper (`src/install.rs`) | installer record, releases, boot configuration | write record, activate, stage, commit, uninstall | installer, lifecycle | atomic, reversible |
| Lifecycle (`planeradarctl` `operations.rs`, `main.rs`) | transaction, accepted pairs | upgrade, rollback, uninstall, recover | helper, driver | an interrupted transaction is undone or finished |
| Transport (`planeradarctl` `transport.rs`) | pinned keys, current name | probe, command, wait for a reboot, follow a name | Pi | commands reach the board they are for |
| Release and driver acquisition (`release.rs`, `driver.rs`) | two caches and a source tree shared by processes | look up, download, verify, unpack | installer | only what is released is used |
| Preflight, smoke test, scripts | - | check, build | Pi | - |

What is hard about it:

* Interleaving. Two kinds of threads change settings while four workers work
  from copies of a snapshot that ages during HTTP requests of several seconds.
  The only synchronisation is one mutex, one `RwLock`, and channels that are
  drained at three places of each loop.
* Wake-ups. A worker sleeps for up to an hour; a wake-up drained at the wrong
  place is an hour without the right data.
* Persistence. Settings and the sunset schedule are saved before they are
  published; a crash may fall between.
* Time. Data grow old while nothing arrives, the local clock is set or has gaps
  and folds, a ramp takes two seconds on a panel that may fail, a finger rests.
* Shared files. Screenshots, caches and the geocoder's answers are files that
  several processes replace, and that a crash or a power cut takes back.
* Identity. The Pi goes away, comes back, and changes its name, while other
  boards may answer where it did.
* Two-sided transactions. The installer records each phase on two machines, one
  of which it reboots, over connections that break.

`PROJECT.json` lists the hazards at their lines with the properties that are
about them.

## Modules

    RuntimeModel          the snapshot and its guarded writes   (src/model.rs)
      SettingsService     settings, wake-ups, display, signals  (src/runtime.rs, web.rs, app.rs)
        AdsbWorker  FlightWorker  WeatherWorker  SolarWorker
          Runtime         all of them, restart, fairness        (RuntimeCoordinator)
            MCRuntime     small instances
    Touch  Backlight  NightPolicy                               (touch.rs, backlight.rs, night_mode.rs)
      Display             the display loop, with RuntimeModel   (src/app.rs)
        MCDisplay         six environments
    Geocoder  SettingsForm                                      (geocode.rs, web.rs)
      Web                 the settings server                   (src/web.rs)
        MCWeb             seven traffics
    Screenshot            what a screenshot command promises
      Capture             display, helper and command           (capture.rs, app.rs, operations.rs)
        MCCapture         a small instance

    Installer             the resumable installation            (install.rs, system_install.rs)
      MCInstaller         small instances
    Release               the application's files on the Pi     (src/install.rs)
      Lifecycle           upgrade, rollback, uninstall          (operations.rs, main.rs)
        MCLifecycle       small instances
    Acquire  Reconnect                                          (release.rs, driver.rs; transport.rs)
      Delivery            an installation over its connection   (system_install.rs, main.rs)

    RuntimeModel_proofs   lemmas about the snapshot operators
      Runtime_proofs      the inductive invariant of Runtime, its action
                          properties, no lost wake-ups
      Display_proofs      the inductive invariant of Display, night by definition
    Web_proofs            the inductive invariant of Web, and the forms
    Installer_proofs      the inductive invariant of Installer
    Lifecycle_proofs      the inductive invariant of Lifecycle
    Capture_proofs        Capture implements Screenshot
    Delivery_proofs       the inductive invariant of Delivery

### RuntimeModel

Each write of `RuntimeModel` takes the lock, tests its guard, changes fields and
bumps the generation: one operator from a snapshot to a snapshot. `ReplaceSettings`
is `replace_settings` with its four consequences: a new query empties the
aircraft, a new filter thins them, a new location drops weather and the "has
fetched" flag, new coordinates or night mode off drop the sunset. `XIsCurrent`
is the guard of the matching `record_..._if_...`. An aircraft is an opaque
sighting with an identity; a location is opaque with coordinates of its own (two
locations may differ in label alone, which the solar worker treats as equal and
the others do not). A time is reduced to whether it is set, the generation to
whether it differs from that of the frame on the display (`dirty`).

### SettingsService

A client is a browser request or the main thread (`Touch`). Its program counter
follows the code: `formed` (candidate derived), `saved` (file replaced, mutex
held), `notify` (published, channels left to send to, mutex held). A form's
candidate is derived in `SubmitForm`, outside the mutex, as `web.rs` does; a
tap's in `Save`, under it, as `cycle_range` does. `SaveFails` may or may not
have replaced the file (the directory sync comes after the rename). Channels are
one bit per worker: the payload of `SettingsChanged` is never read. Restart may
happen in any state and keeps the two files.

### Workers

One variable each, a record with a program counter. A step is what happens
between two reads of shared state: the drain at the head of the loop, the
snapshot read, the end of the fetch with its drain, the guarded write, the end
of the wait. Waits have arbitrary lengths, so every relation between time-outs
and messages is covered. `WeatherWorker` keeps its deadline as "still ahead or
not", because it survives a change of location. `FlightWorker` keeps the cache
as the set of fields it can answer for each identity; entries vanish whenever
the clock is read. A cache file of the `SolarWorker` that is absent, unreadable
or damaged loads as nothing (`SolarLoad`). It keeps "today's schedule was
fetched" for `successful_local_days`; it assumes that a validated schedule names
a time zone the program knows, so that `local_day` always resolves.

### Installer

`mac` and `pi.record` are the two records, phases 1 to 12. `ctl` is the running
command: loading, reconciling a Pi that is ahead, validating every claimed
phase, regressing at the first that has drifted, performing, verifying and
saving the next ones. `pi` also holds what the phases install: helper, driver
(staged, committed, accepted), the configuration it has booted, application and
name. `Holds(p)` is `verify_phase`, including its dependence on
`persisted_target_phase`. The driver's own scripts are external: staging yields
a staged driver, committing wants a live trial, recording writes the receipt.
The read-back inside `persist` is part of `SaveTarget`. Misfortunes are
explicit actions with budgets: a crash or any failed command (`Interrupt`), a
lost connection where the code takes it for a missing helper (`LoadLost`) or for
drift (`CheckLost`), a power cycle, and removal or failure of the application.

### Release and Lifecycle

`Release` is the application on the Pi: installed binary, its metadata, retained
release files, service, and whether the installer created `settings.json`. An
ownership manifest is the binary and the sequence of release files it lists.
Each helper command is an operator on the files: when it is admitted
(`ManifestHolds`, `InterruptedSwitch`, `Uninstallable`) and the states it passes
through (`ActivationSteps`, `UninstallSteps`), one per durable write, because a
command may be cut off after any of them.

`Lifecycle` has three actors' worth of state: `pi` (lifecycle.json, state.json,
helpers, files, driver), `cmd` (the controller's process: the operation's next
step and everything it holds in memory, such as `last_owned_files` and which
helper it may use) and the bounds. One action per backend call, each with three
outcomes (`Call`): done; refused, after the steps the code takes before it
refuses; or failed, or its reply lost, after any of its steps. A failure between
begin and acceptance leads into `recover` by the same process with the state in
its memory (`Failed`), as in `apply_pair`; any other failure ends the process.
The next process loads what the Pi has and resumes (`Resumption`). A phase save
is state.json, then lifecycle.json; if the helper does not know the phase the
second is refused and the first is written all the same (`Save`). A restore of
the driver that is refused has stopped the service and moved the driver's
journal before (`RestoreDriver`). The helpers of settled releases and the
drivers that are no longer selected are retired one by one (`LoadSettled`,
`UninstallDriver`), and an uninstall closes the driver's journal before it
removes the records (`FinalizeDriverUninstall`, `FinalizeUninstall`).

A release stands for an artifact and fixes its driver. The external driver keeps
a journal: the accepted driver, the one staged for a trial, the one a normal
boot selects. `Normalize` covers the promotion of an inactive kernel.
`systemctl disable` of a unit whose file is already gone, which may make a
repeated `uninstall_application` fail, is taken to succeed.

### Display, Touch, Backlight, NightPolicy

`step` of the application handles the events of a frame, takes one snapshot,
resolves the night policy, moves the backlight and draws if its key differs from
that of the frame on the display. Events are actions (`PressFinger`,
`MoveFinger`, `ReleaseFinger`, and `LongPress`, which precedes every other step
once it is due, as `tick` does); the rest of the step is the one action
`DrawFrame`. A frame is kept with its key and its scene, so that "nothing to
redraw" can be compared with what drawing would give. The scene is what the
renderer shows as a function of the snapshot: page, colour, aircraft, the
background image with the settings it was drawn from, the footer's word for the
weather, DATA STALE. Workers and browsers are the environment, through
`RuntimeModel`'s own operators; `old` says which data are past their limit,
`minuteTurned` that the clock shows another minute than the frame.

`Backlight` is `BacklightController::update` as a function from controller and
panel to outcome: learn the level, accept a target, start a ramp at the
interpolated level, write, finish, and when the requested colour becomes safe. As in
the code a new target is compared with the level the ramp has come to, not with
the panel's, so that a ramp may be dropped with the panel elsewhere (`Stranded`).
A panel that does not work fails its reads and writes. Two seconds are `RampTicks`
ages of a ramp. `NightPolicy` computes the three dates' candidate nights as the
code does, with rows that may lack a sunrise, the fallback, and an almanac whose
local time may skip or repeat a slot once; `DarkByDefinition` is the reference
it is compared with. It looks at every date from before the schedule to today, at
any moment the schedule covers and past its end, where only the fallback is left.
07:00 is not midnight (`NightAssumption`): a fallback at the first instant of the
day could coincide with a start that the change of offset skips.

### Web, Geocoder, SettingsForm

A request passes the steps of its thread: queued, routed, checked, its body
read, validated, searched or derived and committed, answered, and the slot
returned by `RequestSlot::drop`. Two of these wait for the client without a
limit (`ClientStep`: the body, `web.rs:202-205`, and the answer); a client may
stall there for ever. A
session is its serial; cookie and token name the same one. Headers are sequences
so that a missing and a doubled header are what the code sees. `SettingsForm`
makes settings from fields (missing, doubled, boxes with their `_present` twin,
text that reads as a number or not) and has the two forms the pages send
(`PageForm`, `ResultForm`). `Settings` are those that can be in use: validated,
with a text for every number, so that a page can show them; before the first
setup they have no location. Requests carry only settings, queries and places of
the constants (`SendsAssumption`). `Geocoder` is a search under the server's
mutex: cache, the time of the last request read once, the sleep for the rest of
the interval, stamp, request, save, with a cache file that may be missing or
unreadable and a crash at any step. The request is taken to leave the Pi at the
moment its time is stamped.

### Capture and Screenshot

`Screenshot` is the promise of the README: a destination is left alone or
becomes, once, a frame the display showed after the command was given.
`Capture` has the three parties: the display (flag, temporary, rename, sync), a
helper per command (open, read, fresh?, publish, check twice) and the command on
the Mac (metadata, signal, fetch, persist). Inodes are used again once their
file is neither linked nor open; `kept` are the directory entries a power cut
may bring back; a helper outlives its command. The refinement maps `since` to
what each command remembers.

### Acquire, Reconnect, Delivery

`Acquire` is one process obtaining the application and then the driver from
caches it shares: look up, download, publish if still absent, attest, look
again, unpack. `Reconnect` is the network and the transport: who answers at the
original and at the desired name, what known_hosts and the process's pins hold,
`Probe` (key, model and serial) against `Command` (key only), the two halves of
a reboot wait and the pursuit of a new name. `Delivery` is an installation made
of the two: acquire the release, select a target, read the Pi's record, probe,
upload, deploy and check the helper, acquire the driver, reboot, run the helper
as root, rename, follow, reboot, and write both records along the way.

The Pi's record goes through its helper (`load_target_state`,
`save_target_state`): a test that the file is executable, and then the file is
started as root, whatever it is; nothing has compared its digest yet when a run
begins (`Load`). What a power cut left of a helper may do its work or fail, and
so may the helper of a clone (`Serves`); if it fails, every rerun fails with it,
for the record is what a run reads first. A record saved on a clone leaves the
Mac's ahead of the Pi's, which every later run refuses as a disagreement. Both
records are reduced to the phases between which the connection makes a
difference; what the phases verify and what the driver does is `Installer`'s.

One timing assumption is stated in the module (`Slow`): a boot, and a clone
coming to a name or leaving it, take longer than the pause between two commands,
so that they end only while the program waits, downloads (`acquire`, `driver`,
`redriver`: `ensure_ready` may spend minutes in `DriverManager::sync`) or does
not run. `probed` remembers whether a probe has found the board since the last
download.

## Runs

| Run | Bounds | Properties |
|---|---|---|
| `adsb_worker` | 2 locations, 2 ranges, 2 filters, 2 sightings, 1 browser request and taps, 1 restart | `AircraftMatch`, `AdsbSleepsInformed`, `PublishedSettingsAreDurable`, `TapKeepsOtherSettings` |
| `flight_worker` | 1 location, 2 sightings with distances, needs on and off, 1 browser request, ADS-B worker beside it | `EnrichmentMatch`, `FlightSleepsInformed` |
| `weather_worker` | 2 locations, weather fields on and off, 1 browser request | `ProvidersMatch`, `WeatherSleepsForCurrent` |
| `solar_worker` | 3 locations of which 2 share coordinates, night mode on and off, 1 restart | `ProvidersMatch`, `SunsetIsCached`, `SolarSleepsInformed` |
| `query_served` | 1 location, 2 ranges, ADS-B worker, fairness | `QueryIsServed`, `StopEndsProcess` |
| `display` | 2 fingers, 2 locations, 2 ranges, 2 sightings, 8 levels, ramps of 3 ticks, days of 6 slots, 6 environments, fairness | `FrameIsCurrent`, `OldAircraftAreLabelled`, `NightIsDefined`, `OnlyALaterTouchCloses`, `GentleNight`, `ColoursSettle` |
| `web` | 3 callers and 2 slots, 2 sessions, 3 pages, 2 searches, 7 traffics, fairness of the server | `AnswersAreOnFile`, `FormsDoAsAsked`, `RateIsKept`, `LastPageIsAccepted`, `SlotsComeBack`, `RequestsAreAnswered` |
| `capture` | 2 commands, 2 inodes, 3 frames, 2 saves, 1 crash or power cut | `PicturesAreFresh` (the refinement) |
| `install_records` | every misfortune twice, fairness | `RecordsAreEarned`, `StepsAreRecorded`, `AcceptedDriverStays`, `InstallCompletes` |
| `lifecycle` | 3 releases, 2 drivers, 2 pairs and 2 release files retained, 2 faults, both helpers, fairness | `PiMatchesRecord`, `PriorIsAtHand`, `OnlyMishapsUndo`, `GoneMeansGone`, `AppFitsDriver`, `BegunIsEnded` |
| `delivery` | 2 processes, 1 damage to a cache, 1 other board taking or leaving a name, 1 power cut, losses, helpers that are whole or a part, 2 runs of the command | `CommandsReachThePi`, `OnlyReleasedRuns`, `OthersDoNoHarm` |
| `renamed_rerun` | nothing lost, 2 runs of the command | violation: `RerunFindsThePi` |

Why the bounds are enough. A late answer needs two different queries that differ
in one respect (location, range or filter) and one request between them; two
values of each give every such pair. A lost wake-up needs one change and one
drain. Two writers are a form and a tap; a second form adds nothing the first
does not do, and the proofs are for any number. Restarts are bounded by
`MaxRestarts`. A crash between the two saves of the installer and a second
misfortune during the recovery is what two of each kind gives; the proofs have
no budget. For the lifecycle two faults are a failure and a second one during
its recovery, any mixture of failed calls, lost replies, ended processes and
power cycles. Three releases, of which one has another driver, give upgrades
with and without a driver change in every order; the code retains three pairs
and three files, the run two, so that three releases suffice to retire one.

The display's six environments let the parts of its world move that one kind of
property is about, so that the state spaces add up instead of multiplying: every
sky with the clock standing anywhere, touches with the feed, feed or weather
with ageing and forms, first setup, and light with night, failures and restarts.
A day of six slots has a slot strictly between any two of midnight, sunrise,
fallback and start; the almanacs are all patterns of four days with and without
sunrise, seen at every moment from the first day to the end of the last, all
starts, and a change of offset in the night, before noon and in the evening.
Eight levels and three ticks give ramps that pass levels between their ends, and
a new target while one is under way. The web's traffics separate the limit of
slots, sessions, searches, restarts, outages of the cache file, refusals and
forms in the same way; the forms are both pages and a bare one, each with every
field in turn left out, doubled or replaced. Three callers are one more than the
slots, two slots let two searches contend for the geocoder's mutex and two forms
for the sessions; three pages are one more than the sessions kept. Any client
may stall in any of them. Two inodes make the second save use an inode of a file
seen before. In `delivery` a wait has two probes, one before and one after
whatever happens in between, and one foreign board per behaviour, because two
that take names are told apart from the Pi by the same test.

The types are no property of these runs: `TypeOK` is proved for the runtime, the
installer, the capture, the delivery and the lifecycle, the web server's types are
part of its invariant, and the display's were checked under the same configuration
while it was built; each module keeps its definition.

### Counterexamples

`renamed_rerun` contradicts the README's promise that an interrupted
installation is resumed by giving the same command: the Mac exits after the
renaming, the Pi gives up its old `.local` name, and the rerun looks for it under
the new name with what known_hosts has, which is nothing, for the key scanned
during the first run was kept in memory only.

Ten more configurations are kept beside the runs. Each has one property that a
document or a comment promises and that the code does not keep; running TLC on
it prints the counterexample.

* `form_reverts_tap` (`MCRuntime`, `FormKeepsOtherSettings`): a form is merged
  into settings read before the mutex is taken (`web.rs:268`); a tap committed
  meanwhile is undone. The architecture document describes one transaction whose
  first step is to read the current snapshot.
* `light_settles` (`MCDisplay`, `BacklightSettles`): `BacklightController::update`
  compares a new target with the interpolated level of the running ramp, not
  with the level the panel has, and drops the ramp when they are equal
  (`backlight.rs:214`). The panel lags the ramp by a frame or by failed writes
  and stays where it is. The design has every change end at the target.
* `power_cycle` (`MCInstaller`, `RerunCompletes`): the Pi's record is saved
  first. If the Pi is power-cycled during the trial before the Mac's record
  follows, the Pi is ahead with a phase that no longer holds, which the installer
  refuses on every rerun (`install.rs:346`).
* `driver_change` (`MCLifecycle`, `UndisturbedIsAccepted`): the controller saves
  three phases that the helper's decoder does not know (`src/install.rs:553`), so
  that no upgrade or rollback that changes the driver is ever accepted.
  `lifecycle` therefore checks the helper as it is and one that knows every
  phase; `HelperVariants` is the constant that chooses.
* `recovery_stuck` (`MCLifecycle`, `TransactionsEnd`): where the installer
  created `settings.json`, an application switch whose reply was lost cannot be
  undone by any later process, because the proof that explains the changed files
  demands that all of them, the settings too, belong to root
  (`src/install.rs:1255`). The transaction blocks every command. Two rarer states
  have the same effect: a further release file retired before the interruption,
  and a first driver change ended before the installed release was kept.
* `uninstall_stuck` (`MCLifecycle`, `UninstallsEnd`): the purge choice is
  recorded before the helper is asked whether it can be honoured
  (`operations.rs:1890`); if it cannot, the uninstall neither ends nor can be
  abandoned.

* `clone_renamed` (`Delivery`, `EveryCommandReachesThePi`): a run resumed at
  the trial downloads the driver, for minutes perhaps (`driver.rs:345-450`), and
  goes on to verify, to install and to rename (`system_install.rs:757-768`)
  without a new probe. A board started from a copy of the card, which has the
  Pi's host key, and has taken its name meanwhile, is installed and renamed
  instead. What needs the identity, a reboot and the test of the display, is
  probed first in every run.
* `partial_helper` (`Delivery`, `OnlyCheckedRuns`): a run reads the Pi's record
  before it has compared the helper's digest: `test -x`, then the file is started
  as root (`system_install.rs:509-522`). After a power cut that is what is left
  of it. The helper is uploaded anew only after the record has been read, so
  if the rest fails to run, so does every rerun.
* `red_undimmed` (`MCDisplay`, `DimsBeforeRed`): the comparison of
  `backlight.rs:214` again. If night falls while a ramp passes the night's level
  and the panel has missed its last writes, the ramp is dropped and the frame
  turns red on a working panel at the brighter level, where the design
  (`docs/architecture.md:195-200`) dims first.
* `slots_held` (`MCWeb`, `SlotsOutliveClients`): a handler reads the body with no
  limit of time (`web.rs:202-205`), so clients that send a header and nothing
  more (`tests/web.rs:398` is one) hold every slot for as long as they like, and
  everybody else is told 503.

Where a passing run has a liveness property about the same behaviour
(`BegunIsEnded`, `InstallCompletes`, `SlotsComeBack`), its premise excludes these
cases; where it has a safety property (`CommandsReachThePi`, `OnlyReleasedRuns`,
`GentleNight`), that says what is left of the promise, and the case is named in
it.

Four more things the models show. The weather worker, after A, B, A, B in quick
succession, sleeps until the deadline of A with neither a reading nor an error
for B. An acceptance whose save is reported as failed although it was written is
undone; if that process ends before its next save, the next one finishes the
acceptance over the restored driver (the variable `undone` marks these
behaviours, and the properties about the driver are stated without them). A
probe that the network loses during the first half of a reboot wait passes for
the disconnect (`transport.rs:816`); what follows is checked against the boot it
expects. And of two processes that publish the same archive at once the driver's
cache fails one (`driver.rs:446`), where the release's cache lets it go on.

## Fairness

* Worker steps: weak fairness. Every HTTP request has a time-out, every wait an
  end, and a wait polls the stop flag every 50 ms (`ChannelWaiter`).
* Settings changes (`CommitStep`): strong fairness, because the mutex is taken
  and released by others; `std::sync::Mutex` promises no order, but people and
  browsers pause between changes.
* `Render`, `Shutdown`: strong fairness, because each tap occupies the main
  thread for a bounded batch of events after which it draws or sees the flag.
* Nobody is obliged to touch, submit or signal.
* Installer: the user repeats the command, a run goes on until it ends
  (weak fairness of `Run`), and an unhealthy service is repaired (`Recover`).
* Lifecycle: every remote call is bounded (30 seconds, or the reconnect window),
  so a process goes on until it ends (weak fairness of `Step`); commands keep
  being given, and an uninstall that was begun is repeated with its own options
  (strong fairness of `Repeat`, because a command is given only when none runs).
* Display: the loop runs thirty times a second (weak fairness of `DrawFrame`), a
  due long press is handled first, and a ramp grows older. Nothing else in its
  world has to happen.
* Web: the server polls for requests, its threads run (`ServerStep`), requests to
  the provider time out (`GeocoderStep`), time goes on. Clients are not fair: one
  may never send its body or never take its answer (`ClientStep`). That they do,
  or hang up, is a premise of the two liveness properties (`ClientMovesOn`): of
  every client for `SlotsComeBack`, of the request's own client alone for
  `RequestsAreAnswered`. The mutex of the geocoder is not assumed to be fair: a
  search that waits for it may be passed over, and `RequestsAreAnswered` says so.
* Capture and delivery are safety only: every wait has a deadline, and nothing
  obliges the network or the display.

## Proofs

All theorems are for any constants that satisfy the named assumptions: any
locations, coordinates, ranges, filters, sightings, numbers of browser requests
and restarts, any subset of the workers, any budget of misfortunes, any number
of screenshot commands, inodes, frames and crashes, any number of processes,
runs, boards' moves and power cuts, any settings, almanac, panel and length of
ramp, any releases, drivers, helpers and numbers of retained pairs and files, any
traffic of requests and forms, and any number of threads, slots and sessions. The
assumptions type the constants and say that the "no location", "no place" and
"absent" values are not real ones. Four say more, as the code does: two pairs at
least are retained (`BoundsAssumption`), a helper knows every phase but the three
it may lack (`HelperAssumption`), the program starts with validated settings that
a page can show (`SendsAssumption`), and 07:00 is not midnight
(`NightAssumption`). The timing assumption of `Reconnect` (`Slow`) is a guard of
its actions.

Every invariant and every action property of the runs is proved.

* `Runtime_proofs`. `TypeOK` and the consistency of the snapshot are not
  inductive alone: an answer is recorded by a worker that read its query many
  steps earlier. The invariant `IInv` adds to them, for the service, that at
  most one client holds the mutex and that the candidate it holds is on disk
  while it is unpublished; for each worker, what its program counter says of the
  request it remembers (a request under way has a location, a weather request is
  for the active location, and so on). `RuntimeModel_proofs` shows once that
  each snapshot operator keeps the snapshot's type and its four consistency
  conditions; the step proof then has one case per action.

  Durability and the tap's effect are action properties of `IInv`: publishing
  publishes what `Save` put on disk, because the holder of the mutex is the only
  one that can have saved; a tap publishes the settings of the snapshot it read
  under the mutex, because nobody else has published since.

  For the wake-ups, `Told(w)`: a message is queued for `w`, or a holder of the
  mutex still has to send one. A change of settings makes it true for every
  worker (`NewsIsTold`), only `w` itself empties its channel (`OwnInboxOnly`),
  and no other step makes it false (`TheOthersTell`). Between a drain and the
  next read of the snapshot a worker holds no claim about it; from the read to
  the sleep its claim is "what I read is still configured, or I am told", which
  is the inductive form of "asleep and not told implies up to date".
  For the sunset, what takes a schedule away is a change its worker is told of;
  `SunsetIsCached` rests on the save under the write lock and on what a save that
  failed halfway can have left in the file.
* `Display_proofs`. `FrameIsCurrent` compares the frame, drawn at some earlier
  step, with a snapshot, a page and colours that may all have changed since.
  `DisplayInv` says what survives: until somebody changes the snapshot a frame
  shows what its key says of it, a cached background is that of its settings, the
  frame's colours are the controller's, a page is open only with a location, and
  the snapshot is consistent (`RuntimeModel_proofs`). `GentleNight` needs what
  each operation of the controller promises, for levels that are any integers:
  an update writes the level the ramp had reached or none, a new ramp begins
  there, and red waits until the panel is at the target, unless it has failed or
  the controller is `Stranded`: without a ramp, and short of its target. Only a
  target that comes when the ramp is at that very level and the panel is not
  (`CaughtMidway`) strands it.

  `NightIsDefined` compares two readings of one almanac. A local time has come
  exactly when the instant it resolves to has (`ResolveIsFirst`), which makes
  gaps and folds disappear from the rest, but for one: two neighbouring local
  times may resolve to the same instant (`ResolveGrows`). While any night runs,
  yesterday's or today's does (`RecentNightRuns`): the end of an earlier one is a
  sunrise still to come, which ends yesterday's night too, for its fallback lies
  behind. So three dates are enough, and no other night can begin or end before
  the announced transition (`NothingBeforeTransition`).
* `Web_proofs`. `IInv` has four parts. `SearchInv`: who searches holds the mutex,
  past the look-up it knows the cache, what it knows is on file, and the last
  request is forgotten no sooner than the last call; `AnswersAreOnFile` and
  `RateIsKept` follow. `RequestInv`: a request without an answer has no status,
  and only a thread that searches is in the geocoder. `SlotInv`: the slots in use
  are as many as the threads that handle a request, which gives `LimitsHold`, the
  safe half of `SlotsComeBack`. `SessionInv`: serials are given in order, and a
  page of this process that is no longer among the sessions has aged or has
  `MaxSessions` successors, counted in `EvictTakesOldest`; the newest has neither,
  hence `LastPageIsAccepted`. `FormsDoAsAsked` is about the operators: a setting
  without a submitted control keeps its value whatever the form (`FormsKeep`), the
  settings page sends what makes the settings it shows (`PageAsks`), and a search
  result changes the place alone (`ResultAsks`). The texts of numbers are any that
  read as integers, with an empty one that reads as none.
* `Installer_proofs`. `RecordsAreEarned` is strengthened by what a run knows:
  the goal of a reconciliation and the persisted phase are the Pi's record, a
  phase that waits to be saved is already earned, and a run past a phase finds
  both records at least there. A regression only lowers records; a power cycle
  may take a trial away, which no record counts on, but not an accepted driver.
  The same invariant gives `StepsAreRecorded`, and that no record the installer
  saves is refused (`SavesAlwaysAccepted`). `AcceptedDriverStays` needs more
  (`AcceptedInv`): between the receipt and the final reboot the Pi still runs the
  trial, so its driver is not reusable by its files alone; the Mac's record is
  then past the trial, a rerun reads the Pi's record and finds every check up to
  the trial satisfied by it, and so no record goes back to where a driver is
  staged.
* `Lifecycle_proofs`. `IInv` says `Fits` of the Pi, the process and the history.
  Its parts: `RecordFits`, what the Pi's records say of its files and driver, at
  rest, during a transaction by phase, and during an uninstall; `MemoryFits`,
  the process holds what is recorded or is one save ahead of it; `PhaseFits`,
  each step belongs to its phases; `WorkFits`, what an upgrade has done by the
  time it reaches a step, among them that the coming activation retires any
  release but the prior one (`KeepsPrior`). They speak of any Pi and process,
  because a call that is cut off leaves one of the states in between: each call
  has one lemma for all the states it passes through, and its three outcomes
  follow. A failure that goes into the recovery and a process that begins anew
  are treated once. `PriorIsAtHand`, `PiMatchesRecord`, `GoneMeansGone` and
  `AppFitsDriver` are consequences; for `GoneMeansGone` the recorded removal of
  the driver stands for the files of every accepted pair's, and the records go
  after the journal. `OnlyMishapsUndo` is an invariant of another kind:
  `Undisturbed` says that while no call has failed, every check an upgrade will
  make is already satisfied (`Ready`), so that only a refused phase undoes it, a
  phase the helper does not know.

  `Without` removes releases from a sequence by a recursive function. Its facts
  (the order stays, the first one kept comes first) are shown for a shortest
  counterexample (`LeastNumber`), by the well-founded order of the numbers, where
  the library's induction theorems cannot be instantiated.
* `Capture_proofs`. `Capture` implements `Screenshot`. A file newer than the
  metadata a command remembers was renamed into place after the command was
  given, because modification times grow with the renames, and a power cut only
  brings back entries that are older than the one it takes away (`DiskInv`).
  An inode alone would not do: it is used again. So a helper past the freshness
  test holds a frame shown since the command, its two looks at the published
  file rule out another helper's older frame, and the command's own test covers
  the transfer.
* `Delivery_proofs`. A command checks the host key only, which a clone shares, so
  `CommandsReachThePi` needs to know who is behind the target: `TargetInv` says
  that no clone is, from the probe that verified the Pi until the program next
  waits, downloads or ends, and that every step before a reboot or a test of the
  display has probed (`Sure`). `OnlyReleasedRuns` needs the way of the payload
  (`HelperInv`): released once acquired, never damaged on the Pi, in part only
  after a power cut, and, where it is about to test or to install, whole unless
  a clone answered the check or the cut took the Pi as well, until the program
  waits again. The record is read and written without that knowledge, and the
  property says what may run there. `OthersDoNoHarm` needs what a process relies
  on between its looks at a cache entry (`ProcessInv`). The proof uses `Slow`;
  without it not even a command that follows a probe would be safe.

Checked by TLC only: liveness (`QueryIsServed`,
`StopEndsProcess`, `InstallCompletes`, `BegunIsEnded`, `ColoursSettle`,
`SlotsComeBack`, `RequestsAreAnswered`), which is beyond the proof system, the
bounds of the display's levels and ramps, and the counterexamples.

## Not modelled

* Providers, HTTP and parsing: any answer or failure is possible, its format is
  not looked at. Geometry, airports and route confidence are floating-point
  functions over static data, without state; TLA+ has nothing to add to them.
* Pixels and layout: a frame is what it shows, not where.
* The order in which the enrichment cache evicts, the client-side rate limits of
  the flight data, and the blocking of readers while the sunset schedule is
  saved under the write lock.
* The first installation of files and the boot-configuration editor of the
  helper, and the external driver's scripts: `Installer` and `Lifecycle` have
  their outcomes.
* Logging, command lines, the smoke test, build and release scripts.

`PROJECT.json` lists every component with what is left out of it.

## Plan

Done: every module of the list above, with its invariants and action properties
proved, and the capture with its refinement. What would come next, in this order:

1. An abstract installation with a single record that either side may lose, and
   `Installer` shown to implement it.
2. The boot-configuration editor and initial installation of `src/install.rs`:
   stage, commit, restore, atomic replacement.
3. `EnrichmentCache`: expiry and LRU order, below `FlightWorker`.
