---- MODULE Display ----
(***************************************************************************)
(* The display loop of PlaneRadar (src/src/app.rs, src/src/display.rs): at *)
(* thirty frames a second PlaneRadarApp::step handles touches, takes the   *)
(* newest snapshot, resolves the night policy, moves the backlight and     *)
(* draws a frame when its RenderKey is not the one already drawn.  It      *)
(* composes the snapshot of RuntimeModel with the gesture recognizer, the  *)
(* backlight controller and the night policy; the workers and browsers     *)
(* that change the snapshot are its environment.                           *)
(*                                                                         *)
(* A step reads the shared snapshot once after its events, so a frame is   *)
(* one action.  Events of one frame are actions of their own before it; a  *)
(* long press that is due comes before them all, as tick does.             *)
(***************************************************************************)
EXTENDS RuntimeModel, Touch, Backlight, NightPolicy

CONSTANTS
  Scenarios,    \* names of the environments a behaviour may have
  World         \* [scenario]: what moves in it and where it starts

VARIABLES
  snapshot,     \* RuntimeModel.snapshot; dirty: its generation is not drawn yet
  look,         \* the rest of its settings
  available,    \* its backlight_availability
  old,          \* data older than its limit: 30 s for aircraft, 45 min for weather
  rec,          \* the gesture recognizer
  settingsOpen,
  minuteTurned, \* the wall-clock minute is not the one drawn
  frame,        \* <<the last frame drawn, with its RenderKey>>, or empty
  background,   \* <<airports and rings cached by the renderer, with their key>>, or empty
  ctl, panel,   \* the backlight controller and the device
  almanac, now, \* the sunrise schedule and the wall clock
  running,      \* FALSE: the loop has ended
  scenario

shared == <<snapshot, look, available>>
clockVars == <<old, minuteTurned, now>>
appVars == <<rec, settingsOpen, frame, background, ctl>>
vars == <<shared, clockVars, appVars, panel, almanac, running, scenario>>

\* Settings that only the display reads.
AllLooks == [day : 0 .. 100, night : 0 .. 100, red : BOOLEAN, clock : BOOLEAN]
Kinds == {"touch", "form", "feed", "weather", "age", "minute", "sky", "light", "restart"}

ASSUME WorldAssumption ==
  \A w \in Scenarios :
    /\ World[w].moves \subseteq Kinds
    /\ World[w].edits \subseteq Settings
    /\ World[w].looks \subseteq AllLooks
    /\ World[w].panels \subseteq Panels
    /\ \A a \in World[w].almanacs : a \in Almanacs
    /\ World[w].moments \subseteq 0 .. Days * Slots

Located(s) == s.settings.location # NoLocation

Pages == {"SetupRequired", "Settings", "Radar", "WaitingForNetwork"}

\* select_state
Page(snap, open) ==
  CASE ~Located(snap)                             -> "SetupRequired"
    [] Located(snap) /\ open                      -> "Settings"
    [] Located(snap) /\ ~open /\ snap.everFetched -> "Radar"
    [] Located(snap) /\ ~open /\ ~snap.everFetched -> "WaitingForNetwork"

Stale(snap) == snap.fetched /\ "aircraft" \in old

EnvironmentStale(snap) == snap.environment # NoLocation /\ "weather" \in old

\* The policy of this instant.  A schedule is used for its own place only.
Dark ==
  /\ SolarIsCurrent(snapshot, snapshot.solar)
  /\ IsDark(almanac, now)

Policy ==
  IF Dark THEN [percent |-> look.night, colour |-> IF look.red THEN "red" ELSE "full"]
  ELSE [percent |-> look.day, colour |-> "full"]

\* Mutant: data that only grows old asks for no frame.
KeyWithoutAge(snap, open, colour) ==
  LET page == Page(snap, open)
  IN  [page |-> page, stale |-> FALSE, environmentStale |-> FALSE, colour |-> colour]

\* RenderKey, without the generation (dirty) and the minute (minuteTurned).
RenderKey(snap, open, colour) ==
  LET page == Page(snap, open)
  IN  [ page             |-> page,
        stale            |-> Stale(snap),
        environmentStale |-> page = "Radar" /\ snap.settings.weather /\ EnvironmentStale(snap),
        colour           |-> colour ]

\* Mutant: a new range reuses the rings and airports of the old one.
PlaceKey(s) == [place |-> PlaceOfSettings(s), range |-> 0]

BackgroundKey(s) == [place |-> PlaceOfSettings(s), range |-> s.range]

\* Rings, runways and airports; the cached ones while their key is the same.
DrawBackground(s) == [place |-> PlaceOfSettings(s), range |-> s.range]

Background(s) ==
  IF background # <<>> /\ background[1].key = BackgroundKey(s) THEN background
  ELSE << [key |-> BackgroundKey(s), image |-> DrawBackground(s)] >>

\* footer_content, as far as it depends on weather: WX --, WX STALE or values.
Footer(snap) ==
  IF ~snap.settings.weather THEN "off"
  ELSE IF snap.environment = NoLocation THEN "WX --"
  ELSE IF EnvironmentStale(snap) THEN "WX STALE" ELSE "weather"

\* SetupRenderer::render: a page without data.
SetupScene(page, colour) ==
  [ page |-> page, colour |-> colour, aircraft |-> {}, background |-> {},
    footer |-> "off", dataStale |-> FALSE ]

\* RadarRenderer::render: background, footer, aircraft, DATA STALE.
RadarScene(snap, colour) ==
  [ page       |-> "Radar",
    colour     |-> colour,
    aircraft   |-> snap.aircraft,
    background |-> {Background(snap.settings)[1].image},
    footer     |-> Footer(snap),
    dataStale  |-> Stale(snap) ]

\* render_frame and apply_color_mode.
Scene(snap, open, colour) ==
  IF Page(snap, open) = "Radar" THEN RadarScene(snap, colour)
  ELSE SetupScene(Page(snap, open), colour)

Drawn == frame # <<>>       \* last_render_key is set

\* Whether step renders: its key differs from that of the last frame.
Redraws(snap, open, colour) ==
  \/ ~Drawn
  \/ snap.dirty
  \/ frame[1].key # RenderKey(snap, open, colour)
  \/ Page(snap, open) = "Radar" /\ look.clock /\ minuteTurned

----
\* A process starts with the settings on file, and with the cached schedule
\* if it is for their place and night mode is on.
BootSnapshots(s) ==
  {NewSnapshot(s)} \cup
  (IF s.night /\ s.location # NoLocation
   THEN {RecordSolar(NewSnapshot(s), PlaceOfSettings(s))} ELSE {})

Init ==
  /\ scenario \in Scenarios
  /\ snapshot \in UNION {BootSnapshots(s) : s \in World[scenario].edits}
  /\ look \in World[scenario].looks
  /\ available = "Unknown"
  /\ old = {}
  /\ rec = Untouched
  /\ settingsOpen = FALSE
  /\ minuteTurned = FALSE
  /\ frame = <<>>
  /\ background = <<>>
  /\ panel \in World[scenario].panels
  /\ ctl = NewController(panel)
  /\ almanac \in World[scenario].almanacs
  /\ now \in World[scenario].moments
  /\ running = World[scenario].runs

Moving(kind) == kind \in World[scenario].moves /\ UNCHANGED <<almanac, scenario>>

\* Gestures come from a running loop, the long press that is due first.
Touching == running /\ Moving("touch") /\ UNCHANGED <<clockVars, panel, running, look, available>>

TouchOnly == Touching /\ UNCHANGED <<snapshot, settingsOpen, frame, background, ctl>>

PressFinger(f) == TouchOnly /\ ~LongPressDue(rec) /\ rec' = Press(rec, f)

MoveFinger(f) == TouchOnly /\ ~LongPressDue(rec) /\ rec' = Move(rec, f, TRUE)

\* Mutant: the range runs past the last preset.
TapUnwrapped(snap, open) ==
  {[snap |-> ReplaceSettings(snap, [snap.settings EXCEPT !.range = @ + 1]), open |-> FALSE]}

\* handle_gesture(Tap): cycle_range commits settings or fails and changes nothing.
Tap(snap, open) ==
  CASE Page(snap, open) = "Radar"    ->
         {[snap |-> ReplaceSettings(snap, [snap.settings EXCEPT !.range = (@ + 1) % NumRanges]),
           open |-> FALSE],
          [snap |-> snap, open |-> open]}
    [] Page(snap, open) = "Settings" -> {[snap |-> snap, open |-> FALSE]}
    [] Page(snap, open) \in {"SetupRequired", "WaitingForNetwork"} ->
         {[snap |-> snap, open |-> open]}

ReleaseFinger(f) ==
  /\ Touching /\ ~LongPressDue(rec)
  /\ rec.active = f
  /\ rec' = Release(rec, f)
  /\ \E tooFar \in BOOLEAN :
       IF Taps(rec, f, tooFar)
       THEN \E r \in Tap(snapshot, settingsOpen /\ Located(snapshot)) :
              snapshot' = r.snap /\ settingsOpen' = r.open
       ELSE UNCHANGED <<snapshot, settingsOpen>>
  /\ UNCHANGED <<frame, background, ctl>>

\* tick, then handle_gesture(LongPress).
LongPress ==
  /\ Touching /\ LongPressDue(rec)
  /\ rec' = Fire(rec)
  /\ settingsOpen' = Located(snapshot)
  /\ UNCHANGED <<snapshot, frame, background, ctl>>

\* step() after its events: snapshot, policy, backlight, availability, frame.
DrawFrame ==
  /\ running /\ ~LongPressDue(rec)
  /\ \E policy \in {Policy} : \E light \in Updates(ctl, panel, policy) :
     LET open   == settingsOpen /\ Located(snapshot)
         report == IF light.ok THEN "Available" ELSE "Unavailable"
         snap   == IF report = available THEN snapshot ELSE [snapshot EXCEPT !.dirty = TRUE]
         colour == light.ctl.safe
         radar  == Page(snap, open) = "Radar"
     IN  /\ settingsOpen' = open
         /\ ctl' = light.ctl /\ panel' = light.panel
         /\ available' = report
         /\ IF Redraws(snap, open, colour)
            THEN /\ frame' = << [key   |-> RenderKey(snap, open, colour),
                                 scene |-> Scene(snap, open, colour)] >>
                 /\ snapshot' = [snap EXCEPT !.dirty = FALSE]
                 /\ background' = IF radar THEN Background(snap.settings) ELSE background
                 /\ minuteTurned' = FALSE
            ELSE UNCHANGED <<frame, background, minuteTurned>> /\ snapshot' = snap
  /\ UNCHANGED <<look, old, rec, almanac, now, running, scenario>>

\* SDL quits or the stop flag is seen: no frame, the workers are joined.
Quit ==
  /\ running /\ Moving("restart")
  /\ running' = FALSE
  /\ UNCHANGED <<shared, clockVars, appVars, panel>>

\* A new process, after an exit or a crash at any point; the panel keeps its light.
StartAgain ==
  /\ Moving("restart")
  /\ snapshot' \in BootSnapshots(snapshot.settings)
  /\ available' = "Unknown"
  /\ old' = {}
  /\ rec' = Untouched
  /\ settingsOpen' = FALSE
  /\ frame' = <<>>
  /\ background' = <<>>
  /\ ctl' = NewController(panel)
  /\ running' = TRUE
  /\ UNCHANGED <<look, minuteTurned, now, panel>>

----
(* The environment: browsers, workers, clocks, the panel. *)

AppStays == UNCHANGED <<appVars, running>>

\* A form saves settings; data of another query loses its age with its time.
SaveForm ==
  /\ Moving("form")
  /\ \E s \in World[scenario].edits \ {snapshot.settings} :
       /\ s.location # NoLocation
       /\ snapshot' = ReplaceSettings(snapshot, s)
  /\ UNCHANGED <<look, available, clockVars, panel>> /\ AppStays

SaveLook ==
  /\ Moving("light")
  /\ look' \in World[scenario].looks \ {look}
  /\ snapshot' = ReplaceSettings(snapshot, snapshot.settings)
  /\ UNCHANGED <<available, clockVars, panel>> /\ AppStays

FeedAnswers ==
  /\ Moving("feed") /\ Located(snapshot)
  /\ \E aircraft \in Answers(Query(snapshot.settings)) :
       snapshot' = RecordAircraft(snapshot, aircraft)
  /\ old' = old \ {"aircraft"}
  /\ UNCHANGED <<look, available, minuteTurned, now, panel>> /\ AppStays

FeedFails ==
  /\ Moving("feed") /\ Located(snapshot)
  /\ snapshot' = RecordAdsbError(snapshot)
  /\ UNCHANGED <<look, available, clockVars, panel>> /\ AppStays

WeatherAnswers ==
  /\ Moving("weather")
  /\ EnvironmentIsCurrent(snapshot, snapshot.settings.location) /\ Located(snapshot)
  /\ snapshot' = RecordEnvironment(snapshot, snapshot.settings.location)
  /\ old' = old \ {"weather"}
  /\ UNCHANGED <<look, available, minuteTurned, now, panel>> /\ AppStays

SolarAnswers ==
  /\ Moving("light") /\ Located(snapshot)
  /\ LET place == PlaceOfSettings(snapshot.settings)
     IN  /\ SolarIsCurrent(snapshot, place)
         /\ snapshot' = RecordSolar(snapshot, place)
  /\ UNCHANGED <<look, available, clockVars, panel>> /\ AppStays

DataAges ==
  /\ Moving("age")
  /\ \/ snapshot.fetched /\ old' = old \cup {"aircraft"}
     \/ snapshot.environment # NoLocation /\ old' = old \cup {"weather"}
  /\ UNCHANGED <<shared, minuteTurned, now, panel>> /\ AppStays

MinuteTurns ==
  /\ Moving("minute")
  /\ minuteTurned' = TRUE
  /\ UNCHANGED <<shared, old, now, panel>> /\ AppStays

\* The wall clock goes on, or jumps when it is set.
ClockMoves ==
  /\ Moving("sky")
  /\ now' \in World[scenario].moments
  /\ UNCHANGED <<shared, old, minuteTurned, panel>> /\ AppStays

FingerWaits ==
  /\ Touching
  /\ rec' \in TimePasses(rec)
  /\ UNCHANGED <<snapshot, settingsOpen, frame, background, ctl>>

RampAges ==
  /\ ctl' = Age(ctl)
  /\ UNCHANGED <<shared, clockVars, rec, settingsOpen, frame, background, panel, almanac,
                 running, scenario>>

PanelBreaksOrRecovers ==
  /\ Moving("light")
  /\ panel' = [panel EXCEPT !.works = ~@]
  /\ UNCHANGED <<shared, clockVars>> /\ AppStays

TouchStep ==
  \/ \E f \in Fingers : PressFinger(f) \/ MoveFinger(f) \/ ReleaseFinger(f)
  \/ LongPress
  \/ FingerWaits

Environment ==
  \/ SaveForm
  \/ SaveLook
  \/ FeedAnswers
  \/ FeedFails
  \/ WeatherAnswers
  \/ SolarAnswers
  \/ DataAges
  \/ MinuteTurns
  \/ ClockMoves
  \/ RampAges
  \/ PanelBreaksOrRecovers

Next == DrawFrame \/ TouchStep \/ Environment \/ Quit \/ StartAgain

\* The loop runs thirty times a second, and time passes.
Fairness ==
  /\ WF_vars(DrawFrame)
  /\ WF_vars(LongPress)
  /\ WF_vars(RampAges)

Spec == Init /\ [][Next]_vars /\ Fairness

----
\* Every variable has its type.
TypeOK ==
  /\ snapshot \in Snapshot /\ look \in AllLooks
  /\ available \in {"Unknown", "Available", "Unavailable"}
  /\ old \subseteq {"aircraft", "weather"}
  /\ rec \in Recognizers
  /\ ctl \in Controllers /\ panel \in Panels
  /\ almanac \in Almanacs

Quiet == Drawn /\ ~Redraws(snapshot, settingsOpen, ctl.safe)

\* A display that sees no reason to draw already shows what drawing would
\* show: no change of data, page, age, weather or colour is missed by the
\* RenderKey, and no background is kept past its settings.
FrameIsCurrent ==
  Quiet =>
    /\ frame[1].scene = Scene(snapshot, settingsOpen, ctl.safe)
    /\ \A image \in frame[1].scene.background : image = DrawBackground(snapshot.settings)

\* Aircraft older than thirty seconds are never on the display without DATA
\* STALE, although a change of range or place forgets when they arrived.
OldAircraftAreLabelled ==
  Quiet /\ frame[1].scene.aircraft # {} /\ "aircraft" \in old => frame[1].scene.dataStale

\* The settings page that a long press opened is closed by a later touch,
\* never by the release of the same one.
OnlyALaterTouchCloses ==
  [][ settingsOpen /\ ~settingsOpen' /\ Drawn' =>
        rec.active # NoFinger /\ ~rec.fired ]_vars

Target == PercentToLevel(Policy.percent)

\* The target is the level the ramp is at by now, and the panel is not.
CaughtMidway ==
  Ramping(ctl) /\ Interpolated(ctl) = Target /\ ctl.known # Target

\* Entering night dims before red: a frame turns red on a panel that has come
\* down to the night's level, one that reports a failure, or one stranded by a
\* target that came midway.  Leaving it restores full colour before the panel
\* brightens, and a start in an active night never flashes full colour.
GentleNight ==
  [][ /\ ~Drawn /\ Drawn' => frame'[1].scene.colour = Policy.colour
      /\ Drawn /\ Drawn' =>
           /\ frame[1].scene.colour = "full" /\ frame'[1].scene.colour = "red" =>
                available' = "Unavailable" \/ panel'.level = Target \/ Stranded(ctl')
           /\ frame[1].scene.colour = "red" /\ Policy.colour = "full" =>
                panel'.level <= panel.level \/ panel'.level <= Interpolated(ctl)
      /\ Stranded(ctl') => Stranded(ctl) \/ CaughtMidway ]_vars

\* The design has no such exception: a panel that works is dim before the
\* frame is red.
DimsBeforeRed ==
  [][ Drawn /\ Drawn' /\ frame[1].scene.colour = "full" /\ frame'[1].scene.colour = "red" =>
        available' = "Unavailable" \/ panel'.level <= Target ]_vars

\* It is night by the code's three dates exactly when it is by definition, and
\* nothing changes before the transition the status page announces.
NightIsDefined ==
  /\ IsDark(almanac, now) = DarkByDefinition(almanac, now)
  /\ \A t \in now .. NextTransition(almanac, now) - 1 :
       IsDark(almanac, t) = IsDark(almanac, now)

\* Once the policy is left alone the frames take its colours, whatever the
\* panel does.
ColoursSettle ==
  \A l \in UNION {World[w].looks : w \in Scenarios}, dark \in BOOLEAN :
    <>[](Drawn /\ running /\ look = l /\ Dark = dark) =>
    <>[](\A i \in DOMAIN frame : frame[i].scene.colour = Policy.colour)

\* The design has every change of the target end at the target, two seconds
\* later: once policy and panel are left alone the panel takes the brightness.
BacklightSettles ==
  \A l \in UNION {World[w].looks : w \in Scenarios}, dark \in BOOLEAN :
    <>[](Drawn /\ running /\ panel.works /\ ctl.present /\ look = l /\ Dark = dark) =>
    <>[](panel.level = Target)
====
