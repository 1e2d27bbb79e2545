---- MODULE RuntimeModel ----
(***************************************************************************)
(* The shared snapshot of the PlaneRadar runtime (src/src/model.rs): one   *)
(* immutable record behind an RwLock.  Every write takes the lock, checks  *)
(* that the answer it brings is still wanted, and publishes a new record.  *)
(* Each write is therefore one atomic operator here, from a snapshot to a  *)
(* snapshot; the modules that use it own the variable that holds it.       *)
(*                                                                         *)
(* Times are reduced to their presence (an Option<Duration> is a Boolean), *)
(* the generation counter to "newer than the frame on the display".        *)
(* last_error_at, URLs and backlight status are written but select nothing *)
(* in the modelled code; what remains of writing them is the bump.         *)
(***************************************************************************)
EXTENDS Naturals

CONSTANTS
  Locations,    \* configurable locations: latitude, longitude and label
  Places,       \* coordinates; two locations may differ in label alone
  PlaceOf,      \* the coordinates of a location
  NoLocation,   \* settings.location = None
  NoPlace,      \* no solar schedule
  NumRanges,    \* RANGE_RING3_KM.len(): four presets in the program
  Filters,      \* altitude filters
  Sightings,    \* aircraft as one ADS-B answer reports them
  Keys,         \* aircraft identities: hex and callsign
  KeyOf,        \* the identity of a sighting
  Traffic,      \* [location][range]: sightings an answer may hold
  Allows        \* [filter]: sightings the filter lets through

Ranges == 0 .. NumRanges - 1

ASSUME ModelAssumption ==
  /\ NoLocation \notin Locations
  /\ NoPlace \notin Places
  /\ PlaceOf \in [Locations -> Places]
  /\ NumRanges \in Nat \ {0}
  /\ KeyOf \in [Sightings -> Keys]
  /\ Traffic \in [Locations -> [Ranges -> SUBSET Sightings]]
  /\ Allows \in [Filters -> SUBSET Sightings]

Needs == SUBSET {"route", "model"}       \* EnrichmentNeeds

\* RadarSettings, reduced to the fields a worker or a guard reads.  weather
\* is footer.needs_environment(), night is brightness.night.enabled.
Settings ==
  [ location : Locations \cup {NoLocation},
    range    : Ranges,
    filter   : Filters,
    needs    : Needs,
    weather  : BOOLEAN,
    night    : BOOLEAN ]

Unenriched == {"unenriched"}

\* RuntimeSnapshot.  environment is the location the reading was fetched
\* for, solar the coordinates of the schedule, fetched whether fetched_at is
\* set, everFetched has_successful_fetch_for_current_location, dirty whether
\* the generation differs from that of the last rendered frame.
Snapshot ==
  [ settings    : Settings,
    aircraft    : SUBSET Sightings,
    enrichment  : [Keys -> Needs \cup {Unenriched}],
    environment : Locations \cup {NoLocation},
    envError    : BOOLEAN,
    solar       : Places \cup {NoPlace},
    solarError  : BOOLEAN,
    fetched     : BOOLEAN,
    everFetched : BOOLEAN,
    dirty       : BOOLEAN ]

KeysOf(aircraft) == {KeyOf[a] : a \in aircraft}

\* The ADS-B query a settings record asks for.
Query(s) == [location |-> s.location, range |-> s.range, filter |-> s.filter]

\* What the feed may answer to a query: the filter is applied on parsing.
Answers(q) == SUBSET (Traffic[q.location][q.range] \cap Allows[q.filter])

NoEnrichment == [k \in Keys |-> Unenriched]

NewSnapshot(s) ==
  [ settings |-> s, aircraft |-> {}, enrichment |-> NoEnrichment,
    environment |-> NoLocation, envError |-> FALSE,
    solar |-> NoPlace, solarError |-> FALSE,
    fetched |-> FALSE, everFetched |-> FALSE, dirty |-> TRUE ]

\* Mutant: enrichment is never dropped.
RetainAll(enrichment, aircraft) == enrichment

RetainDisplayed(enrichment, aircraft) ==
  [k \in Keys |-> IF k \in KeysOf(aircraft) THEN enrichment[k] ELSE Unenriched]

PlaceOfSettings(s) ==
  IF s.location = NoLocation THEN NoPlace ELSE PlaceOf[s.location]

----
(* Settings.  The aircraft a new query no longer asks for are dropped, those
   a new filter hides are filtered out, and data of another location goes. *)

Moved(old, s) == old.location # s.location

\* Mutant: a new location alone does not count as a new query.
OnlyRangeChanged(old, s) == old.range # s.range

QueryChanged(old, s) == Moved(old, s) \/ old.range # s.range

\* Mutant: a new filter is left to the next answer.
ShownUnfiltered(snap, s) == IF QueryChanged(snap.settings, s) THEN {} ELSE snap.aircraft

ShownAfter(snap, s) ==
  CASE QueryChanged(snap.settings, s)      -> {}
    [] ~QueryChanged(snap.settings, s) /\ snap.settings.filter # s.filter
                                           -> snap.aircraft \cap Allows[s.filter]
    [] ~QueryChanged(snap.settings, s) /\ snap.settings.filter = s.filter
                                           -> snap.aircraft

\* Mutant: turning night mode off leaves the schedule.
SolarGoneByMove(old, s) == PlaceOfSettings(old) # PlaceOfSettings(s)

SolarGone(old, s) ==
  \/ PlaceOfSettings(old) # PlaceOfSettings(s)
  \/ ~s.night
  \/ s.location = NoLocation

ReplaceSettings(snap, s) ==
  LET old   == snap.settings
      moved == Moved(old, s)
  IN  [ settings    |-> s,
        aircraft    |-> ShownAfter(snap, s),
        enrichment  |-> RetainDisplayed(snap.enrichment, ShownAfter(snap, s)),
        environment |-> IF moved THEN NoLocation ELSE snap.environment,
        envError    |-> snap.envError /\ ~moved,
        solar       |-> IF SolarGone(old, s) THEN NoPlace ELSE snap.solar,
        solarError  |-> snap.solarError /\ ~SolarGone(old, s),
        fetched     |-> snap.fetched /\ ~QueryChanged(old, s),
        everFetched |-> snap.everFetched /\ ~moved,
        dirty       |-> TRUE ]

----
(* Worker answers.  XIsCurrent is the guard under which the code accepts an
   answer (otherwise it returns None and leaves the snapshot alone). *)

\* Mutant: an answer is accepted for another range or filter.
LocationIsCurrent(snap, q) == snap.settings.location = q.location

QueryIsCurrent(snap, q) == Query(snap.settings) = q

\* Mutant: the new aircraft do not count as a new generation.
RecordAircraftQuietly(snap, aircraft) ==
  [ snap EXCEPT !.aircraft = aircraft,
                !.enrichment = RetainDisplayed(@, aircraft),
                !.fetched = TRUE, !.everFetched = TRUE ]

RecordAircraft(snap, aircraft) ==
  [ snap EXCEPT !.aircraft = aircraft,
                !.enrichment = RetainDisplayed(@, aircraft),
                !.fetched = TRUE, !.everFetched = TRUE, !.dirty = TRUE ]

RecordAdsbError(snap) == [snap EXCEPT !.dirty = TRUE]

EnrichmentIsCurrent(snap, location, needs) ==
  /\ snap.settings.location = location
  /\ snap.settings.needs = needs

\* Joined only to an identity still displayed, and only when it says more.
RecordEnrichment(snap, key, enrichment) ==
  IF key \in KeysOf(snap.aircraft) /\ snap.enrichment[key] # enrichment
  THEN [snap EXCEPT !.enrichment[key] = enrichment, !.dirty = TRUE]
  ELSE snap

\* Mutant: a late reading is accepted for any location.
EnvironmentWanted(snap, location) == snap.settings.weather

EnvironmentIsCurrent(snap, location) ==
  /\ snap.settings.location = location
  /\ snap.settings.weather

RecordEnvironment(snap, location) ==
  [snap EXCEPT !.environment = location, !.envError = FALSE, !.dirty = TRUE]

RecordEnvironmentError(snap) == [snap EXCEPT !.envError = TRUE, !.dirty = TRUE]

\* Mutant: a late schedule is accepted although night mode is off.
SolarPlaceIsCurrent(snap, place) ==
  /\ snap.settings.location # NoLocation
  /\ PlaceOf[snap.settings.location] = place

SolarIsCurrent(snap, place) ==
  /\ snap.settings.night
  /\ snap.settings.location # NoLocation
  /\ PlaceOf[snap.settings.location] = place

RecordSolar(snap, place) ==
  [snap EXCEPT !.solar = place, !.solarError = FALSE, !.dirty = TRUE]

RecordSolarError(snap) == [snap EXCEPT !.solarError = TRUE, !.dirty = TRUE]

----
(* Invariants of one snapshot, whoever wrote it last. *)

\* What the display draws belongs to what is configured: aircraft inside the
\* current range of the current location and allowed by the current filter.
AircraftMatchSettings(snap) ==
  LET q == Query(snap.settings)
  IN  snap.aircraft # {} =>
        /\ q.location # NoLocation
        /\ snap.aircraft \in Answers(q)
        /\ snap.fetched

\* Enrichment exists only for displayed identities.
EnrichmentIsDisplayed(snap) ==
  \A k \in Keys : snap.enrichment[k] # Unenriched => k \in KeysOf(snap.aircraft)

\* Weather and sunset belong to the configured location, and the sunset
\* schedule is present only while night mode asks for it.
ProvidersMatchSettings(snap) ==
  /\ snap.environment \in {NoLocation, snap.settings.location}
  /\ snap.envError => snap.settings.location # NoLocation
  /\ snap.solar # NoPlace =>
       /\ snap.settings.night
       /\ snap.settings.location # NoLocation
       /\ snap.solar = PlaceOf[snap.settings.location]

\* The state the display derives: a radar (everFetched) needs a location, and data with an age was
\* fetched for the current location.
FreshnessIsConsistent(snap) ==
  /\ snap.fetched => snap.everFetched
  /\ snap.everFetched => snap.settings.location # NoLocation
====
