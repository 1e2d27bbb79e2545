---- MODULE RuntimeModel_proofs ----
(***************************************************************************)
(* Lemmas about the operations on one snapshot: each returns a snapshot,   *)
(* and none breaks what every published snapshot promises.                 *)
(***************************************************************************)
EXTENDS RuntimeModel, TLAPS

\* What every published snapshot promises.
SnapshotOK(snap) ==
  /\ AircraftMatchSettings(snap)
  /\ EnrichmentIsDisplayed(snap)
  /\ ProvidersMatchSettings(snap)
  /\ FreshnessIsConsistent(snap)

\* A fresh snapshot has no data at all.
LEMMA NewSnapshotOK ==
  ASSUME NEW s \in Settings
  PROVE  NewSnapshot(s) \in Snapshot /\ SnapshotOK(NewSnapshot(s))
<1>1. NewSnapshot(s) \in Snapshot
  BY DEF NewSnapshot, Snapshot, NoEnrichment
<1>2. SnapshotOK(NewSnapshot(s))
  BY DEF NewSnapshot, SnapshotOK, AircraftMatchSettings, EnrichmentIsDisplayed,
         ProvidersMatchSettings, FreshnessIsConsistent, NoEnrichment, Query
<1>3. QED BY <1>1, <1>2

\* The aircraft shown after a change are among those shown before it.
LEMMA ShownAfterShrinks ==
  ASSUME NEW snap \in Snapshot, NEW s \in Settings
  PROVE  /\ ShownAfter(snap, s) \subseteq snap.aircraft
         /\ QueryChanged(snap.settings, s) => ShownAfter(snap, s) = {}
         /\ snap.settings.filter # s.filter => ShownAfter(snap, s) \subseteq Allows[s.filter]
BY DEF ShownAfter, QueryChanged

\* replace_settings (model.rs): the published snapshot is one again ...
LEMMA ReplaceSettingsType ==
  ASSUME NEW snap \in Snapshot, NEW s \in Settings
  PROVE  ReplaceSettings(snap, s) \in Snapshot
<1>1. ShownAfter(snap, s) \in SUBSET Sightings
  BY ShownAfterShrinks DEF Snapshot
<1>2. RetainDisplayed(snap.enrichment, ShownAfter(snap, s)) \in [Keys -> Needs \cup {Unenriched}]
  BY DEF RetainDisplayed, Snapshot
<1>3. QED
  BY <1>1, <1>2 DEF ReplaceSettings, Snapshot, SolarGone, QueryChanged, Moved

\* ... and keeps no data the new settings do not ask for.
LEMMA ReplaceSettingsOK ==
  ASSUME NEW snap \in Snapshot, SnapshotOK(snap), NEW s \in Settings
  PROVE  SnapshotOK(ReplaceSettings(snap, s))
<1> DEFINE new == ReplaceSettings(snap, s)
<1>1. AircraftMatchSettings(new)
  <2> SUFFICES ASSUME new.aircraft # {}
      PROVE  /\ s.location # NoLocation
             /\ new.aircraft \in Answers(Query(s))
             /\ new.fetched
    BY DEF AircraftMatchSettings, ReplaceSettings, Query
  <2>1. ~QueryChanged(snap.settings, s)
    BY ShownAfterShrinks DEF ReplaceSettings
  <2>2. new.aircraft \subseteq snap.aircraft
    BY ShownAfterShrinks DEF ReplaceSettings
  <2>3. /\ snap.settings.location = s.location
        /\ snap.settings.range = s.range
    BY <2>1 DEF QueryChanged, Moved
  <2>4. /\ snap.settings.location # NoLocation
        /\ snap.aircraft \in Answers(Query(snap.settings))
        /\ snap.fetched
    BY <2>2 DEF SnapshotOK, AircraftMatchSettings, Query
  <2>5. new.aircraft \subseteq Allows[s.filter]
    <3>1. CASE snap.settings.filter = s.filter
      BY <2>2, <2>4, <3>1 DEF Answers, Query
    <3>2. CASE snap.settings.filter # s.filter
      BY <3>2, ShownAfterShrinks DEF ReplaceSettings
    <3>3. QED BY <3>1, <3>2
  <2>6. QED
    BY <2>1, <2>2, <2>3, <2>4, <2>5 DEF Answers, Query, ReplaceSettings
<1>2. EnrichmentIsDisplayed(new)
  BY DEF EnrichmentIsDisplayed, ReplaceSettings, RetainDisplayed
<1>3. ProvidersMatchSettings(new)
  BY DEF SnapshotOK, ProvidersMatchSettings, ReplaceSettings, Moved, SolarGone, PlaceOfSettings, Snapshot
<1>4. FreshnessIsConsistent(new)
  BY DEF SnapshotOK, FreshnessIsConsistent, ReplaceSettings, Moved, QueryChanged, Snapshot
<1>5. QED BY <1>1, <1>2, <1>3, <1>4 DEF SnapshotOK

\* record_aircraft_if_query: an answer to the current query.
LEMMA RecordAircraftOK ==
  ASSUME NEW snap \in Snapshot, SnapshotOK(snap), NEW q,
         QueryIsCurrent(snap, q), q.location # NoLocation, NEW a \in Answers(q),
         a \in SUBSET Sightings
  PROVE  RecordAircraft(snap, a) \in Snapshot /\ SnapshotOK(RecordAircraft(snap, a))
<1> DEFINE new == RecordAircraft(snap, a)
<1>1. RetainDisplayed(snap.enrichment, a) \in [Keys -> Needs \cup {Unenriched}]
  BY DEF RetainDisplayed, Snapshot
<1>2. new \in Snapshot
  BY <1>1 DEF RecordAircraft, Snapshot
<1>3. /\ new.settings = snap.settings /\ new.aircraft = a /\ new.fetched /\ new.everFetched
      /\ new.enrichment = RetainDisplayed(snap.enrichment, a)
      /\ new.environment = snap.environment /\ new.envError = snap.envError
      /\ new.solar = snap.solar
  BY DEF RecordAircraft, Snapshot
<1>4. Query(new.settings) = q
  BY <1>3 DEF QueryIsCurrent
<1>5. AircraftMatchSettings(new)
  BY <1>3, <1>4 DEF AircraftMatchSettings
<1>6. EnrichmentIsDisplayed(new)
  BY <1>3 DEF EnrichmentIsDisplayed, RetainDisplayed
<1>7. ProvidersMatchSettings(new)
  BY <1>3 DEF SnapshotOK, ProvidersMatchSettings
<1>8. FreshnessIsConsistent(new)
  BY <1>3, <1>4 DEF FreshnessIsConsistent, Query
<1>9. QED BY <1>2, <1>5, <1>6, <1>7, <1>8 DEF SnapshotOK

\* A write that touches neither data nor settings (an ADS-B error, a frame
\* drawn) keeps every promise.
LEMMA DirtyWriteOK ==
  ASSUME NEW snap \in Snapshot, SnapshotOK(snap), NEW d \in BOOLEAN
  PROVE  /\ [snap EXCEPT !.dirty = d] \in Snapshot
         /\ SnapshotOK([snap EXCEPT !.dirty = d])
<1> DEFINE new == [snap EXCEPT !.dirty = d]
<1>1. new \in Snapshot
  BY DEF Snapshot
<1>2. /\ new.settings = snap.settings /\ new.aircraft = snap.aircraft
      /\ new.fetched = snap.fetched /\ new.everFetched = snap.everFetched
      /\ new.enrichment = snap.enrichment /\ new.environment = snap.environment
      /\ new.envError = snap.envError /\ new.solar = snap.solar
  BY DEF Snapshot
<1>3. AircraftMatchSettings(new)
  BY <1>2 DEF SnapshotOK, AircraftMatchSettings
<1>4. EnrichmentIsDisplayed(new) /\ ProvidersMatchSettings(new) /\ FreshnessIsConsistent(new)
  BY <1>2 DEF SnapshotOK, EnrichmentIsDisplayed, ProvidersMatchSettings, FreshnessIsConsistent
<1>5. QED BY <1>1, <1>3, <1>4 DEF SnapshotOK

\* record_enrichment_if_current: joined to a displayed identity or dropped.
LEMMA RecordEnrichmentOK ==
  ASSUME NEW snap \in Snapshot, SnapshotOK(snap), NEW k \in Keys, NEW e \in Needs
  PROVE  RecordEnrichment(snap, k, e) \in Snapshot /\ SnapshotOK(RecordEnrichment(snap, k, e))
<1> DEFINE new == [snap EXCEPT !.enrichment[k] = e, !.dirty = TRUE]
<1>1. CASE RecordEnrichment(snap, k, e) = snap
  BY <1>1
<1>2. CASE k \in KeysOf(snap.aircraft) /\ snap.enrichment[k] # e
  <2>1. new \in Snapshot
    BY DEF Snapshot
  <2>2. /\ new.settings = snap.settings /\ new.aircraft = snap.aircraft
        /\ new.fetched = snap.fetched /\ new.everFetched = snap.everFetched
        /\ new.enrichment = [snap.enrichment EXCEPT ![k] = e]
        /\ new.environment = snap.environment
        /\ new.envError = snap.envError /\ new.solar = snap.solar
    BY DEF Snapshot
  <2>3. AircraftMatchSettings(new)
    BY <2>2 DEF SnapshotOK, AircraftMatchSettings
  <2>4. EnrichmentIsDisplayed(new)
    BY <1>2, <2>2 DEF SnapshotOK, EnrichmentIsDisplayed, Snapshot
  <2>5. ProvidersMatchSettings(new) /\ FreshnessIsConsistent(new)
    BY <2>2 DEF SnapshotOK, ProvidersMatchSettings, FreshnessIsConsistent
  <2>6. QED BY <1>2, <2>1, <2>3, <2>4, <2>5 DEF SnapshotOK, RecordEnrichment
<1>3. QED BY <1>1, <1>2 DEF RecordEnrichment

\* record_environment_if_current: a reading for the configured location.
LEMMA RecordEnvironmentOK ==
  ASSUME NEW snap \in Snapshot, SnapshotOK(snap), NEW l \in Locations,
         EnvironmentIsCurrent(snap, l)
  PROVE  RecordEnvironment(snap, l) \in Snapshot /\ SnapshotOK(RecordEnvironment(snap, l))
<1> DEFINE new == RecordEnvironment(snap, l)
<1>1. new \in Snapshot
  BY DEF RecordEnvironment, Snapshot
<1>2. /\ new.settings = snap.settings /\ new.aircraft = snap.aircraft
      /\ new.fetched = snap.fetched /\ new.everFetched = snap.everFetched
      /\ new.enrichment = snap.enrichment /\ new.environment = l
      /\ new.envError = FALSE /\ new.solar = snap.solar
  BY DEF RecordEnvironment, Snapshot
<1>3. AircraftMatchSettings(new)
  BY <1>2 DEF SnapshotOK, AircraftMatchSettings
<1>4. ProvidersMatchSettings(new)
  BY <1>2 DEF SnapshotOK, ProvidersMatchSettings, EnvironmentIsCurrent
<1>5. EnrichmentIsDisplayed(new) /\ FreshnessIsConsistent(new)
  BY <1>2 DEF SnapshotOK, EnrichmentIsDisplayed, FreshnessIsConsistent
<1>6. QED BY <1>1, <1>3, <1>4, <1>5 DEF SnapshotOK

\* record_environment_error_if_current.
LEMMA RecordEnvironmentErrorOK ==
  ASSUME NEW snap \in Snapshot, SnapshotOK(snap), NEW l \in Locations,
         EnvironmentIsCurrent(snap, l)
  PROVE  RecordEnvironmentError(snap) \in Snapshot /\ SnapshotOK(RecordEnvironmentError(snap))
<1> DEFINE new == RecordEnvironmentError(snap)
<1>1. new \in Snapshot
  BY DEF RecordEnvironmentError, Snapshot
<1>2. /\ new.settings = snap.settings /\ new.aircraft = snap.aircraft
      /\ new.fetched = snap.fetched /\ new.everFetched = snap.everFetched
      /\ new.enrichment = snap.enrichment /\ new.environment = snap.environment
      /\ new.solar = snap.solar
  BY DEF RecordEnvironmentError, Snapshot
<1>3. AircraftMatchSettings(new)
  BY <1>2 DEF SnapshotOK, AircraftMatchSettings
<1>4. snap.settings.location # NoLocation
  BY ModelAssumption DEF EnvironmentIsCurrent
<1>5. ProvidersMatchSettings(new)
  BY <1>2, <1>4 DEF SnapshotOK, ProvidersMatchSettings
<1>6. EnrichmentIsDisplayed(new) /\ FreshnessIsConsistent(new)
  BY <1>2 DEF SnapshotOK, EnrichmentIsDisplayed, FreshnessIsConsistent
<1>7. QED BY <1>1, <1>3, <1>5, <1>6 DEF SnapshotOK

\* A schedule for the configured coordinates.
LEMMA RecordSolarOK ==
  ASSUME NEW snap \in Snapshot, SnapshotOK(snap), NEW p \in Places \cup {NoPlace},
         SolarIsCurrent(snap, p)
  PROVE  RecordSolar(snap, p) \in Snapshot /\ SnapshotOK(RecordSolar(snap, p))
<1> DEFINE new == RecordSolar(snap, p)
<1>1. new \in Snapshot
  BY DEF RecordSolar, Snapshot
<1>2. /\ new.settings = snap.settings /\ new.aircraft = snap.aircraft
      /\ new.fetched = snap.fetched /\ new.everFetched = snap.everFetched
      /\ new.enrichment = snap.enrichment /\ new.environment = snap.environment
      /\ new.envError = snap.envError /\ new.solar = p
  BY DEF RecordSolar, Snapshot
<1>3. AircraftMatchSettings(new)
  BY <1>2 DEF SnapshotOK, AircraftMatchSettings
<1>4. ProvidersMatchSettings(new)
  BY <1>2 DEF SnapshotOK, ProvidersMatchSettings, SolarIsCurrent
<1>5. EnrichmentIsDisplayed(new) /\ FreshnessIsConsistent(new)
  BY <1>2 DEF SnapshotOK, EnrichmentIsDisplayed, FreshnessIsConsistent
<1>6. QED BY <1>1, <1>3, <1>4, <1>5 DEF SnapshotOK

\* record_solar_failure_if_current.
LEMMA RecordSolarErrorOK ==
  ASSUME NEW snap \in Snapshot, SnapshotOK(snap)
  PROVE  RecordSolarError(snap) \in Snapshot /\ SnapshotOK(RecordSolarError(snap))
<1> DEFINE new == RecordSolarError(snap)
<1>1. new \in Snapshot
  BY DEF RecordSolarError, Snapshot
<1>2. /\ new.settings = snap.settings /\ new.aircraft = snap.aircraft
      /\ new.fetched = snap.fetched /\ new.everFetched = snap.everFetched
      /\ new.enrichment = snap.enrichment /\ new.environment = snap.environment
      /\ new.envError = snap.envError /\ new.solar = snap.solar
  BY DEF RecordSolarError, Snapshot
<1>3. AircraftMatchSettings(new)
  BY <1>2 DEF SnapshotOK, AircraftMatchSettings
<1>4. EnrichmentIsDisplayed(new) /\ ProvidersMatchSettings(new) /\ FreshnessIsConsistent(new)
  BY <1>2 DEF SnapshotOK, EnrichmentIsDisplayed, ProvidersMatchSettings, FreshnessIsConsistent
<1>5. QED BY <1>1, <1>3, <1>4 DEF SnapshotOK
====
