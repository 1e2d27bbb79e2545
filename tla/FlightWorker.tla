---- MODULE FlightWorker ----
(***************************************************************************)
(* The ADSBDB enrichment worker (src/src/runtime/flight_worker.rs).  Each  *)
(* round publishes what its cache knows about the displayed aircraft, one  *)
(* by one, then looks up the nearest aircraft the cache does not cover.    *)
(* The snapshot it works from ages meanwhile: record_enrichment_if_current *)
(* decides what may still be published.                                    *)
(*                                                                         *)
(* Only "the cache holds an answer for this field of this identity" is     *)
(* kept of EnrichmentCache; entries expire or are evicted at any reading   *)
(* of the clock.                                                           *)
(***************************************************************************)
EXTENDS SettingsService

CONSTANT Distance    \* of a sighting from the configured location

ASSUME FlightAssumption == Distance \in [Sightings -> Nat]

VARIABLE flight

NoTarget == [aircraft |-> "none", needs |-> {}]

Target == [aircraft : Sightings, needs : Needs] \cup {NoTarget}

FlightStart(pc) ==
  [ pc |-> pc, location |-> NoLocation, needs |-> {}, aircraft |-> {}, todo |-> {},
    target |-> NoTarget, changed |-> FALSE, backoff |-> NoTarget,
    cache |-> [k \in Keys |-> {}] ]

FlightTypeOK ==
  flight \in [ pc       : {"top", "read", "scan", "lookup", "answered", "failed", "wait", "done"},
               location : Locations \cup {NoLocation},
               needs    : Needs,
               aircraft : SUBSET Sightings,   \* of the snapshot it works from
               todo     : SUBSET Sightings,   \* not resolved yet in this round
               target   : Target,             \* aircraft and pending fields looked up
               changed  : BOOLEAN,            \* CommandDrain::Changed after the lookup
               backoff  : Target,             \* the lookup that failed last
               cache    : [Keys -> Needs] ]

FlightOnly == UNCHANGED <<snapshot, settingsFile, solarFile, client, stop, main, restarts>>

FlightRest == UNCHANGED <<settingsFile, solarFile, client, inbox, stop, main, restarts>>

Pending(cache, a, needs) == needs \ cache[KeyOf[a]]

\* publish_if_current, for fields of an aircraft.
PublishEnrichment(a, fields) ==
  IF EnrichmentIsCurrent(snapshot, flight.location, flight.needs)
  THEN RecordEnrichment(snapshot, KeyOf[a], fields)
  ELSE snapshot

FlightTop ==
  /\ flight.pc = "top"
  /\ IF stop
     THEN flight' = FlightStart("done") /\ UNCHANGED inbox
     ELSE /\ flight' = [flight EXCEPT !.pc = "read"]
          /\ inbox' = [inbox EXCEPT !["flight"] = FALSE]
  /\ FlightOnly

\* The snapshot and the clock are read; entries of the cache may have expired.
FlightRead ==
  /\ flight.pc = "read"
  /\ \E cache \in [Keys -> Needs] :
       LET s == snapshot.settings
           idle == s.location = NoLocation \/ s.needs = {}
       IN  /\ \A k \in Keys : cache[k] \subseteq flight.cache[k]
           /\ idle => cache = flight.cache
           /\ flight' = [ flight EXCEPT
                !.pc = IF idle THEN "wait" ELSE "scan",
                !.location = s.location, !.needs = s.needs,
                !.aircraft = IF idle THEN {} ELSE snapshot.aircraft,
                !.todo = IF idle THEN {} ELSE snapshot.aircraft,
                !.backoff = IF idle THEN NoTarget ELSE @, !.cache = cache ]
  /\ UNCHANGED inbox /\ FlightOnly

\* One aircraft of the round: published when at least one field is cached.
FlightScan ==
  /\ flight.pc = "scan"
  /\ \E a \in flight.todo :
       LET pending == Pending(flight.cache, a, flight.needs)
       IN  /\ flight' = [flight EXCEPT !.todo = @ \ {a}]
           /\ snapshot' = IF pending # flight.needs
                          THEN PublishEnrichment(a, flight.needs \ pending)
                          ELSE snapshot
  /\ FlightRest

Candidates == {a \in flight.aircraft : Pending(flight.cache, a, flight.needs) # {}}

\* The nearest aircraft with a pending field; none: wait.  The lookup that
\* failed last waits for its deadline, others in the round wait behind it.
FlightChoose ==
  /\ flight.pc = "scan" /\ flight.todo = {}
  /\ \/ /\ Candidates = {}
        /\ flight' = [flight EXCEPT !.pc = "wait", !.aircraft = {}, !.backoff = NoTarget]
     \/ \E a \in Candidates :
          LET target == [aircraft |-> a, needs |-> Pending(flight.cache, a, flight.needs)]
              failedLast == /\ flight.backoff # NoTarget
                            /\ flight.backoff.needs = target.needs
                            /\ KeyOf[flight.backoff.aircraft] = KeyOf[a]
          IN  /\ \A b \in Candidates : Distance[a] <= Distance[b]
              /\ \/ flight' = [flight EXCEPT !.pc = "lookup", !.target = target, !.aircraft = {}]
                 \/ failedLast /\ flight' = [flight EXCEPT !.pc = "wait", !.aircraft = {}]
  /\ UNCHANGED inbox /\ FlightOnly

FlightLookup ==
  /\ flight.pc = "lookup"
  /\ IF stop
     THEN flight' = FlightStart("done") /\ UNCHANGED inbox
     ELSE /\ \E pc \in {"answered", "failed"} :
               flight' = [flight EXCEPT !.pc = pc, !.changed = inbox["flight"]]
          /\ inbox' = [inbox EXCEPT !["flight"] = FALSE]
  /\ FlightOnly

\* The answer enters the cache; it is published unless settings changed.
FlightAnswer ==
  /\ flight.pc = "answered"
  /\ LET key   == KeyOf[flight.target.aircraft]
         known == flight.cache[key] \cup flight.target.needs
     IN  /\ flight' = [ flight EXCEPT !.pc = IF flight.changed THEN "top" ELSE "wait",
                        !.cache[key] = known, !.target = NoTarget,
                        !.backoff = NoTarget, !.changed = FALSE ]
         /\ snapshot' = IF flight.changed THEN snapshot
                        ELSE PublishEnrichment(flight.target.aircraft, flight.needs \cap known)
  /\ FlightRest

\* The failed lookup is remembered; settings that changed start over at once.
FlightFail ==
  /\ flight.pc = "failed"
  /\ flight' = [ flight EXCEPT !.pc = IF flight.changed THEN "top" ELSE "wait",
                 !.backoff = flight.target, !.target = NoTarget, !.changed = FALSE ]
  /\ UNCHANGED inbox /\ FlightOnly

FlightWake ==
  /\ flight.pc = "wait"
  /\ IF stop
     THEN flight' = FlightStart("done") /\ UNCHANGED inbox
     ELSE /\ flight' = [flight EXCEPT !.pc = "top"]
          /\ inbox' = [inbox EXCEPT !["flight"] = FALSE]
  /\ FlightOnly

FlightStep ==
  \/ FlightTop \/ FlightRead \/ FlightScan \/ FlightChoose
  \/ FlightLookup \/ FlightAnswer \/ FlightFail \/ FlightWake

\* Asleep, with no message queued or about to be sent, the last round used
\* the location and the needs that are configured now.
FlightSleepsInformed ==
  flight.pc = "wait" /\ ~inbox["flight"] /\ ~NotifyPending("flight")
    => EnrichmentIsCurrent(snapshot, flight.location, flight.needs)
====
