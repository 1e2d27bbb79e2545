---- MODULE SolarWorker ----
(***************************************************************************)
(* The sunset worker (src/src/runtime/solar_worker.rs): one successful     *)
(* fetch per local day for the configured coordinates while night mode is  *)
(* on, cached in solar-schedule.json.  today stands for "the local day of  *)
(* the schedule is in successful_local_days"; a new day clears it.         *)
(***************************************************************************)
EXTENDS SettingsService

VARIABLE solar   \* [pc, active, today]

SolarStart(pc) == [pc |-> pc, active |-> NoPlace, today |-> FALSE]

SolarTypeOK ==
  solar \in [ pc     : {"top", "read", "load", "check", "fetch", "answered", "recheck",
                        "failed", "wait", "done"},
              active : Places \cup {NoPlace},     \* active_location, by coordinates
              today  : BOOLEAN ]

SolarOnly == UNCHANGED <<snapshot, settingsFile, solarFile, client, stop, main, restarts>>

SolarGoto(pc) == solar' = [solar EXCEPT !.pc = pc]

SolarTop ==
  /\ solar.pc = "top"
  /\ IF stop
     THEN solar' = SolarStart("done") /\ UNCHANGED inbox
     ELSE SolarGoto("read") /\ inbox' = [inbox EXCEPT !["solar"] = FALSE]
  /\ SolarOnly

\* The snapshot: new coordinates forget the days already fetched; night mode
\* off keeps them.  A missing schedule is looked up in the cache.
SolarRead ==
  /\ solar.pc = "read"
  /\ LET s     == snapshot.settings
         place == PlaceOfSettings(s)
     IN  solar' = [ active |-> place,
                    today  |-> solar.today /\ place = solar.active /\ place # NoPlace,
                    pc     |-> IF place = NoPlace \/ ~s.night THEN "wait"
                               ELSE IF snapshot.solar = NoPlace THEN "load" ELSE "check" ]
  /\ UNCHANGED inbox /\ SolarOnly

\* load_cache, which finds nothing in a file that cannot be read or is
\* damaged, then record_solar_schedule_if_current.
SolarLoad ==
  /\ solar.pc = "load"
  /\ SolarGoto("check")
  /\ \/ UNCHANGED snapshot
     \/ /\ solarFile = solar.active /\ SolarIsCurrent(snapshot, solar.active)
        /\ snapshot' = RecordSolar(snapshot, solar.active)
  /\ UNCHANGED <<settingsFile, solarFile, client, inbox, stop, main, restarts>>

\* Already fetched on this local day, or not (a day may have begun).
SolarCheck ==
  /\ solar.pc = "check"
  /\ \/ snapshot.solar # NoPlace /\ solar.today /\ SolarGoto("wait")
     \/ solar' = [solar EXCEPT !.pc = "fetch", !.today = FALSE]
  /\ UNCHANGED inbox /\ SolarOnly

SolarFetch ==
  /\ solar.pc = "fetch"
  /\ IF stop
     THEN solar' = SolarStart("done") /\ UNCHANGED inbox
     ELSE /\ \E pc \in {"answered", "failed"} : SolarGoto(pc)
          /\ inbox' = [inbox EXCEPT !["solar"] = FALSE]
  /\ SolarOnly

\* persist_and_record_solar_schedule_if_current: under the model's write lock
\* the schedule is saved first and published second.  A schedule equal to the
\* published one is saved but not published again, and looked up once more.
SolarSave ==
  /\ solar.pc = "answered"
  /\ SolarIsCurrent(snapshot, solar.active)
  /\ solarFile' = solar.active
  /\ \/ /\ snapshot' = RecordSolar(snapshot, solar.active)
        /\ solar' = [solar EXCEPT !.pc = "top", !.today = TRUE]
     \/ /\ snapshot.solar = solar.active /\ ~snapshot.solarError
        /\ SolarGoto("recheck") /\ UNCHANGED snapshot
  /\ UNCHANGED <<settingsFile, client, inbox, stop, main, restarts>>

\* Mutant: the schedule is published although it could not be saved.
SolarSaveIgnored ==
  /\ solar.pc = "answered"
  /\ SolarIsCurrent(snapshot, solar.active)
  /\ snapshot' = RecordSolar(snapshot, solar.active)
  /\ solar' = [solar EXCEPT !.pc = "top", !.today = TRUE]
  /\ UNCHANGED <<settingsFile, solarFile, client, inbox, stop, main, restarts>>

\* save_cache fails, before or after its rename.
SolarSaveFails ==
  /\ solar.pc = "answered"
  /\ SolarIsCurrent(snapshot, solar.active)
  /\ solarFile' \in {solarFile, solar.active}
  /\ SolarGoto("failed")
  /\ UNCHANGED <<snapshot, settingsFile, client, inbox, stop, main, restarts>>

\* Not current: persist_if_current looks at the snapshot again.
SolarDrop ==
  /\ solar.pc = "answered"
  /\ ~SolarIsCurrent(snapshot, solar.active)
  /\ SolarGoto("recheck")
  /\ UNCHANGED inbox /\ SolarOnly

\* Nothing was published: the day counts all the same when the schedule is there.
SolarRecheck ==
  /\ solar.pc = "recheck"
  /\ solar' = [solar EXCEPT !.pc = "top", !.today = @ \/ snapshot.solar = solar.active]
  /\ UNCHANGED inbox /\ SolarOnly

\* publish_failure: a failure for the current coordinates is shown and backed
\* off from; any other starts the loop over.
SolarFail ==
  /\ solar.pc = "failed"
  /\ IF SolarIsCurrent(snapshot, solar.active)
     THEN SolarGoto("wait") /\ snapshot' = RecordSolarError(snapshot)
     ELSE SolarGoto("top") /\ UNCHANGED snapshot
  /\ UNCHANGED <<settingsFile, solarFile, client, inbox, stop, main, restarts>>

SolarWake ==
  /\ solar.pc = "wait"
  /\ IF stop
     THEN solar' = SolarStart("done") /\ UNCHANGED inbox
     ELSE SolarGoto("top") /\ inbox' = [inbox EXCEPT !["solar"] = FALSE]
  /\ SolarOnly

SolarStep ==
  \/ SolarTop \/ SolarRead \/ SolarLoad \/ SolarCheck \/ SolarFetch \/ SolarSave
  \/ SolarSaveFails \/ SolarDrop \/ SolarRecheck \/ SolarFail \/ SolarWake

\* Asleep, with no message queued or about to be sent, while night mode wants
\* a sunset: there is a schedule or a recorded failure.
SolarSleepsInformed ==
  solar.pc = "wait" /\ ~inbox["solar"] /\ ~NotifyPending("solar")
  /\ snapshot.settings.night /\ snapshot.settings.location # NoLocation
    => snapshot.solar # NoPlace \/ snapshot.solarError

\* The sunset the display uses survives a restart, as long as the cache can be
\* read: it is the cached one.
SunsetIsCached == snapshot.solar # NoPlace => solarFile = snapshot.solar
====
