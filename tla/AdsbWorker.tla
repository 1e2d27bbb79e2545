---- MODULE AdsbWorker ----
(***************************************************************************)
(* The ADS-B worker of src/src/runtime.rs: drain the channel, read the     *)
(* snapshot, fetch for its query, drain again, record the answer if the    *)
(* query is still the configured one, wait.  The waits (3 s, 30 s and the  *)
(* failure back-off) are waits of an arbitrary length; a message, the stop *)
(* flag or the time-out ends them.                                         *)
(***************************************************************************)
EXTENDS SettingsService

VARIABLE adsb    \* [pc, query]

NoQuery == [location |-> NoLocation, range |-> 0, filter |-> FactorySettings.filter]

AdsbStart(pc) == [pc |-> pc, query |-> NoQuery]

AdsbTypeOK ==
  adsb \in [ pc    : {"top", "read", "fetch", "answered", "failed", "wait", "done"},
             query : {Query(s) : s \in Settings} ]

AdsbGoto(pc) == adsb' = [adsb EXCEPT !.pc = pc]

AdsbOnly == UNCHANGED <<snapshot, settingsFile, solarFile, client, stop, main, restarts>>

\* drain_commands at the head of the loop.
AdsbTop ==
  /\ adsb.pc = "top"
  /\ IF stop
     THEN adsb' = AdsbStart("done") /\ UNCHANGED inbox
     ELSE AdsbGoto("read") /\ inbox' = [inbox EXCEPT !["adsb"] = FALSE]
  /\ AdsbOnly

\* Mutant: a query once read is kept.
AdsbReadOnce ==
  /\ adsb.pc = "read"
  /\ LET query == IF adsb.query = NoQuery THEN Query(snapshot.settings) ELSE adsb.query
     IN  adsb' = [query |-> query, pc |-> IF query.location = NoLocation THEN "wait" ELSE "fetch"]
  /\ UNCHANGED inbox
  /\ AdsbOnly

\* The snapshot read; without a location there is nothing to fetch.
AdsbRead ==
  /\ adsb.pc = "read"
  /\ adsb' = [ query |-> Query(snapshot.settings),
               pc |-> IF snapshot.settings.location = NoLocation THEN "wait" ELSE "fetch" ]
  /\ UNCHANGED inbox
  /\ AdsbOnly

\* The fetch ends, well or not, and the channel is drained.
AdsbFetch ==
  /\ adsb.pc = "fetch"
  /\ IF stop
     THEN adsb' = AdsbStart("done") /\ UNCHANGED inbox
     ELSE /\ \E pc \in {"answered", "failed"} : AdsbGoto(pc)
          /\ inbox' = [inbox EXCEPT !["adsb"] = FALSE]
  /\ AdsbOnly

\* record_aircraft_if_query.
AdsbRecord ==
  /\ adsb.pc = "answered"
  /\ \/ /\ QueryIsCurrent(snapshot, adsb.query)
        /\ \E a \in Answers(adsb.query) : snapshot' = RecordAircraft(snapshot, a)
        /\ AdsbGoto("wait")
     \/ /\ ~QueryIsCurrent(snapshot, adsb.query)
        /\ AdsbGoto("top")
        /\ UNCHANGED snapshot
  /\ UNCHANGED <<settingsFile, solarFile, client, inbox, stop, main, restarts>>

\* record_adsb_error_if_query.
AdsbFail ==
  /\ adsb.pc = "failed"
  /\ IF QueryIsCurrent(snapshot, adsb.query)
     THEN AdsbGoto("wait") /\ snapshot' = RecordAdsbError(snapshot)
     ELSE AdsbGoto("top") /\ UNCHANGED snapshot
  /\ UNCHANGED <<settingsFile, solarFile, client, inbox, stop, main, restarts>>

\* Mutant: the worker blocks in recv without looking at the stop flag.
AdsbWakeByMessage ==
  /\ adsb.pc = "wait" /\ inbox["adsb"]
  /\ AdsbGoto("top")
  /\ inbox' = [inbox EXCEPT !["adsb"] = FALSE]
  /\ AdsbOnly

\* wait_for_command: a message, the time-out or the stop flag.  (What a
\* message leaves queued is drained in the next step.)
AdsbWake ==
  /\ adsb.pc = "wait"
  /\ IF stop
     THEN adsb' = AdsbStart("done") /\ UNCHANGED inbox
     ELSE AdsbGoto("top") /\ inbox' = [inbox EXCEPT !["adsb"] = FALSE]
  /\ AdsbOnly

AdsbStep == AdsbTop \/ AdsbRead \/ AdsbFetch \/ AdsbRecord \/ AdsbFail \/ AdsbWake

----
\* Asleep, with no message queued or about to be sent: then the worker has
\* tried the query that is configured now.  (A lost wake-up would leave the
\* display empty until the time-out.)
AdsbSleepsInformed ==
  adsb.pc = "wait" /\ ~inbox["adsb"] /\ ~NotifyPending("adsb")
    => QueryIsCurrent(snapshot, adsb.query)
====
