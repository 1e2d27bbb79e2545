---- MODULE MCRuntime ----
(***************************************************************************)
(* Small instances of Runtime: one or two locations (home and cabin share  *)
(* their coordinates), two ranges, two altitude filters, one aircraft in   *)
(* each range and altitude band.  Each configuration composes the workers  *)
(* its question is about.                                                  *)
(***************************************************************************)
EXTENDS Runtime

CONSTANTS home, cabin, away, low, high, near, far

MCPlaceOf == [l \in Locations |-> IF l = cabin THEN home ELSE l]
MCKeyOf == [a \in Sightings |-> a]
MCTraffic == [l \in Locations |-> [r \in Ranges |-> IF r = 0 THEN {near} ELSE Sightings]]
MCAllows == [f \in Filters |-> IF f = low THEN {near} ELSE Sightings]
MCDistance == [a \in Sightings |-> IF a = near THEN 1 ELSE 2]

Want(l, r, f, needs, weatherOn, nightOn) ==
  [ location |-> l, range |-> r, filter |-> f, needs |-> needs,
    weather |-> weatherOn, night |-> nightOn ]

Query3(l, r, f) == Want(l, r, f, {}, FALSE, FALSE)

MCFactory == Query3(NoLocation, NumRanges - 1, high)

\* What the forms ask for, by configuration.
AdsbEdits == {Query3(home, 0, low), Query3(home, 1, high), Query3(away, 1, low)}
FlightEdits == {Want(home, 0, high, {"route"}, FALSE, FALSE), Want(home, 0, high, {}, FALSE, FALSE)}
WeatherEdits == {Want(l, 1, high, {}, w, FALSE) : l \in {home, away}, w \in BOOLEAN}
SolarEdits == {Want(l, 1, high, {}, FALSE, n) : l \in Locations, n \in BOOLEAN}
AllEdits == {Want(home, 0, high, {"route"}, TRUE, TRUE)}
ServedEdits == {Query3(home, 0, high), Query3(home, 1, low)}

WholeForm == {Fields}
AnyForm == {{"location"}, Fields}
====
