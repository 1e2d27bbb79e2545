---- MODULE MCDisplay ----
(***************************************************************************)
(* Small instances of Display.  Each scenario lets some parts of the       *)
(* environment move, so that the state spaces add instead of multiply.     *)
(***************************************************************************)
EXTENDS Display

CONSTANTS home, away, near, far, high

MCPlaceOf == [l \in Locations |-> l]
MCKeyOf == [a \in Sightings |-> a]
MCTraffic == [l \in Locations |-> [r \in Ranges |-> IF r = 0 THEN {near} ELSE Sightings]]
MCAllows == [f \in Filters |-> Sightings]

Saved(l, w, n) ==
  [ location |-> l, range |-> 0, filter |-> high, needs |-> {}, weather |-> w, night |-> n ]

MCEdits == {Saved(NoLocation, FALSE, FALSE), Saved(home, TRUE, TRUE), Saved(away, TRUE, FALSE)}

Clocked == [day |-> 100, night |-> 30, red |-> TRUE,  clock |-> TRUE]
Plainly == [day |-> 60,  night |-> 30, red |-> FALSE, clock |-> FALSE]

Dusky   == [day |-> 60,  night |-> 50, red |-> TRUE,  clock |-> FALSE]

Plain == [ start |-> 4, sunrise |-> [d \in Dates |-> 2], shift |-> [at |-> 0, by |-> 0] ]

\* Every pattern of sunrises that exist or not, every start, and a change of
\* offset in the night, before noon and in the evening of the second day.
Skies ==
  { [ start |-> s, sunrise |-> r, shift |-> t ] :
      s \in 0 .. Slots - 1, r \in [Dates -> {NoSunrise, 2}],
      t \in {[at |-> 0, by |-> 0]} \cup
            [at : {Slots + 1, Slots + 3, 2 * Slots - 1}, by : {-1, 1}] }

Dim == [level |-> 1, works |-> TRUE]
Lit == [level |-> MaxLevel, works |-> TRUE]
Broken == [level |-> MaxLevel, works |-> FALSE]

Scene0(moves) ==
  [ moves |-> moves, runs |-> TRUE, edits |-> MCEdits, looks |-> {Clocked},
    panels |-> {Lit}, almanacs |-> {Plain}, moments |-> {Slots + 3} ]

MCWorld ==
  [ sky     |-> [ Scene0({"sky"}) EXCEPT !.runs = FALSE, !.edits = {Saved(home, FALSE, FALSE)},
                    !.almanacs = Skies, !.moments = 0 .. Days * Slots ],
    touch   |-> [ Scene0({"touch", "feed"}) EXCEPT !.edits = {Saved(home, FALSE, FALSE)} ],
    feed    |-> Scene0({"feed", "age", "form", "minute"}),
    weather |-> Scene0({"weather", "age", "form"}),
    setup   |-> Scene0({"touch", "form"}),
    light   |-> [ Scene0({"light", "sky", "restart"}) EXCEPT
                    !.edits = {Saved(home, FALSE, TRUE)}, !.looks = {Clocked, Plainly, Dusky},
                    !.panels = {Dim, Broken}, !.moments = {Slots + 3, Slots + 5} ] ]
====
