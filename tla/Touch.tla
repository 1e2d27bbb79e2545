---- MODULE Touch ----
(***************************************************************************)
(* GestureRecognizer (src/src/touch.rs): one pointer at a time is followed *)
(* from its press to its release and becomes a tap, a long press or        *)
(* nothing.  The two durations it compares with are Booleans that time     *)
(* sets and clears: held (three seconds since the press) and recent (less  *)
(* than 250 ms since the last release).                                    *)
(***************************************************************************)
CONSTANTS
  Fingers,    \* SDL finger identities; the mouse is finger 0
  NoFinger    \* active = None

ASSUME TouchAssumption == NoFinger \notin Fingers

\* far is ActivePointer.cancelled, fired its long_press_fired.
Recognizers ==
  [ active : Fingers \cup {NoFinger},
    far    : BOOLEAN,
    fired  : BOOLEAN,
    held   : BOOLEAN,
    recent : BOOLEAN ]

Untouched ==
  [active |-> NoFinger, far |-> FALSE, fired |-> FALSE, held |-> FALSE, recent |-> FALSE]

\* A second finger is ignored while one is followed.
Press(rec, f) ==
  IF rec.active = NoFinger THEN [Untouched EXCEPT !.active = f, !.recent = rec.recent] ELSE rec

\* More than 18 pixels from where it went down, however it comes back.
Move(rec, f, tooFar) == IF rec.active = f THEN [rec EXCEPT !.far = @ \/ tooFar] ELSE rec

Release(rec, f) == IF rec.active = f THEN [Untouched EXCEPT !.recent = TRUE] ELSE rec

\* Mutant: the release of a long press counts as a tap as well.
TapsAnyway(rec, f, tooFar) == rec.active = f /\ ~rec.far /\ ~tooFar /\ ~rec.recent

\* Whether that release is a tap.
Taps(rec, f, tooFar) ==
  rec.active = f /\ ~rec.far /\ ~tooFar /\ ~rec.fired /\ ~rec.recent

\* tick: the long press fires on the first frame that finds the finger held.
LongPressDue(rec) == rec.active # NoFinger /\ ~rec.far /\ ~rec.fired /\ rec.held

Fire(rec) == [rec EXCEPT !.fired = TRUE]

\* What the clock may do between two frames.
TimePasses(rec) ==
  {[rec EXCEPT !.recent = FALSE]} \cup
  (IF rec.active = NoFinger THEN {} ELSE {[rec EXCEPT !.held = TRUE]})
====
