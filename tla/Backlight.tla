---- MODULE Backlight ----
(***************************************************************************)
(* BacklightController (src/src/backlight.rs): it takes the panel to the   *)
(* brightness of the display policy along a two-second ramp, and decides   *)
(* which colours the frames have meanwhile: red only once the panel is     *)
(* dim, full colour before it brightens.                                   *)
(*                                                                         *)
(* Two seconds are RampTicks steps of the clock.  A read or a write of a   *)
(* panel that does not work fails and leaves its level as it was.          *)
(***************************************************************************)
EXTENDS Integers

CONSTANTS
  MaxLevel,    \* max_brightness of the device
  RampTicks    \* RAMP_DURATION in steps of the clock

ASSUME BacklightAssumption == MaxLevel \in Nat \ {0} /\ RampTicks \in Nat \ {0}

Levels == 0 .. MaxLevel
Unknown == -1

Colours == {"full", "red"}          \* FrameColorMode

\* What display_policy asks of the panel.
Policies == [percent : 0 .. 100, colour : Colours]

Panels == [level : Levels, works : BOOLEAN]

\* A ramp that is not under way has from = Unknown.
Ramps == [from : Levels \cup {Unknown}, to : Levels, age : 0 .. RampTicks]
NoRamp == [from |-> Unknown, to |-> 0, age |-> 0]

\* present: the device was found when the process started (else NoopBacklight).
Controllers ==
  [ present   : BOOLEAN,
    known     : Levels \cup {Unknown},
    target    : Levels \cup {Unknown},
    ramp      : Ramps,
    requested : Colours \cup {"none"},
    safe      : Colours,
    redAfter  : BOOLEAN ]

NewController(panel) ==
  [ present |-> panel.works, known |-> Unknown, target |-> Unknown, ramp |-> NoRamp,
    requested |-> "none", safe |-> "full", redAfter |-> FALSE ]

PercentToLevel(percent) == (percent * MaxLevel + 50) \div 100

Ramping(ctl) == ctl.ramp.from # Unknown

Complete(ctl) == Ramping(ctl) /\ ctl.ramp.age = RampTicks

Distance(a, b) == IF a < b THEN b - a ELSE a - b

\* LinearRamp::level_at, rounded half up.
LevelAt(r) ==
  LET moved == (Distance(r.from, r.to) * r.age + RampTicks \div 2) \div RampTicks
  IN  IF r.to >= r.from THEN r.from + moved ELSE r.from - moved

Interpolated(ctl) == IF Ramping(ctl) THEN LevelAt(ctl.ramp) ELSE ctl.known

\* Aim gives a ramp up when its new target is the level the ramp has come to.
\* If that level was never written, nothing takes the panel there any more.
Stranded(ctl) == ctl.target # Unknown /\ ctl.known # ctl.target /\ ~Ramping(ctl)

\* Mutant: red at once, whatever the brightness.
RequestRedNow(ctl, colour) ==
  [ctl EXCEPT !.requested = colour, !.safe = colour, !.redAfter = FALSE]

\* apply_color_request: the first policy and full colour take effect at once,
\* red when the ramp that goes with it is over.
Request(ctl, colour) ==
  LET c == [ctl EXCEPT !.requested = colour]
  IN  IF ctl.requested = "none" \/ colour = "full"
      THEN [c EXCEPT !.safe = colour, !.redAfter = FALSE]
      ELSE [c EXCEPT !.redAfter = @ \/ ctl.requested # "red"]

\* Mutant: the colours wait for a panel that does not answer.
Wait(ctl, colour) == ctl

\* failed_update: with no dimming to wait for, red is shown at once.
Failed(ctl, colour) ==
  IF colour = "red" THEN [ctl EXCEPT !.safe = "red", !.redAfter = FALSE] ELSE ctl

\* A new target starts a ramp from wherever the old one is.
Aim(ctl, policy, first) ==
  LET target == PercentToLevel(policy.percent)
      start  == Interpolated(ctl)
  IN  IF ctl.target = target THEN ctl
      ELSE [ctl EXCEPT
             !.target   = target,
             !.ramp     = IF start = target THEN NoRamp
                          ELSE [from |-> start, to |-> target, age |-> 0],
             !.redAfter = @ \/ (ctl.safe = "full" /\ policy.colour = "red" /\ ~first)]

\* After the write: a ramp that has run its time ends, red that waited comes.
Settle(ctl) ==
  LET c == IF Complete(ctl) THEN [ctl EXCEPT !.ramp = NoRamp] ELSE ctl
  IN  IF c.redAfter /\ ~Ramping(c) THEN [c EXCEPT !.safe = "red", !.redAfter = FALSE] ELSE c

Fails(ctl, panel, policy) ==
  [ctl |-> Failed(ctl, policy.colour), panel |-> panel, ok |-> FALSE]

\* The level of the ramp is written when it is not the one known.
Drive(ctl, panel, policy) ==
  LET level == Interpolated(ctl)
  IN  IF ctl.known # level /\ ~panel.works THEN Fails(ctl, panel, policy)
      ELSE [ ctl   |-> Settle([ctl EXCEPT !.known = level]),
             panel |-> IF ctl.known = level THEN panel ELSE [panel EXCEPT !.level = level],
             ok    |-> TRUE ]

Learn(ctl, panel) == IF ctl.known = Unknown THEN [ctl EXCEPT !.known = panel.level] ELSE ctl

\* BacklightController::update, from a controller and a panel to its outcomes
\* (there is one).
Updates(ctl, panel, policy) ==
  UNION { IF ~asked.present \/ (asked.known = Unknown /\ ~panel.works)
          THEN {Fails(asked, panel, policy)}
          ELSE {Drive(aimed, panel, policy) :
                  aimed \in {Aim(Learn(asked, panel), policy, ctl.requested = "none")}} :
          asked \in {Request(ctl, policy.colour)} }

\* The clock moves a ramp on.
Age(ctl) ==
  IF Ramping(ctl) /\ ctl.ramp.age < RampTicks THEN [ctl EXCEPT !.ramp.age = @ + 1] ELSE ctl
====
