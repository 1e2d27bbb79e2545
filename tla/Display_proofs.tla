---- MODULE Display_proofs ----
(***************************************************************************)
(* What the display promises for any settings, any aircraft, any panel and *)
(* any number of gestures and restarts: a frame that is not redrawn is     *)
(* current, old aircraft are labelled, a long press does not close what it *)
(* opened, the colours go with the light, and night is what it says, for   *)
(* any almanac.                                                            *)
(***************************************************************************)
EXTENDS Display, RuntimeModel_proofs, WellFoundedInduction

\* A controller and a panel of any level: the promises do not need the bounds.
AnyLevel == Nat \cup {Unknown}

AnyRamp == [from : AnyLevel, to : Nat, age : 0 .. RampTicks]

AnyController ==
  [ present : BOOLEAN, known : AnyLevel, target : AnyLevel, ramp : AnyRamp,
    requested : Colours \cup {"none"}, safe : Colours, redAfter : BOOLEAN ]

AnyPanel == [level : Nat, works : BOOLEAN]

AnyPolicy == [percent : Nat, colour : Colours]

\* Half of the ticks, by which the level of a ramp is rounded.
LEMMA HalfTicks == RampTicks \div 2 \in 0 .. RampTicks - 1 /\ RampTicks \div 2 \in Nat
BY BacklightAssumption

\* Dividing a natural number by a positive one.
LEMMA DivNat ==
  ASSUME NEW m \in Nat, NEW d \in Nat \ {0}
  PROVE  m \div d \in Nat /\ d * (m \div d) <= m /\ m < d * (m \div d) + d
OBVIOUS

LEMMA TimesGrows ==
  ASSUME NEW a \in Nat, NEW b \in Nat, NEW d \in Nat
  PROVE  /\ a <= b => d * a <= d * b
         /\ a < b => d * a + d <= d * b
<1>1. \A k \in Nat : d * k \in Nat
  OBVIOUS
<1>2. CASE a <= b
  <2>1. d * (b - a) >= 0 /\ d * (b - a) = d * b - d * a
    BY <1>1, <1>2
  <2>2. QED BY <1>1, <1>2, <2>1
<1>3. CASE a < b
  <2>1. d * (b - a - 1) >= 0 /\ d * (b - a - 1) = d * b - d * a - d
    BY <1>1, <1>3
  <2>2. QED BY <1>1, <1>2, <1>3, <2>1
<1>4. QED BY <1>2, <1>3

\* What lies below n * d and one d more is divided to n at most, ...
LEMMA DivBelow ==
  ASSUME NEW m \in Nat, NEW n \in Nat, NEW d \in Nat \ {0}, m < d * n + d
  PROVE  m \div d <= n
<1> DEFINE q == m \div d
<1>1. q \in Nat /\ d * q <= m
  BY DivNat
<1> HIDE DEF q
<1>2. d * q \in Nat /\ d * n \in Nat
  BY <1>1
<1>3. ~ (n < q)
  BY <1>1, <1>2, TimesGrows
<1>4. QED BY <1>1, <1>3 DEF q

\* ... and from n * d on to n at least.
LEMMA DivAbove ==
  ASSUME NEW m \in Nat, NEW n \in Nat, NEW d \in Nat \ {0}, d * n <= m
  PROVE  n <= m \div d
<1> DEFINE q == m \div d
<1>1. q \in Nat /\ m < d * q + d
  BY DivNat
<1> HIDE DEF q
<1>2. d * q \in Nat /\ d * n \in Nat
  BY <1>1
<1>3. ~ (q < n)
  BY <1>1, <1>2, TimesGrows
<1>4. QED BY <1>1, <1>3 DEF q

\* LinearRamp::level_at stays between the ends of the ramp, and a ramp that
\* has run its time is at its end (is_complete).
LEMMA RampLevels ==
  ASSUME NEW r \in AnyRamp, r.from # Unknown
  PROVE  LevelAt(r) \in Nat /\ (r.age = RampTicks => LevelAt(r) = r.to)
<1> DEFINE far   == Distance(r.from, r.to)
           m     == far * r.age + RampTicks \div 2
           moved == m \div RampTicks
<1>1. r.from \in Nat /\ r.to \in Nat /\ r.age \in Nat /\ r.age <= RampTicks
  BY BacklightAssumption DEF AnyRamp, AnyLevel
<1>2. far \in Nat
  BY <1>1 DEF Distance
<1>3. far = IF r.from < r.to THEN r.to - r.from ELSE r.from - r.to
  BY DEF Distance
<1> HIDE DEF far
<1>4. /\ far * r.age \in Nat /\ far * RampTicks \in Nat
      /\ far * r.age <= far * RampTicks /\ far * RampTicks = RampTicks * far
  BY <1>1, <1>2, TimesGrows, BacklightAssumption
<1>5. m \in Nat /\ m < RampTicks * far + RampTicks
  BY <1>4, HalfTicks, BacklightAssumption
<1>6. r.age = RampTicks => RampTicks * far <= m
  BY <1>4, HalfTicks
<1> HIDE DEF m
<1>7. moved \in Nat /\ moved <= far /\ (r.age = RampTicks => moved = far)
  BY <1>2, <1>5, <1>6, DivNat, DivBelow, DivAbove, BacklightAssumption
<1>8. LevelAt(r) = IF r.to >= r.from THEN r.from + moved ELSE r.from - moved
  BY DEF LevelAt, moved, m, far
<1> HIDE DEF moved
<1>9. QED BY <1>1, <1>2, <1>3, <1>7, <1>8

\* A ramp that has just begun is where it began.
LEMMA RampBegins ==
  ASSUME NEW from \in Nat, NEW to \in Nat
  PROVE  LevelAt([from |-> from, to |-> to, age |-> 0]) = from
<1>1. Distance(from, to) * 0 = 0
  BY DEF Distance
<1>2. (RampTicks \div 2) \div RampTicks = 0
  BY HalfTicks, BacklightAssumption
<1>3. QED BY <1>1, <1>2, HalfTicks DEF LevelAt

LEMMA InterpolatedType ==
  ASSUME NEW c \in AnyController
  PROVE  /\ Interpolated(c) \in AnyLevel
         /\ Ramping(c) => Interpolated(c) \in Nat
         /\ ~Ramping(c) => Interpolated(c) = c.known
         /\ Complete(c) => Interpolated(c) = c.ramp.to
<1>1. c.ramp \in AnyRamp /\ c.known \in AnyLevel
  BY DEF AnyController
<1>2. QED BY <1>1, RampLevels DEF Interpolated, Ramping, Complete, AnyLevel

\* apply_color_request: the first policy decides the colours, a later one only
\* when it asks for full colour.
LEMMA RequestOutcome ==
  ASSUME NEW c \in AnyController, NEW colour \in Colours
  PROVE  LET r == Request(c, colour)
         IN  /\ r \in AnyController
             /\ r.requested = colour
             /\ r.known = c.known /\ r.ramp = c.ramp /\ r.target = c.target
             /\ r.present = c.present
             /\ c.requested = "none" => r.safe = colour /\ ~r.redAfter
             /\ c.requested # "none" /\ c.safe = "full" => r.safe = "full"
             /\ colour = "full" => ~r.redAfter
BY DEF Request, AnyController, Colours

\* What the controller knows of its panel: it writes nothing before it has
\* read the level, the level it knows is the panel's, and a ramp goes to the
\* target.
Follows(c, p) ==
  /\ c.known = Unknown => c.target = Unknown /\ ~Ramping(c)
  /\ c.known # Unknown => p.level = c.known
  /\ Ramping(c) => c.target = c.ramp.to

\* The target comes midway, between two levels written.
Midway(c, target) == Ramping(c) /\ Interpolated(c) = target /\ c.known # target

LEMMA LearnOutcome ==
  ASSUME NEW c \in AnyController, NEW p \in AnyPanel, Follows(c, p)
  PROVE  LET r == Learn(c, p)
         IN  /\ r \in AnyController /\ Follows(r, p)
             /\ r.requested = c.requested /\ r.safe = c.safe /\ r.redAfter = c.redAfter
             /\ r.known = p.level /\ r.target = c.target /\ r.ramp = c.ramp
             /\ Interpolated(r) \in {Interpolated(c), p.level}
             /\ \A target \in Nat : Midway(r, target) => Midway(c, target)
             /\ r.target # Unknown => r = c
<1>1. p.level \in Nat /\ Unknown \notin Nat
  BY DEF AnyPanel, Unknown
<1>2. CASE c.known = Unknown
  <2>1. Learn(c, p) = [c EXCEPT !.known = p.level]
    BY <1>2 DEF Learn
  <2>2. ~Ramping(c) /\ c.target = Unknown
    BY <1>2 DEF Follows
  <2>3. QED BY <1>1, <2>1, <2>2 DEF AnyController, AnyLevel, Follows, Ramping, Interpolated, Midway
<1>3. CASE c.known # Unknown
  <2>1. Learn(c, p) = c
    BY <1>3 DEF Learn
  <2>2. QED BY <1>3, <2>1 DEF Follows
<1>4. QED BY <1>2, <1>3

LEMMA TargetType == ASSUME NEW policy \in AnyPolicy PROVE PercentToLevel(policy.percent) \in Nat
<1>1. policy.percent * MaxLevel \in Nat
  BY BacklightAssumption DEF AnyPolicy
<1>2. QED BY <1>1, DivNat DEF PercentToLevel

\* A new target begins at the level where the old ramp is, and red waits for
\* it unless this is the first policy.
LEMMA AimOutcome ==
  ASSUME NEW c \in AnyController, NEW p \in AnyPanel, Follows(c, p), c.known # Unknown,
         NEW policy \in AnyPolicy, NEW first \in BOOLEAN
  PROVE  LET r      == Aim(c, policy, first)
             target == PercentToLevel(policy.percent)
         IN  /\ r \in AnyController /\ Follows(r, p)
             /\ r.requested = c.requested /\ r.safe = c.safe /\ r.known = c.known
             /\ r.target = target
             /\ first \/ policy.colour = "full" => r.redAfter = c.redAfter
             /\ Interpolated(r) \in {Interpolated(c), c.known}
             /\ Stranded(r) => Stranded(c) \/ Midway(c, target)
<1> DEFINE target == PercentToLevel(policy.percent)
           start  == Interpolated(c)
           ramp   == IF start = target THEN NoRamp ELSE [from |-> start, to |-> target, age |-> 0]
           red    == c.redAfter \/ (c.safe = "full" /\ policy.colour = "red" /\ ~first)
           new    == [c EXCEPT !.target = target, !.ramp = ramp, !.redAfter = red]
<1>1. target \in Nat /\ start \in Nat /\ Unknown \notin Nat
  BY TargetType, InterpolatedType DEF AnyController, AnyLevel, Unknown
<1>2. CASE c.target = target
  BY <1>2 DEF Aim
<1>3. CASE c.target # target
  <2>1. Aim(c, policy, first) = new
    BY <1>3 DEF Aim
  <2> HIDE DEF target, start
  <2>2. ramp \in AnyRamp /\ red \in BOOLEAN
    BY <1>1, BacklightAssumption DEF AnyRamp, NoRamp, AnyLevel, AnyController
  <2>3. /\ new \in AnyController
        /\ new.requested = c.requested /\ new.safe = c.safe /\ new.known = c.known
        /\ new.ramp = ramp /\ new.redAfter = red /\ new.target = target
    BY <1>1, <2>2 DEF AnyController, AnyLevel
  <2>4. CASE start = target
    <3>1. ~Ramping(new) /\ Interpolated(new) = c.known
      BY <2>3, <2>4 DEF Ramping, NoRamp, Interpolated
    <3>2. Follows(new, p)
      BY <2>3, <3>1 DEF Follows
    <3>3. Stranded(new) => Midway(c, target)
      <4>1. ASSUME c.known # target PROVE Ramping(c)
        BY <2>4, <4>1, InterpolatedType DEF start
      <4>2. QED BY <2>3, <2>4, <4>1 DEF Stranded, Midway, start
    <3>4. first \/ policy.colour = "full" => red = c.redAfter
      BY DEF AnyController
    <3>5. QED BY <2>1, <2>3, <3>1, <3>2, <3>3, <3>4 DEF target, start
  <2>5. CASE start # target
    <3>1. new.ramp = [from |-> start, to |-> target, age |-> 0]
      BY <2>3, <2>5
    <3>2. Ramping(new) /\ Interpolated(new) = start
      BY <1>1, <3>1, RampBegins DEF Ramping, Interpolated
    <3>3. Follows(new, p) /\ ~Stranded(new)
      BY <2>3, <3>1, <3>2 DEF Follows, Stranded
    <3>4. first \/ policy.colour = "full" => red = c.redAfter
      BY DEF AnyController
    <3>5. QED BY <2>1, <2>3, <3>2, <3>3, <3>4 DEF target, start
  <2>6. QED BY <2>4, <2>5
<1>4. QED BY <1>2, <1>3

\* After the write: red comes only when no ramp is under way, on the target or
\* on a panel already stranded.
LEMMA SettleOutcome ==
  ASSUME NEW c \in AnyController, NEW p \in AnyPanel, Follows(c, p), c.known # Unknown,
         c.target # Unknown, Complete(c) => c.known = c.target
  PROVE  LET r == Settle(c)
         IN  /\ r \in AnyController /\ Follows(r, p)
             /\ r.requested = c.requested
             /\ ~c.redAfter => r.safe = c.safe
             /\ c.safe = "full" /\ r.safe = "red" => c.known = c.target \/ Stranded(r)
             /\ Stranded(r) => Stranded(c)
<1> DEFINE d == IF Complete(c) THEN [c EXCEPT !.ramp = NoRamp] ELSE c
           e == [d EXCEPT !.safe = "red", !.redAfter = FALSE]
<1>1. /\ d \in AnyController /\ d.requested = c.requested /\ d.safe = c.safe
      /\ d.redAfter = c.redAfter /\ d.known = c.known /\ d.target = c.target
      /\ Ramping(d) => d.ramp = c.ramp
  BY BacklightAssumption DEF AnyController, AnyRamp, NoRamp, AnyLevel, Ramping
<1>2. Follows(d, p)
  BY <1>1 DEF Follows, Ramping
<1>3. Stranded(d) => Stranded(c)
  BY <1>1 DEF Stranded
<1>4. /\ e \in AnyController /\ e.requested = d.requested /\ e.ramp = d.ramp
      /\ e.known = d.known /\ e.target = d.target /\ e.safe = "red"
  BY <1>1 DEF AnyController, Colours
<1>5. Follows(e, p) /\ (Stranded(e) <=> Stranded(d))
  BY <1>2, <1>4 DEF Follows, Stranded, Ramping
<1>6. Settle(c) = IF d.redAfter /\ ~Ramping(d) THEN e ELSE d
  BY DEF Settle
<1> HIDE DEF d, e
<1>7. CASE d.redAfter /\ ~Ramping(d)
  <2>1. d.known = d.target \/ Stranded(d)
    BY <1>1, <1>7 DEF Stranded
  <2>2. QED BY <1>1, <1>3, <1>4, <1>5, <1>6, <1>7, <2>1
<1>8. CASE ~(d.redAfter /\ ~Ramping(d))
  BY <1>1, <1>2, <1>3, <1>6, <1>8
<1>9. QED BY <1>7, <1>8

\* BacklightController::update: what each of its outcomes promises.
UpdatePromise(c, p, policy, light) ==
  LET target == PercentToLevel(policy.percent)
  IN  /\ light.ctl \in AnyController /\ light.panel \in AnyPanel /\ light.ok \in BOOLEAN
      /\ Follows(light.ctl, light.panel)
      /\ light.ctl.requested = policy.colour
      /\ c.requested = "none" => light.ctl.safe = policy.colour
      /\ c.requested # "none" /\ c.safe = "full" /\ light.ctl.safe = "red" =>
           ~light.ok \/ light.panel.level = target \/ Stranded(light.ctl)
      /\ light.panel.level \in {p.level, Interpolated(c)}
      /\ Stranded(light.ctl) => Stranded(c) \/ Midway(c, target)

LEMMA UpdateOutcome ==
  ASSUME NEW c \in AnyController, NEW p \in AnyPanel, NEW policy \in AnyPolicy,
         Follows(c, p), NEW light \in Updates(c, p, policy)
  PROVE  UpdatePromise(c, p, policy, light)
<1> DEFINE first   == c.requested = "none"
           asked   == Request(c, policy.colour)
           learned == Learn(asked, p)
           aimed   == Aim(learned, policy, first)
           level   == Interpolated(aimed)
           sent    == [aimed EXCEPT !.known = level]
           target  == PercentToLevel(policy.percent)
<1>1. policy.colour \in Colours /\ target \in Nat /\ p.level \in Nat /\ Unknown \notin Nat
  BY TargetType DEF AnyPolicy, AnyPanel, Unknown
<1>2. /\ asked \in AnyController /\ asked.requested = policy.colour
      /\ asked.known = c.known /\ asked.ramp = c.ramp /\ asked.target = c.target
      /\ first => asked.safe = policy.colour /\ ~asked.redAfter
      /\ ~first /\ c.safe = "full" => asked.safe = "full"
      /\ policy.colour = "full" => ~asked.redAfter
  BY <1>1, RequestOutcome
<1>3. light = Fails(asked, p, policy) \/ light = Drive(aimed, p, policy)
  BY DEF Updates
<1>4. /\ Follows(asked, p) /\ Interpolated(asked) = Interpolated(c)
      /\ Stranded(asked) <=> Stranded(c)
      /\ Midway(asked, target) <=> Midway(c, target)
  BY <1>2 DEF Follows, Ramping, Interpolated, Stranded, Midway
<1>5. /\ learned \in AnyController /\ learned.requested = asked.requested /\ Follows(learned, p)
      /\ learned.safe = asked.safe /\ learned.redAfter = asked.redAfter
      /\ Interpolated(learned) \in {Interpolated(c), p.level}
      /\ learned.known = p.level /\ learned.known # Unknown
      /\ Midway(learned, target) => Midway(c, target)
      /\ learned.target # Unknown => learned = asked
  <2> HIDE DEF asked
  <2> QED BY <1>1, <1>2, <1>4, LearnOutcome
<1>6. Stranded(learned) => Stranded(c)
  BY <1>4, <1>5 DEF Stranded
<1>7. /\ aimed \in AnyController /\ aimed.requested = policy.colour /\ Follows(aimed, p)
      /\ aimed.safe = asked.safe /\ aimed.known = p.level /\ aimed.target = target
      /\ first \/ policy.colour = "full" => ~aimed.redAfter
      /\ level \in {Interpolated(learned), p.level}
      /\ Stranded(aimed) => Stranded(c) \/ Midway(c, target)
  <2> HIDE DEF learned, first
  <2>1. first \in BOOLEAN
    BY DEF first
  <2>2. QED BY <1>2, <1>5, <1>6, <2>1, AimOutcome
<1> HIDE DEF asked, learned, aimed, target
<1>8. level \in Nat /\ (Complete(aimed) => level = target) /\ (~Ramping(aimed) => level = p.level)
  BY <1>1, <1>7, InterpolatedType DEF AnyController, AnyLevel, AnyRamp, Follows, Complete
<1>9. ASSUME NEW a \in AnyController, light = Fails(a, p, policy), Follows(a, p),
             a.requested = policy.colour, a.safe = asked.safe,
             Stranded(a) => Stranded(c) \/ Midway(c, target)
      PROVE  UpdatePromise(c, p, policy, light)
  <2> DEFINE failed == Failed(a, policy.colour)
  <2>1. /\ failed \in AnyController /\ failed.requested = policy.colour
        /\ failed.safe = IF policy.colour = "red" THEN "red" ELSE a.safe
        /\ failed.known = a.known /\ failed.target = a.target /\ failed.ramp = a.ramp
    BY <1>9 DEF Failed, AnyController, Colours
  <2>2. light.ctl = failed /\ light.panel = p /\ light.ok = FALSE
    BY <1>9 DEF Fails
  <2>3. first => failed.safe = policy.colour
    BY <1>1, <1>2, <1>9, <2>1 DEF Colours
  <2> HIDE DEF failed
  <2>4. Follows(failed, p) /\ (Stranded(failed) <=> Stranded(a))
    BY <1>9, <2>1 DEF Follows, Stranded, Ramping
  <2>5. QED BY <1>9, <2>1, <2>2, <2>3, <2>4 DEF UpdatePromise, target
<1>10. CASE light = Drive(aimed, p, policy) /\ ~(aimed.known # level /\ ~p.works)
  <2> DEFINE panel2 == IF aimed.known = level THEN p ELSE [p EXCEPT !.level = level]
  <2>1. light.ctl = Settle(sent) /\ light.panel = panel2 /\ light.ok = TRUE
    BY <1>10 DEF Drive
  <2>2. /\ sent \in AnyController /\ sent.requested = policy.colour /\ sent.known = level
        /\ sent.safe = asked.safe /\ sent.redAfter = aimed.redAfter
        /\ sent.ramp = aimed.ramp /\ sent.target = target
    BY <1>7, <1>8 DEF AnyController, AnyLevel
  <2>3. panel2 \in AnyPanel /\ panel2.level = level
    BY <1>7, <1>8 DEF AnyPanel
  <2> HIDE DEF sent, panel2
  <2>4. /\ Follows(sent, panel2) /\ sent.known # Unknown /\ sent.target # Unknown
        /\ Complete(sent) => sent.known = sent.target
    BY <1>1, <1>7, <1>8, <2>2, <2>3 DEF Follows, Ramping, Complete
  <2>5. Stranded(sent) => Stranded(aimed)
    BY <1>1, <1>7, <1>8, <2>2 DEF Stranded, Ramping
  <2>6. /\ Settle(sent) \in AnyController /\ Settle(sent).requested = policy.colour
        /\ Follows(Settle(sent), panel2)
        /\ ~sent.redAfter => Settle(sent).safe = sent.safe
        /\ sent.safe = "full" /\ Settle(sent).safe = "red" =>
             sent.known = sent.target \/ Stranded(Settle(sent))
        /\ Stranded(Settle(sent)) => Stranded(sent)
    BY <2>2, <2>3, <2>4, SettleOutcome
  <2>7. first => Settle(sent).safe = policy.colour
    BY <1>2, <1>7, <2>2, <2>6
  <2>8. ~first /\ c.safe = "full" => sent.safe = "full"
    BY <1>2, <2>2
  <2>9. panel2.level \in {p.level, Interpolated(c)}
    BY <1>5, <1>7, <2>3
  <2>10. Stranded(Settle(sent)) => Stranded(c) \/ Midway(c, target)
    BY <1>7, <2>5, <2>6
  <2>11. QED BY <2>1, <2>2, <2>3, <2>6, <2>7, <2>8, <2>9, <2>10 DEF UpdatePromise, target
<1>11. CASE light = Fails(asked, p, policy)
  BY <1>2, <1>4, <1>9, <1>11
<1>12. CASE light = Drive(aimed, p, policy) /\ aimed.known # level /\ ~p.works
  <2>1. light = Fails(aimed, p, policy)
    BY <1>12 DEF Drive
  <2>2. QED BY <1>7, <1>9, <2>1
<1>13. QED BY <1>3, <1>10, <1>11, <1>12

----
(* The inductive invariant. *)

\* What a frame of this key shows of this snapshot.
Shows(snap, key) ==
  IF key.page = "Radar"
  THEN [ page       |-> "Radar",
         colour     |-> key.colour,
         aircraft   |-> snap.aircraft,
         background |-> {DrawBackground(snap.settings)},
         footer     |-> IF ~snap.settings.weather THEN "off"
                        ELSE IF snap.environment = NoLocation THEN "WX --"
                        ELSE IF key.environmentStale THEN "WX STALE" ELSE "weather",
         dataStale  |-> key.stale ]
  ELSE SetupScene(key.page, key.colour)

WorldInv == scenario \in Scenarios /\ look \in AllLooks

SnapshotInv == snapshot \in Snapshot /\ SnapshotOK(snapshot)

OpenInv == settingsOpen => Located(snapshot)

BackgroundInv == background # <<>> => background[1].image = background[1].key

\* Whoever changes the snapshot makes it dirty, so that until then the frame
\* is the one its key says.
FrameInv == Drawn /\ ~snapshot.dirty => frame[1].scene = Shows(snapshot, frame[1].key)

\* The frame has the colours of the controller, and there is one as soon as a
\* policy has been requested.
ColourInv ==
  /\ ctl \in AnyController /\ panel \in AnyPanel /\ Follows(ctl, panel)
  /\ Drawn <=> ctl.requested # "none"
  /\ Drawn => frame[1].key.colour = ctl.safe /\ frame[1].scene.colour = ctl.safe

DisplayInv ==
  WorldInv /\ SnapshotInv /\ OpenInv /\ BackgroundInv /\ FrameInv /\ ColourInv

\* A process starts with the settings on file and no data but its schedule.
LEMMA BootOK ==
  ASSUME NEW s \in Settings, NEW snap \in BootSnapshots(s)
  PROVE  snap \in Snapshot /\ SnapshotOK(snap)
<1>1. NewSnapshot(s) \in Snapshot /\ SnapshotOK(NewSnapshot(s))
  BY NewSnapshotOK
<1>2. CASE snap = NewSnapshot(s)
  BY <1>1, <1>2
<1>3. CASE s.night /\ s.location # NoLocation /\ snap = RecordSolar(NewSnapshot(s), PlaceOfSettings(s))
  <2>1. PlaceOfSettings(s) \in Places
    BY <1>3, ModelAssumption DEF PlaceOfSettings, Settings
  <2>2. SolarIsCurrent(NewSnapshot(s), PlaceOfSettings(s))
    BY <1>3 DEF SolarIsCurrent, NewSnapshot, PlaceOfSettings
  <2>3. QED BY <1>1, <1>3, <2>1, <2>2, RecordSolarOK
<1>4. QED BY <1>2, <1>3 DEF BootSnapshots

LEMMA PolicyType == ASSUME look \in AllLooks PROVE Policy \in AnyPolicy
BY DEF Policy, AnyPolicy, AllLooks, Colours

LEMMA NewControllerType ==
  ASSUME NEW p \in AnyPanel
  PROVE  /\ NewController(p) \in AnyController /\ NewController(p).requested = "none"
         /\ \A q : Follows(NewController(p), q)
<1>1. NoRamp \in AnyRamp
  BY BacklightAssumption DEF AnyRamp, NoRamp, AnyLevel
<1>2. QED BY <1>1 DEF NewController, AnyController, AnyLevel, NoRamp, Colours, AnyPanel, Follows,
                      Ramping

LEMMA InitInv == Init => DisplayInv
<1> SUFFICES ASSUME Init PROVE DisplayInv
  OBVIOUS
<1>1. /\ World[scenario].edits \subseteq Settings /\ World[scenario].looks \subseteq AllLooks
      /\ World[scenario].panels \subseteq Panels
  BY WorldAssumption DEF Init
<1>2. WorldInv
  BY <1>1 DEF Init, WorldInv
<1>3. SnapshotInv
  BY <1>1, BootOK DEF Init, SnapshotInv
<1>4. panel \in AnyPanel
  BY <1>1, BacklightAssumption DEF Init, Panels, AnyPanel, Levels
<1>5. ColourInv
  BY <1>4, NewControllerType DEF Init, ColourInv, Drawn
<1>6. OpenInv /\ BackgroundInv /\ FrameInv
  BY DEF Init, OpenInv, BackgroundInv, FrameInv, Drawn
<1>7. QED BY <1>2, <1>3, <1>5, <1>6 DEF DisplayInv

\* What every other step leaves of the display: the frame, its background and
\* its colours, and a snapshot that is the same or dirty.
Leaves ==
  /\ UNCHANGED <<scenario, frame, background, ctl>>
  /\ look' \in AllLooks /\ panel' \in AnyPanel /\ panel'.level = panel.level
  /\ snapshot' \in Snapshot /\ SnapshotOK(snapshot')
  /\ snapshot' = snapshot \/ snapshot'.dirty = TRUE
  /\ settingsOpen' => Located(snapshot')

LEMMA LeavesInv == ASSUME DisplayInv, Leaves PROVE DisplayInv'
<1>1. WorldInv' /\ SnapshotInv' /\ OpenInv'
  BY DEF DisplayInv, Leaves, WorldInv, SnapshotInv, OpenInv
<1>2. BackgroundInv'
  BY DEF DisplayInv, Leaves, BackgroundInv
<1>3. FrameInv'
  BY DEF DisplayInv, Leaves, FrameInv, Drawn
<1>4. ColourInv'
  BY DEF DisplayInv, Leaves, ColourInv, Drawn, Follows
<1>5. QED BY <1>1, <1>2, <1>3, <1>4 DEF DisplayInv

\* A new record of settings is dirty and keeps its place unless it moves.
LEMMA SavedLeaves ==
  ASSUME SnapshotInv, NEW s \in Settings
  PROVE  LET new == ReplaceSettings(snapshot, s)
         IN  new \in Snapshot /\ SnapshotOK(new) /\ new.dirty = TRUE /\ new.settings = s
BY ReplaceSettingsType, ReplaceSettingsOK DEF SnapshotInv, ReplaceSettings

\* A tap changes the range, closes the settings page, or does nothing.
LEMMA TapOutcome ==
  ASSUME SnapshotInv, NEW open, open \in BOOLEAN, open => Located(snapshot),
         NEW r \in Tap(snapshot, open)
  PROVE  /\ r.snap \in Snapshot /\ SnapshotOK(r.snap)
         /\ r.snap = snapshot \/ r.snap.dirty = TRUE
         /\ r.open => Located(r.snap)
<1> DEFINE s == [snapshot.settings EXCEPT !.range = (@ + 1) % NumRanges]
           new == ReplaceSettings(snapshot, s)
<1>1. s \in Settings /\ s.location = snapshot.settings.location
  <2>1. snapshot.settings \in Settings /\ snapshot.settings.range \in Ranges
    BY DEF SnapshotInv, Snapshot, Settings
  <2>2. (snapshot.settings.range + 1) % NumRanges \in Ranges
    BY <2>1, ModelAssumption DEF Ranges
  <2>3. QED BY <2>1, <2>2 DEF Settings
<1>2. new \in Snapshot /\ SnapshotOK(new) /\ new.dirty = TRUE /\ new.settings = s
  BY <1>1, SavedLeaves
<1> DEFINE stays  == [snap |-> snapshot, open |-> open]
           closes == [snap |-> snapshot, open |-> FALSE]
           cycles == [snap |-> new, open |-> FALSE]
<1> HIDE DEF new, s
<1>3. r = stays \/ r = closes \/ r = cycles
  <2>1. Page(snapshot, open) \in Pages
    BY DEF Page, Pages
  <2>2. CASE Page(snapshot, open) = "Radar"
    <3>1. Tap(snapshot, open) = {cycles, stays}
      BY <2>2, Zenon DEF Tap, new, s
    <3>2. QED BY <3>1, Zenon
  <2>3. CASE Page(snapshot, open) = "Settings"
    <3>1. Tap(snapshot, open) = {closes}
      BY <2>3, Zenon DEF Tap
    <3>2. QED BY <3>1, Zenon
  <2>4. CASE Page(snapshot, open) \in {"SetupRequired", "WaitingForNetwork"}
    <3>1. Tap(snapshot, open) = {stays}
      BY <2>4, Zenon DEF Tap
    <3>2. QED BY <3>1, Zenon
  <2>5. QED BY <2>1, <2>2, <2>3, <2>4 DEF Pages
<1>4. CASE r = stays
  BY <1>4 DEF SnapshotInv
<1>5. CASE r = closes
  BY <1>5 DEF SnapshotInv
<1>6. CASE r = cycles
  BY <1>2, <1>6
<1>7. QED BY <1>3, <1>4, <1>5, <1>6

LEMMA TouchLeaves == ASSUME DisplayInv, TouchStep PROVE Leaves
<1> USE DEF Touching, Moving, shared, clockVars
<1>1. /\ look \in AllLooks /\ panel \in AnyPanel /\ SnapshotInv
      /\ settingsOpen => Located(snapshot)
  BY DEF DisplayInv, WorldInv, ColourInv, OpenInv
<1>2. ASSUME NEW f \in Fingers, PressFinger(f) \/ MoveFinger(f) PROVE Leaves
  <2>1. TouchOnly
    BY <1>2 DEF PressFinger, MoveFinger
  <2>2. QED BY <1>1, <2>1 DEF TouchOnly, Leaves, SnapshotInv
<1>3. ASSUME NEW f \in Fingers, ReleaseFinger(f) PROVE Leaves
  <2> DEFINE open == settingsOpen /\ Located(snapshot)
  <2>1. UNCHANGED <<look, panel, scenario, frame, background, ctl>>
    BY <1>3 DEF ReleaseFinger
  <2>2. CASE UNCHANGED <<snapshot, settingsOpen>>
    BY <1>1, <2>1, <2>2 DEF Leaves, SnapshotInv
  <2>3. ASSUME NEW r \in Tap(snapshot, open), snapshot' = r.snap, settingsOpen' = r.open
        PROVE  Leaves
    <3>1. open \in BOOLEAN /\ (open => Located(snapshot))
      OBVIOUS
    <3>2. /\ r.snap \in Snapshot /\ SnapshotOK(r.snap)
          /\ r.snap = snapshot \/ r.snap.dirty = TRUE
          /\ r.open => Located(r.snap)
      BY <1>1, <3>1, TapOutcome
    <3>3. QED BY <1>1, <2>1, <2>3, <3>2 DEF Leaves
  <2>4. QED BY <1>3, <2>2, <2>3 DEF ReleaseFinger
<1>4. CASE LongPress
  BY <1>1, <1>4 DEF LongPress, Leaves, SnapshotInv
<1>5. CASE FingerWaits
  BY <1>1, <1>5 DEF FingerWaits, Leaves, SnapshotInv
<1>6. QED BY <1>2, <1>3, <1>4, <1>5 DEF TouchStep

LEMMA EnvironmentLeaves == ASSUME DisplayInv, Environment, ~RampAges PROVE Leaves
<1> USE DEF Moving, shared, clockVars, appVars, AppStays
<1>1. /\ look \in AllLooks /\ panel \in AnyPanel /\ SnapshotInv /\ scenario \in Scenarios
      /\ settingsOpen => Located(snapshot)
  BY DEF DisplayInv, WorldInv, ColourInv, OpenInv
<1>2. snapshot \in Snapshot /\ SnapshotOK(snapshot) /\ snapshot.settings \in Settings
  BY <1>1 DEF SnapshotInv, Snapshot
<1>3. CASE SaveForm
  <2>1. PICK s \in World[scenario].edits \ {snapshot.settings} :
          s.location # NoLocation /\ snapshot' = ReplaceSettings(snapshot, s)
    BY <1>3 DEF SaveForm
  <2>2. s \in Settings
    BY <1>1, WorldAssumption
  <2>3. /\ snapshot' \in Snapshot /\ SnapshotOK(snapshot') /\ snapshot'.dirty = TRUE
        /\ Located(snapshot')
    BY <1>1, <2>1, <2>2, SavedLeaves DEF Located
  <2>4. QED BY <1>1, <1>3, <2>3 DEF SaveForm, Leaves
<1>4. CASE SaveLook
  <2>1. /\ snapshot' \in Snapshot /\ SnapshotOK(snapshot') /\ snapshot'.dirty = TRUE
        /\ snapshot'.settings = snapshot.settings
    BY <1>1, <1>2, <1>4, SavedLeaves DEF SaveLook
  <2>2. look' \in AllLooks
    BY <1>1, <1>4, WorldAssumption DEF SaveLook
  <2>3. QED BY <1>1, <1>4, <2>1, <2>2 DEF SaveLook, Leaves, Located
<1>5. CASE FeedAnswers
  <2>1. PICK aircraft \in Answers(Query(snapshot.settings)) :
          snapshot' = RecordAircraft(snapshot, aircraft)
    BY <1>5 DEF FeedAnswers
  <2>2. snapshot.settings.location # NoLocation /\ Query(snapshot.settings).location # NoLocation
    BY <1>5 DEF FeedAnswers, Located, Query
  <2>3. aircraft \in SUBSET Sightings
    BY <1>2, <2>2, ModelAssumption DEF Answers, Query, Settings
  <2>4. snapshot' \in Snapshot /\ SnapshotOK(snapshot')
    BY <1>2, <2>1, <2>2, <2>3, RecordAircraftOK DEF QueryIsCurrent
  <2>5. snapshot'.dirty = TRUE /\ snapshot'.settings = snapshot.settings
    BY <1>2, <2>1 DEF RecordAircraft, Snapshot
  <2>6. QED BY <1>1, <1>5, <2>4, <2>5 DEF FeedAnswers, Leaves, Located
<1>6. CASE FeedFails
  <2>1. snapshot' \in Snapshot /\ SnapshotOK(snapshot')
    BY <1>2, <1>6, DirtyWriteOK DEF FeedFails, RecordAdsbError
  <2>2. snapshot'.dirty = TRUE /\ snapshot'.settings = snapshot.settings
    BY <1>2, <1>6 DEF FeedFails, RecordAdsbError, Snapshot
  <2>3. QED BY <1>1, <1>6, <2>1, <2>2 DEF FeedFails, Leaves, Located
<1>7. CASE WeatherAnswers
  <2>1. snapshot.settings.location \in Locations
    BY <1>2, <1>7 DEF WeatherAnswers, Located, Settings
  <2>2. snapshot' \in Snapshot /\ SnapshotOK(snapshot')
    BY <1>2, <1>7, <2>1, RecordEnvironmentOK DEF WeatherAnswers
  <2>3. snapshot'.dirty = TRUE /\ snapshot'.settings = snapshot.settings
    BY <1>2, <1>7 DEF WeatherAnswers, RecordEnvironment, Snapshot
  <2>4. QED BY <1>1, <1>7, <2>2, <2>3 DEF WeatherAnswers, Leaves, Located
<1>8. CASE SolarAnswers
  <2> DEFINE place == PlaceOfSettings(snapshot.settings)
  <2>1. SolarIsCurrent(snapshot, place) /\ snapshot' = RecordSolar(snapshot, place)
    BY <1>8 DEF SolarAnswers
  <2>2. place \in Places \cup {NoPlace}
    BY <1>2, ModelAssumption DEF PlaceOfSettings, Settings
  <2>3. snapshot' \in Snapshot /\ SnapshotOK(snapshot')
    BY <1>2, <2>1, <2>2, RecordSolarOK
  <2>4. snapshot'.dirty = TRUE /\ snapshot'.settings = snapshot.settings
    BY <1>2, <2>1 DEF RecordSolar, Snapshot
  <2>5. QED BY <1>1, <1>8, <2>3, <2>4 DEF SolarAnswers, Leaves, Located
<1>9. CASE DataAges \/ MinuteTurns \/ ClockMoves
  BY <1>1, <1>2, <1>9 DEF DataAges, MinuteTurns, ClockMoves, Leaves
<1>10. CASE PanelBreaksOrRecovers
  <2>1. panel' \in AnyPanel
    BY <1>1, <1>10 DEF PanelBreaksOrRecovers, AnyPanel
  <2>2. QED BY <1>1, <1>2, <1>10, <2>1 DEF PanelBreaksOrRecovers, Leaves
<1>11. QED
  BY <1>3, <1>4, <1>5, <1>6, <1>7, <1>8, <1>9, <1>10 DEF Environment

\* A new process has drawn nothing and asked for no light.
LEMMA StartAgainInv == ASSUME DisplayInv, StartAgain PROVE DisplayInv'
<1>1. /\ scenario' = scenario /\ look' = look /\ panel' = panel
      /\ frame' = <<>> /\ background' = <<>> /\ settingsOpen' = FALSE
      /\ ctl' = NewController(panel)
      /\ snapshot' \in BootSnapshots(snapshot.settings)
  BY DEF StartAgain, Moving
<1>2. WorldInv' /\ OpenInv' /\ BackgroundInv' /\ FrameInv'
  BY <1>1 DEF DisplayInv, WorldInv, OpenInv, BackgroundInv, FrameInv, Drawn
<1>3. SnapshotInv'
  <2>1. snapshot.settings \in Settings
    BY DEF DisplayInv, SnapshotInv, Snapshot
  <2>2. QED BY <1>1, <2>1, BootOK DEF SnapshotInv
<1>4. ColourInv'
  <2>1. panel \in AnyPanel
    BY DEF DisplayInv, ColourInv
  <2>2. QED BY <1>1, <2>1, NewControllerType DEF ColourInv, Drawn
<1>5. QED BY <1>2, <1>3, <1>4 DEF DisplayInv

\* Time in a ramp changes neither the colours nor what was asked for.
LEMMA RampAgesInv == ASSUME DisplayInv, RampAges PROVE DisplayInv'
<1> USE DEF shared, clockVars
<1>1. UNCHANGED <<scenario, look, panel, frame, background, settingsOpen, snapshot>>
  BY DEF RampAges
<1>2. /\ ctl' \in AnyController /\ ctl'.requested = ctl.requested /\ ctl'.safe = ctl.safe
      /\ Follows(ctl', panel)
  <2>1. ctl \in AnyController /\ Follows(ctl, panel) /\ ctl' = Age(ctl)
    BY DEF DisplayInv, ColourInv, RampAges
  <2>2. CASE Ramping(ctl) /\ ctl.ramp.age < RampTicks
    <3>1. ctl' = [ctl EXCEPT !.ramp.age = @ + 1]
      BY <2>1, <2>2 DEF Age
    <3>2. /\ ctl' \in AnyController /\ ctl'.known = ctl.known /\ ctl'.target = ctl.target
          /\ ctl'.ramp.from = ctl.ramp.from /\ ctl'.ramp.to = ctl.ramp.to
          /\ ctl'.requested = ctl.requested /\ ctl'.safe = ctl.safe
      BY <2>1, <2>2, <3>1, BacklightAssumption DEF AnyController, AnyRamp
    <3>3. QED BY <2>1, <3>2 DEF Follows, Ramping
  <2>3. CASE ~(Ramping(ctl) /\ ctl.ramp.age < RampTicks)
    BY <2>1, <2>3 DEF Age
  <2>4. QED BY <2>2, <2>3
<1>3. ColourInv'
  BY <1>1, <1>2 DEF DisplayInv, ColourInv, Drawn
<1>4. QED
  BY <1>1, <1>3 DEF DisplayInv, WorldInv, SnapshotInv, OpenInv, BackgroundInv, FrameInv,
                    Drawn, Located

\* A step without a frame leaves the old one, whose key is the one it would have.
LEMMA KeptKey ==
  ASSUME NEW snap, NEW open, NEW colour, ~Redraws(snap, open, colour)
  PROVE  Drawn /\ ~snap.dirty /\ frame[1].key = RenderKey(snap, open, colour)
BY DEF Redraws

\* The rings and airports drawn are those of the settings, cached or not.
LEMMA BackgroundIsRight ==
  ASSUME BackgroundInv, NEW s
  PROVE  /\ Background(s)[1].image = DrawBackground(s)
         /\ Background(s) # <<>> => Background(s)[1].image = Background(s)[1].key
<1>1. CASE background # <<>> /\ background[1].key = BackgroundKey(s)
  BY <1>1 DEF Background, BackgroundInv, BackgroundKey, DrawBackground
<1>2. CASE ~(background # <<>> /\ background[1].key = BackgroundKey(s))
  BY <1>2 DEF Background, BackgroundKey, DrawBackground
<1>3. QED BY <1>1, <1>2

\* A frame shows what its key says: of all that is drawn, only what the
\* generation covers is missing from the key.
LEMMA SceneIsShown ==
  ASSUME BackgroundInv, NEW snap, NEW open, NEW colour
  PROVE  Scene(snap, open, colour) = Shows(snap, RenderKey(snap, open, colour))
<1> DEFINE key == RenderKey(snap, open, colour)
<1>1. /\ key.page = Page(snap, open) /\ key.colour = colour /\ key.stale = Stale(snap)
      /\ key.environmentStale =
           (key.page = "Radar" /\ snap.settings.weather /\ EnvironmentStale(snap))
  BY DEF RenderKey
<1>2. CASE key.page = "Radar"
  <2>1. Background(snap.settings)[1].image = DrawBackground(snap.settings)
    BY BackgroundIsRight
  <2>2. Footer(snap) = Shows(snap, key).footer
    BY <1>1, <1>2 DEF Footer, Shows
  <2>3. QED BY <1>1, <1>2, <2>1, <2>2 DEF Scene, RadarScene, Shows
<1>3. CASE key.page # "Radar"
  BY <1>1, <1>3 DEF Scene, Shows
<1>4. QED BY <1>2, <1>3

\* One turn of the loop, with the outcome of its backlight update named.
Turn(light) ==
  LET open   == settingsOpen /\ Located(snapshot)
      report == IF light.ok THEN "Available" ELSE "Unavailable"
      snap   == IF report = available THEN snapshot ELSE [snapshot EXCEPT !.dirty = TRUE]
      colour == light.ctl.safe
  IN  /\ UNCHANGED <<scenario, look, rec>>
      /\ settingsOpen' = open
      /\ ctl' = light.ctl /\ panel' = light.panel
      /\ available' = report
      /\ \/ /\ Redraws(snap, open, colour)
            /\ frame' = << [key   |-> RenderKey(snap, open, colour),
                            scene |-> Scene(snap, open, colour)] >>
            /\ snapshot' = [snap EXCEPT !.dirty = FALSE]
            /\ background' \in {background, Background(snap.settings)}
         \/ /\ ~Redraws(snap, open, colour)
            /\ snapshot' = snap
            /\ UNCHANGED <<frame, background>>

LEMMA DrawFrameTurns ==
  ASSUME DisplayInv, DrawFrame
  PROVE  \E light \in Updates(ctl, panel, Policy) :
           UpdatePromise(ctl, panel, Policy, light) /\ Turn(light)
<1>1. PICK light \in Updates(ctl, panel, Policy) : Turn(light)
  BY DEF DrawFrame, Turn
<1>2. ctl \in AnyController /\ panel \in AnyPanel /\ Follows(ctl, panel) /\ Policy \in AnyPolicy
  BY PolicyType DEF DisplayInv, ColourInv, WorldInv
<1>3. UpdatePromise(ctl, panel, Policy, light)
  BY <1>2, UpdateOutcome
<1>4. QED BY <1>1, <1>3

\* A frame, or the decision to keep the old one.
LEMMA DrawFrameInv == ASSUME DisplayInv, DrawFrame PROVE DisplayInv'
<1>1. PICK light \in Updates(ctl, panel, Policy) :
        UpdatePromise(ctl, panel, Policy, light) /\ Turn(light)
  BY DrawFrameTurns
<1> DEFINE open   == settingsOpen /\ Located(snapshot)
           report == IF light.ok THEN "Available" ELSE "Unavailable"
           snap   == IF report = available THEN snapshot ELSE [snapshot EXCEPT !.dirty = TRUE]
           colour == light.ctl.safe
           key    == RenderKey(snap, open, colour)
           scene  == Scene(snap, open, colour)
<1>2. /\ UNCHANGED <<scenario, look>> /\ settingsOpen' = open
      /\ ctl' = light.ctl /\ panel' = light.panel
  BY <1>1 DEF Turn
<1>3. \/ /\ Redraws(snap, open, colour)
         /\ frame' = << [key |-> key, scene |-> scene] >>
         /\ snapshot' = [snap EXCEPT !.dirty = FALSE]
         /\ background' \in {background, Background(snap.settings)}
      \/ /\ ~Redraws(snap, open, colour)
         /\ snapshot' = snap
         /\ UNCHANGED <<frame, background>>
  BY <1>1 DEF Turn
<1>4. /\ snap \in Snapshot /\ SnapshotOK(snap) /\ snap.settings = snapshot.settings
  BY DirtyWriteOK DEF DisplayInv, SnapshotInv, Snapshot
<1>5. /\ light.ctl \in AnyController /\ light.panel \in AnyPanel
      /\ light.ctl.requested \in Colours /\ Follows(light.ctl, light.panel)
  BY <1>1, PolicyType DEF UpdatePromise, DisplayInv, WorldInv, AnyPolicy
<1>6. BackgroundInv
  BY DEF DisplayInv
<1>7. scene = Shows(snap, key)
  BY <1>6, SceneIsShown
<1>8. key.colour = colour /\ Shows(snap, key).colour = colour
  BY DEF RenderKey, Shows, SetupScene
<1>9. WorldInv'
  BY <1>2 DEF DisplayInv, WorldInv
<1> HIDE DEF snap, key, scene, colour
<1>10. CASE /\ frame' = << [key |-> key, scene |-> scene] >>
            /\ snapshot' = [snap EXCEPT !.dirty = FALSE]
            /\ background' \in {background, Background(snap.settings)}
  <2>1. SnapshotInv' /\ snapshot'.settings = snap.settings
    BY <1>4, <1>10, DirtyWriteOK DEF SnapshotInv, Snapshot
  <2>2. OpenInv'
    BY <1>2, <1>4, <2>1 DEF OpenInv, Located
  <2>3. BackgroundInv'
    BY <1>6, <1>10, BackgroundIsRight DEF BackgroundInv
  <2>4. Shows(snapshot', key) = Shows(snap, key)
    <3>1. /\ snapshot'.aircraft = snap.aircraft /\ snapshot'.settings = snap.settings
          /\ snapshot'.environment = snap.environment
      BY <1>4, <1>10 DEF Snapshot
    <3>2. QED BY <3>1 DEF Shows
  <2>5. frame'[1].scene = scene /\ frame'[1].key = key /\ frame' # <<>>
    BY <1>10
  <2>6. FrameInv'
    BY <1>7, <2>4, <2>5 DEF FrameInv
  <2>7. ColourInv'
    <3>1. light.ctl.requested # "none"
      BY <1>5 DEF Colours
    <3>2. frame'[1].key.colour = light.ctl.safe /\ frame'[1].scene.colour = light.ctl.safe
      BY <1>7, <1>8, <2>5 DEF colour
    <3>3. QED BY <1>2, <1>5, <2>5, <3>1, <3>2 DEF ColourInv, Drawn
  <2>8. QED BY <1>9, <2>1, <2>2, <2>3, <2>6, <2>7 DEF DisplayInv
<1>11. CASE ~Redraws(snap, open, colour) /\ snapshot' = snap /\ UNCHANGED <<frame, background>>
  <2>1. Drawn /\ ~snap.dirty /\ frame[1].key = key
    BY <1>11, KeptKey DEF key
  <2>2. snap = snapshot
    BY <2>1 DEF snap, DisplayInv, SnapshotInv, Snapshot
  <2>3. SnapshotInv' /\ BackgroundInv' /\ FrameInv'
    BY <1>4, <1>6, <1>11, <2>2 DEF SnapshotInv, BackgroundInv, FrameInv, Drawn, DisplayInv
  <2>4. OpenInv'
    BY <1>2, <1>11, <2>2 DEF OpenInv, Located
  <2>5. ColourInv'
    <3>1. light.ctl.requested # "none"
      BY <1>5 DEF Colours
    <3>2. frame[1].key.colour = light.ctl.safe
      BY <1>8, <2>1 DEF colour
    <3>3. frame[1].scene.colour = frame[1].key.colour
      BY <2>1 DEF DisplayInv, ColourInv
    <3>4. QED BY <1>2, <1>5, <1>11, <2>1, <3>1, <3>2, <3>3 DEF ColourInv, Drawn
  <2>6. QED BY <1>9, <2>3, <2>4, <2>5 DEF DisplayInv
<1>12. QED BY <1>3, <1>10, <1>11

LEMMA StepInv == ASSUME DisplayInv, [Next]_vars PROVE DisplayInv'
<1>1. CASE UNCHANGED vars
  <2>1. Leaves
    BY <1>1 DEF vars, shared, clockVars, appVars, Leaves, DisplayInv, WorldInv, SnapshotInv,
                OpenInv, ColourInv
  <2>2. QED BY <2>1, LeavesInv
<1>2. CASE DrawFrame
  BY <1>2, DrawFrameInv
<1>3. CASE TouchStep
  BY <1>3, TouchLeaves, LeavesInv
<1>4. CASE RampAges
  BY <1>4, RampAgesInv
<1>5. CASE Environment /\ ~RampAges
  BY <1>5, EnvironmentLeaves, LeavesInv
<1>6. CASE Quit
  <2>1. Leaves
    BY <1>6 DEF Quit, Moving, shared, clockVars, appVars, Leaves, DisplayInv, WorldInv,
                SnapshotInv, OpenInv, ColourInv
  <2>2. QED BY <2>1, LeavesInv
<1>7. CASE StartAgain
  BY <1>7, StartAgainInv
<1>8. QED BY <1>1, <1>2, <1>3, <1>4, <1>5, <1>6, <1>7 DEF Next

\* The invariant holds at every step.
THEOREM DisplayInvariant == Spec => []DisplayInv
BY InitInv, StepInv, PTL DEF Spec

----
\* Aircraft and rings are drawn on the radar only.
LEMMA ShowsFields ==
  ASSUME NEW snap, NEW key
  PROVE  LET scene == Shows(snap, key)
         IN  \/ /\ key.page = "Radar"
                /\ scene.aircraft = snap.aircraft /\ scene.dataStale = key.stale
                /\ scene.background = {DrawBackground(snap.settings)}
             \/ /\ key.page # "Radar"
                /\ scene.aircraft = {} /\ scene.background = {}
<1>1. CASE key.page = "Radar"
  BY <1>1 DEF Shows
<1>2. CASE key.page # "Radar"
  <2>1. Shows(snap, key) = SetupScene(key.page, key.colour)
    BY <1>2 DEF Shows
  <2>2. SetupScene(key.page, key.colour).aircraft = {}
    BY DEF SetupScene
  <2>3. SetupScene(key.page, key.colour).background = {}
    BY DEF SetupScene
  <2>4. QED BY <1>2, <2>1, <2>2, <2>3, Zenon
<1>3. QED BY <1>1, <1>2

\* What a quiet display shows, for every state of the invariant.
LEMMA QuietShows ==
  ASSUME DisplayInv, Quiet
  PROVE  frame[1].scene = Shows(snapshot, RenderKey(snapshot, settingsOpen, ctl.safe))
BY KeptKey DEF Quiet, DisplayInv, FrameInv

\* A display that sees no reason to draw shows what drawing would show
\* (step, app.rs, and the renderer's background cache): however long the
\* program runs and whatever its workers and browsers change meanwhile.
THEOREM QuietFramesAreCurrent == Spec => []FrameIsCurrent
<1>1. DisplayInv => FrameIsCurrent
  <2> SUFFICES ASSUME DisplayInv, Quiet
               PROVE  /\ frame[1].scene = Scene(snapshot, settingsOpen, ctl.safe)
                      /\ \A image \in frame[1].scene.background :
                           image = DrawBackground(snapshot.settings)
    BY DEF FrameIsCurrent
  <2>1. frame[1].scene = Shows(snapshot, RenderKey(snapshot, settingsOpen, ctl.safe))
    BY QuietShows
  <2>2. frame[1].scene = Scene(snapshot, settingsOpen, ctl.safe)
    BY <2>1, SceneIsShown DEF DisplayInv
  <2>3. \A image \in frame[1].scene.background : image = DrawBackground(snapshot.settings)
    BY <2>1, ShowsFields
  <2>4. QED BY <2>2, <2>3
<1>2. QED BY <1>1, DisplayInvariant, PTL

\* Aircraft too old to be trusted are never shown without DATA STALE
\* (model.rs clears the age only together with the aircraft).
THEOREM OldAircraftAlwaysLabelled == Spec => []OldAircraftAreLabelled
<1>1. DisplayInv => OldAircraftAreLabelled
  <2> SUFFICES ASSUME DisplayInv, Quiet, frame[1].scene.aircraft # {}, "aircraft" \in old
               PROVE  frame[1].scene.dataStale
    BY DEF OldAircraftAreLabelled
  <2> DEFINE key == RenderKey(snapshot, settingsOpen, ctl.safe)
  <2>1. frame[1].scene = Shows(snapshot, key)
    BY QuietShows
  <2>2. key.page = "Radar"
    BY <2>1, ShowsFields
  <2>3. frame[1].scene.aircraft = snapshot.aircraft /\ frame[1].scene.dataStale = key.stale
    BY <2>1, <2>2, ShowsFields
  <2>4. snapshot.fetched
    BY <2>3 DEF DisplayInv, SnapshotInv, SnapshotOK, AircraftMatchSettings
  <2>5. key.stale = Stale(snapshot)
    BY DEF RenderKey
  <2>6. QED BY <2>3, <2>4, <2>5 DEF Stale
<1>2. QED BY <1>1, DisplayInvariant, PTL

\* The release of the long press that opened the settings page never closes
\* it, and neither does anything but a touch (touch.rs, handle_gesture).
Closes == settingsOpen /\ ~settingsOpen' /\ Drawn' => rec.active # NoFinger /\ ~rec.fired

LEMMA ClosesStep == ASSUME DisplayInv, [Next]_vars PROVE Closes
<1> SUFFICES ASSUME settingsOpen, ~settingsOpen', Drawn'
             PROVE  rec.active # NoFinger /\ ~rec.fired
  BY DEF Closes
<1>1. Located(snapshot)
  BY DEF DisplayInv, OpenInv
<1>2. CASE settingsOpen' = settingsOpen
  BY <1>2
<1>3. CASE DrawFrame
  <2>1. settingsOpen' = (settingsOpen /\ Located(snapshot))
    BY <1>3 DEF DrawFrame
  <2>2. QED BY <1>1, <2>1
<1>4. ASSUME NEW f \in Fingers, ReleaseFinger(f), settingsOpen' # settingsOpen
      PROVE  rec.active # NoFinger /\ ~rec.fired
  <2>1. PICK tooFar \in BOOLEAN : Taps(rec, f, tooFar)
    BY <1>4 DEF ReleaseFinger
  <2>2. QED BY <2>1, TouchAssumption DEF Taps
<1>5. CASE LongPress
  BY <1>1, <1>5 DEF LongPress
<1>6. CASE StartAgain
  BY <1>6 DEF StartAgain, Drawn
<1>7. TouchStep => \/ settingsOpen' = settingsOpen
                   \/ \E f \in Fingers : ReleaseFinger(f)
                   \/ LongPress
  BY DEF TouchStep, PressFinger, MoveFinger, FingerWaits, TouchOnly
<1>8. Environment \/ Quit \/ UNCHANGED vars => settingsOpen' = settingsOpen
  BY DEF Environment, SaveForm, SaveLook, FeedAnswers, FeedFails, WeatherAnswers, SolarAnswers,
         DataAges, MinuteTurns, ClockMoves, RampAges, PanelBreaksOrRecovers, Quit, AppStays,
         appVars, vars
<1>9. QED BY <1>2, <1>3, <1>4, <1>5, <1>6, <1>7, <1>8 DEF Next

\* The release of the touch that opened the settings page never closes it
\* (TouchGestureRecognizer suppresses the rest of a fired contact).
THEOREM LongPressesStayOpen == Spec => OnlyALaterTouchCloses
<1>1. DisplayInv /\ [Next]_vars => [Closes]_vars
  BY ClosesStep
<1>2. QED BY <1>1, DisplayInvariant, PTL DEF Spec, OnlyALaterTouchCloses, Closes

\* The night begins and ends gently, and a start in an active night never
\* flashes full colour (backlight.rs: apply_color_request, failed_update and
\* the end of the ramp), for every panel, level and percentage.
Gentle ==
  /\ ~Drawn /\ Drawn' => frame'[1].scene.colour = Policy.colour
  /\ Drawn /\ Drawn' =>
       /\ frame[1].scene.colour = "full" /\ frame'[1].scene.colour = "red" =>
            available' = "Unavailable" \/ panel'.level = Target \/ Stranded(ctl')
       /\ frame[1].scene.colour = "red" /\ Policy.colour = "full" =>
            panel'.level <= panel.level \/ panel'.level <= Interpolated(ctl)
  /\ Stranded(ctl') => Stranded(ctl) \/ CaughtMidway

LEMMA GentleStep == ASSUME DisplayInv, [Next]_vars PROVE Gentle
<1>1. panel \in AnyPanel
  BY DEF DisplayInv, ColourInv
<1>2. CASE DrawFrame
  <2>1. PICK light \in Updates(ctl, panel, Policy) :
          UpdatePromise(ctl, panel, Policy, light) /\ Turn(light)
    BY <1>2, DrawFrameTurns
  <2>2. ColourInv'
    BY <1>2, DrawFrameInv DEF DisplayInv
  <2>3. /\ ctl' = light.ctl /\ panel' = light.panel
        /\ available' = IF light.ok THEN "Available" ELSE "Unavailable"
    BY <2>1 DEF Turn
  <2>4. Drawn' => frame'[1].scene.colour = light.ctl.safe
    BY <2>2, <2>3 DEF ColourInv
  <2>5. ASSUME ~Drawn, Drawn' PROVE frame'[1].scene.colour = Policy.colour
    BY <2>1, <2>4, <2>5 DEF UpdatePromise, DisplayInv, ColourInv
  <2>6. ASSUME Drawn, Drawn', frame[1].scene.colour = "full", frame'[1].scene.colour = "red"
        PROVE  available' = "Unavailable" \/ panel'.level = Target \/ Stranded(ctl')
    <3>1. ctl.requested # "none" /\ ctl.safe = "full" /\ light.ctl.safe = "red"
      BY <2>4, <2>6 DEF DisplayInv, ColourInv
    <3>2. ~light.ok \/ light.panel.level = Target \/ Stranded(light.ctl)
      BY <2>1, <3>1 DEF UpdatePromise, Target
    <3>3. QED BY <2>3, <3>2
  <2>7. panel'.level <= panel.level \/ panel'.level <= Interpolated(ctl)
    <3>1. panel'.level \in {panel.level, Interpolated(ctl)} /\ panel'.level \in Nat
      BY <2>1, <2>3 DEF UpdatePromise, AnyPanel
    <3>2. QED BY <3>1
  <2>8. Stranded(ctl') => Stranded(ctl) \/ CaughtMidway
    BY <2>1, <2>3 DEF UpdatePromise, Midway, CaughtMidway, Target
  <2>9. QED BY <2>5, <2>6, <2>7, <2>8 DEF Gentle
<1>3. CASE StartAgain
  <2>1. ctl' = NewController(panel) /\ ~Drawn'
    BY <1>3 DEF StartAgain, Drawn
  <2>2. ~Stranded(ctl')
    BY <2>1 DEF NewController, Stranded
  <2>3. QED BY <2>1, <2>2 DEF Gentle
<1>4. ASSUME UNCHANGED <<frame>>, panel'.level = panel.level, Stranded(ctl') => Stranded(ctl)
      PROVE  Gentle
  BY <1>1, <1>4 DEF Gentle, Drawn, AnyPanel
<1>5. Environment \/ TouchStep \/ Quit \/ UNCHANGED vars => UNCHANGED <<frame>>
  BY DEF Environment, SaveForm, SaveLook, FeedAnswers, FeedFails, WeatherAnswers, SolarAnswers,
         DataAges, MinuteTurns, ClockMoves, RampAges, PanelBreaksOrRecovers, Quit, AppStays,
         appVars, vars, TouchStep, PressFinger, MoveFinger, ReleaseFinger, LongPress,
         FingerWaits, TouchOnly
<1>6. Environment \/ TouchStep \/ Quit \/ UNCHANGED vars => panel'.level = panel.level
  <2>1. CASE PanelBreaksOrRecovers
    BY <1>1, <2>1 DEF PanelBreaksOrRecovers, AnyPanel
  <2>2. Environment /\ ~PanelBreaksOrRecovers => panel' = panel
    BY DEF Environment, SaveForm, SaveLook, FeedAnswers, FeedFails, WeatherAnswers,
           SolarAnswers, DataAges, MinuteTurns, ClockMoves, RampAges
  <2>3. TouchStep \/ Quit \/ UNCHANGED vars => panel' = panel
    BY DEF Quit, vars, TouchStep, PressFinger, MoveFinger, ReleaseFinger, LongPress,
           FingerWaits, TouchOnly, Touching
  <2>4. QED BY <2>1, <2>2, <2>3
<1>7. Environment \/ TouchStep \/ Quit \/ UNCHANGED vars => (Stranded(ctl') => Stranded(ctl))
  <2>1. CASE RampAges
    <3>1. ctl' = Age(ctl) /\ ctl \in AnyController
      BY <2>1 DEF RampAges, DisplayInv, ColourInv
    <3>2. QED BY <3>1 DEF Age, Stranded, Ramping, AnyController, AnyRamp
  <2>2. Environment /\ ~RampAges => ctl' = ctl
    BY DEF Environment, SaveForm, SaveLook, FeedAnswers, FeedFails, WeatherAnswers,
           SolarAnswers, DataAges, MinuteTurns, ClockMoves, PanelBreaksOrRecovers, AppStays,
           appVars
  <2>3. TouchStep \/ Quit \/ UNCHANGED vars => ctl' = ctl
    BY DEF Quit, appVars, vars, TouchStep, PressFinger, MoveFinger, ReleaseFinger, LongPress,
           FingerWaits, TouchOnly
  <2>4. QED BY <2>1, <2>2, <2>3
<1>8. QED BY <1>2, <1>3, <1>4, <1>5, <1>6, <1>7 DEF Next

\* Night dims before it turns red and day is full colour before it brightens
\* (the controller keeps a red request back until its ramp has ended, and a
\* ramp ends at its target), for any ramp, any panel that fails midway and any
\* restart; a controller is stranded only by a target that meets a ramp midway.
THEOREM NightsAreGentle == Spec => GentleNight
<1>1. DisplayInv /\ [Next]_vars => [Gentle]_vars
  BY GentleStep
<1>2. QED BY <1>1, DisplayInvariant, PTL DEF Spec, GentleNight, Gentle

----
(* Night by three dates: whatever the almanac, it is night by definition. *)

\* A set of integers with a lower bound has a least one, ...
LEMMA LeastOf ==
  ASSUME NEW T \in SUBSET Int, T # {}, NEW b \in Int, \A t \in T : b <= t
  PROVE  Min(T) \in T /\ \A t \in T : Min(T) <= t
<1> DEFINE U == {t - b : t \in T}
           R == OpToRel(<, Nat)
<1>1. IsWellFoundedOn(R, Nat)
  BY NatLessThanWellFounded
<1>2. U \subseteq Nat /\ U # {}
  <2>1. \A t \in T : t \in Int /\ t - b \in Nat
    OBVIOUS
  <2>2. PICK t \in T : TRUE
    OBVIOUS
  <2>3. t - b \in U
    OBVIOUS
  <2>4. QED BY <2>1, <2>3
<1>3. PICK k \in U : \A j \in U : ~ (<<j, k>> \in R)
  <2> HIDE DEF R, U
  <2> QED BY <1>1, <1>2, WFMin
<1>4. \A j \in U : <<j, k>> \in R <=> j < k
  BY <1>2 DEF OpToRel
<1>5. \A j \in U : k <= j
  <2>1. \A j \in U : ~ (j < k)
    <3> HIDE DEF R, U
    <3> QED BY <1>3, <1>4, Zenon
  <2> HIDE DEF U
  <2> QED BY <1>2, <2>1
<1>6. PICK m \in T : k = m - b
  OBVIOUS
<1>7. \A t \in T : m <= t
  <2> TAKE t \in T
  <2>1. t - b \in U
    OBVIOUS
  <2> HIDE DEF U
  <2> QED BY <1>5, <1>6, <2>1
<1>8. QED BY <1>7 DEF Min

\* ... and one with an upper bound a greatest one.
LEMMA GreatestOf ==
  ASSUME NEW T \in SUBSET Int, T # {}, NEW b \in Int, \A t \in T : t <= b
  PROVE  Max(T) \in T /\ \A t \in T : t <= Max(T)
<1> DEFINE U == {b - t : t \in T}
<1>1. U \in SUBSET Int /\ U # {} /\ \A u \in U : 0 <= u
  <2>1. \A t \in T : b - t \in Int /\ 0 <= b - t
    OBVIOUS
  <2>2. PICK t \in T : TRUE
    OBVIOUS
  <2>3. b - t \in U
    OBVIOUS
  <2>4. QED BY <2>1, <2>3
<1>2. Min(U) \in U /\ \A u \in U : Min(U) <= u
  <2> HIDE DEF U
  <2> QED BY <1>1, LeastOf
<1>3. PICK m \in T : Min(U) = b - m
  BY <1>2
<1>4. \A t \in T : t <= m
  <2> TAKE t \in T
  <2>1. b - t \in U
    OBVIOUS
  <2> HIDE DEF U
  <2> QED BY <1>2, <1>3, <2>1
<1>5. QED BY <1>4 DEF Max

\* Dates are Slots instants apart.
LEMMA Midnight == ASSUME NEW d \in Int PROVE d * Slots \in Int
BY NightAssumption

LEMMA DaysApart ==
  ASSUME NEW d \in Int, NEW e \in Int, d < e
  PROVE  d * Slots + Slots <= e * Slots
<1>1. (e - d) * Slots >= Slots
  BY NightAssumption
<1>2. QED BY <1>1, NightAssumption

LEMMA Tomorrow == ASSUME NEW d \in Int PROVE (d + 1) * Slots = d * Slots + Slots
BY NightAssumption

\* resolve_local and the zone's clock: a local time has come exactly when the
\* instant it resolves to has.
LEMMA ResolveIsFirst ==
  ASSUME NEW a \in Almanacs, NEW l \in Int, NEW t \in Int
  PROVE  /\ Resolve(a, l) \in Int /\ LocalTime(a, t) \in Int
         /\ l - 1 <= Resolve(a, l)
         /\ Resolve(a, l) <= t <=> l <= LocalTime(a, t)
<1>1. a.shift.at \in Int /\ a.shift.by \in {-1, 0, 1}
  <2>1. a.shift \in [at : 0 .. Days * Slots, by : {-1, 0, 1}]
    BY DEF Almanacs
  <2>2. Days * Slots \in Int
    BY NightAssumption
  <2>3. QED BY <2>1, <2>2
<1>2. QED BY <1>1 DEF Resolve, LocalTime

\* Later local times resolve to later instants; only two that are next to
\* each other may resolve to the same.
LEMMA ResolveGrows ==
  ASSUME NEW a \in Almanacs, NEW l \in Int, NEW m \in Int, l <= m
  PROVE  Resolve(a, l) <= Resolve(a, m) /\ (l + 2 <= m => Resolve(a, l) < Resolve(a, m))
<1>1. a.shift.at \in Int /\ a.shift.by \in {-1, 0, 1}
  <2>1. a.shift \in [at : 0 .. Days * Slots, by : {-1, 0, 1}]
    BY DEF Almanacs
  <2>2. Days * Slots \in Int
    BY NightAssumption
  <2>3. QED BY <2>1, <2>2
<1>2. QED BY <1>1 DEF Resolve

LEMMA DateBounds ==
  ASSUME NEW a \in Almanacs, NEW t \in Int
  PROVE  /\ DateOf(a, t) \in Int
         /\ DateOf(a, t) * Slots <= LocalTime(a, t)
         /\ LocalTime(a, t) < DateOf(a, t) * Slots + Slots
<1>1. LocalTime(a, t) \in Int
  BY ResolveIsFirst
<1>2. QED BY <1>1, NightAssumption DEF DateOf

\* The sunrises are instants, none long before the first date.
LEMMA SunrisesBegin ==
  ASSUME NEW a \in Almanacs
  PROVE  Sunrises(a) \in SUBSET Int /\ \A s \in Sunrises(a) : -1 <= s
<1> SUFFICES ASSUME NEW s \in Sunrises(a) PROVE s \in Int /\ -1 <= s
  OBVIOUS
<1>1. PICK d \in Dates : a.sunrise[d] # NoSunrise /\ s = Resolve(a, d * Slots + a.sunrise[d])
  BY DEF Sunrises
<1>2. a.sunrise[d] \in 0 .. Slots - 1
  BY <1>1 DEF Almanacs
<1>3. d * Slots \in Int /\ d * Slots >= 0
  BY NightAssumption DEF Dates
<1>4. d * Slots + a.sunrise[d] \in Int /\ d * Slots + a.sunrise[d] >= 0
  BY <1>2, <1>3, NightAssumption
<1>5. QED BY <1>1, <1>4, ResolveIsFirst

Start(a, d) == Resolve(a, d * Slots + a.start)

Later(a, d) == {s \in Sunrises(a) : s > Start(a, d)}

Runs(a, d, t) == NightOf(a, d).start <= t /\ t < NightOf(a, d).end

\* When a night begins, seen from any instant.
LEMMA NightBegins ==
  ASSUME NEW a \in Almanacs, NEW d \in Int, NEW t \in Int
  PROVE  /\ Start(a, d) \in Int /\ NightOf(a, d).start = Start(a, d)
         /\ Start(a, d) <= t => d <= DateOf(a, t)
         /\ d < DateOf(a, t) => Start(a, d) <= t
         /\ \A e \in Int : e <= d => Start(a, e) <= Start(a, d)
<1>1. a.start \in Int /\ 0 <= a.start /\ a.start < Slots /\ d * Slots \in Int
  BY Midnight, NightAssumption DEF Almanacs
<1>2. Start(a, d) \in Int /\ (Start(a, d) <= t <=> d * Slots + a.start <= LocalTime(a, t))
  BY <1>1, ResolveIsFirst DEF Start
<1>3. LocalTime(a, t) \in Int /\ DateOf(a, t) \in Int /\ DateOf(a, t) * Slots \in Int
  BY DateBounds, Midnight, ResolveIsFirst
<1>4. ASSUME Start(a, d) <= t PROVE d <= DateOf(a, t)
  <2>1. d * Slots < DateOf(a, t) * Slots + Slots
    BY <1>1, <1>2, <1>3, <1>4, DateBounds, NightAssumption
  <2>2. DateOf(a, t) < d => DateOf(a, t) * Slots + Slots <= d * Slots
    BY <1>3, DaysApart
  <2>3. QED BY <1>1, <1>3, <2>1, <2>2, NightAssumption
<1>5. ASSUME d < DateOf(a, t) PROVE Start(a, d) <= t
  <2>1. d * Slots + Slots <= DateOf(a, t) * Slots
    BY <1>3, <1>5, DaysApart
  <2>2. QED BY <1>1, <1>2, <1>3, <2>1, DateBounds, NightAssumption
<1>6. ASSUME NEW e \in Int, e <= d PROVE Start(a, e) <= Start(a, d)
  <2>1. e * Slots \in Int /\ e * Slots <= d * Slots
    BY <1>6, Midnight, DaysApart, <1>1, NightAssumption
  <2>2. QED BY <1>1, <2>1, ResolveGrows DEF Start
<1>7. QED BY <1>2, <1>4, <1>5, <1>6 DEF NightOf, Start

\* next_fallback: the first 07:00 after the night's start.
LEMMA FallbackOutcome ==
  ASSUME NEW a \in Almanacs, NEW d \in Int
  PROVE  LET morning(e) == Resolve(a, e * Slots + FallbackAt)
             end == Fallback(a, d, Start(a, d))
         IN  /\ end \in {morning(d), morning(d + 1)} /\ end \in Int /\ Start(a, d) < end
             /\ morning(d) > Start(a, d) => end = morning(d)
             /\ \A e \in Int : morning(e) \in Int /\ (Start(a, d) < morning(e) => end <= morning(e))
<1> DEFINE morning(e) == Resolve(a, e * Slots + FallbackAt)
           end == Fallback(a, d, Start(a, d))
<1>1. a.start \in Int /\ 0 <= a.start /\ a.start < Slots /\ d * Slots \in Int
  BY Midnight, NightAssumption DEF Almanacs
<1>2. FallbackAt \in Int /\ 1 <= FallbackAt /\ FallbackAt < Slots /\ Slots \in Int
  BY NightAssumption
<1>3. Start(a, d) \in Int
  BY NightBegins
<1>4. (d + 1) * Slots \in Int /\ (d + 1) * Slots = d * Slots + Slots
  BY Midnight, Tomorrow
<1>5. \A e \in Int : morning(e) \in Int
  <2> TAKE e \in Int
  <2>1. e * Slots + FallbackAt \in Int
    BY <1>2, Midnight
  <2>2. QED BY <2>1, ResolveIsFirst
<1>6. Start(a, d) < morning(d + 1)
  BY <1>1, <1>2, <1>4, ResolveGrows DEF Start
<1>7. end = IF morning(d) > Start(a, d) THEN morning(d) ELSE morning(d + 1)
  BY DEF Fallback
<1>8. ASSUME NEW e \in Int, Start(a, d) < morning(e) PROVE end <= morning(e)
  <2>1. e * Slots \in Int /\ e * Slots + FallbackAt \in Int
    BY <1>2, Midnight
  <2>2. d <= e
    <3>1. SUFFICES ASSUME e < d PROVE morning(e) <= Start(a, d)
      BY <1>3, <1>5, <1>8, <3>1
    <3>2. e * Slots + FallbackAt <= d * Slots + a.start
      BY <1>1, <1>2, <2>1, <3>1, DaysApart
    <3>3. QED BY <1>1, <2>1, <3>2, ResolveGrows DEF Start
  <2>3. CASE e = d
    BY <1>5, <1>7, <1>8, <2>3
  <2>4. CASE d < e
    <3>1. (d + 1) * Slots <= e * Slots
      BY <1>1, <1>4, <2>1, <2>4, DaysApart
    <3>2. morning(d + 1) <= morning(e) /\ morning(d) <= morning(e)
      BY <1>1, <1>2, <1>4, <2>1, <3>1, ResolveGrows
    <3>3. QED BY <1>7, <3>2
  <2>5. QED BY <2>2, <2>3, <2>4
<1> HIDE DEF morning, end
<1>9. end \in {morning(d), morning(d + 1)} /\ end \in Int /\ Start(a, d) < end
  BY <1>3, <1>5, <1>6, <1>7
<1>10. QED BY <1>5, <1>7, <1>8, <1>9 DEF morning, end

\* A night ends at the first sunrise after its start, or at the fallback.
LEMMA NightEnds ==
  ASSUME NEW a \in Almanacs, NEW d \in Int
  PROVE  /\ NightOf(a, d).end \in Int
         /\ Later(a, d) # {} => /\ NightOf(a, d).end \in Later(a, d)
                                /\ \A s \in Later(a, d) : NightOf(a, d).end <= s
         /\ Later(a, d) = {} => NightOf(a, d).end = Fallback(a, d, Start(a, d))
<1>1. Later(a, d) \in SUBSET Int /\ \A s \in Later(a, d) : -1 <= s
  BY SunrisesBegin DEF Later
<1>2. NightOf(a, d).end =
        IF Later(a, d) # {} THEN Min(Later(a, d)) ELSE Fallback(a, d, Start(a, d))
  BY DEF NightOf, Later, Start
<1>3. CASE Later(a, d) # {}
  <2>1. Min(Later(a, d)) \in Later(a, d) /\ \A s \in Later(a, d) : Min(Later(a, d)) <= s
    BY <1>1, <1>3, LeastOf
  <2>2. QED BY <1>1, <1>2, <1>3, <2>1
<1>4. CASE Later(a, d) = {}
  BY <1>2, <1>4, FallbackOutcome
<1>5. QED BY <1>3, <1>4

\* Yesterday, today and tomorrow are enough: while any night runs, yesterday's
\* or today's does.
LEMMA RecentNightRuns ==
  ASSUME NEW a \in Almanacs, NEW d \in Int, NEW t \in Int, Runs(a, d, t)
  PROVE  \E e \in {DateOf(a, t) - 1, DateOf(a, t)} : Runs(a, e, t)
<1> DEFINE eve == DateOf(a, t) - 1
<1>1. eve \in Int /\ DateOf(a, t) \in Int /\ d <= DateOf(a, t)
  BY DateBounds, NightBegins DEF Runs
<1>2. SUFFICES ASSUME d < eve PROVE Runs(a, eve, t)
  BY <1>1
<1>3. Start(a, d) <= Start(a, eve) /\ Start(a, eve) <= t /\ NightOf(a, eve).start = Start(a, eve)
  BY <1>1, <1>2, NightBegins
<1>4. Start(a, d) \in Int /\ Start(a, eve) \in Int
  BY <1>1, NightBegins
<1>5. Later(a, d) # {}
  <2>1. SUFFICES ASSUME Later(a, d) = {} PROVE FALSE
    OBVIOUS
  <2>2. t < Fallback(a, d, Start(a, d))
    BY <2>1, NightEnds DEF Runs
  <2>3. \A e \in {d, d + 1} : Resolve(a, e * Slots + FallbackAt) <= t
    <3> TAKE e \in {d, d + 1}
    <3>1. e \in Int /\ e * Slots \in Int /\ DateOf(a, t) * Slots \in Int
      BY <1>1, Midnight
    <3>2. e * Slots + Slots <= DateOf(a, t) * Slots
      BY <1>1, <1>2, DaysApart
    <3>3. e * Slots + FallbackAt <= LocalTime(a, t)
      BY <3>1, <3>2, DateBounds, ResolveIsFirst, NightAssumption
    <3>4. QED BY <3>1, <3>3, ResolveIsFirst, NightAssumption
  <2>4. QED BY <2>2, <2>3, FallbackOutcome
<1>6. NightOf(a, d).end \in Later(a, d) /\ NightOf(a, d).end \in Int
  BY <1>5, NightEnds
<1>7. NightOf(a, d).end \in Later(a, eve)
  BY <1>3, <1>4, <1>6 DEF Later, Runs
<1>8. NightOf(a, eve).end \in Later(a, d) /\ NightOf(a, eve).end \in Int
  <2>1. NightOf(a, eve).end \in Later(a, eve) /\ NightOf(a, eve).end \in Int
    BY <1>1, <1>7, NightEnds
  <2>2. QED BY <1>3, <1>4, <2>1 DEF Later
<1>9. t < NightOf(a, eve).end
  BY <1>5, <1>6, <1>8, NightEnds DEF Runs
<1>10. QED BY <1>3, <1>9 DEF Runs

LEMMA DarkWhileOneRuns ==
  ASSUME NEW a \in Almanacs, NEW t \in Int
  PROVE  IsDark(a, t) <=> \E d \in Int : Runs(a, d, t)
<1>1. DateOf(a, t) \in Int
  BY DateBounds
<1>2. ASSUME NEW d \in Int, Runs(a, d, t) PROVE IsDark(a, t)
  BY <1>1, <1>2, RecentNightRuns DEF IsDark, ActiveDates, Considered, Runs
<1>3. ASSUME IsDark(a, t) PROVE \E d \in Int : Runs(a, d, t)
  BY <1>1, <1>3 DEF IsDark, ActiveDates, Considered, Runs
<1>4. QED BY <1>2, <1>3

\* A night of the schedule runs exactly while no later sunrise, and without one
\* no later 07:00, has come.
LEMMA RunsByDefinition ==
  ASSUME NEW a \in Almanacs, NEW d \in Int, NEW t \in Int, -2 <= d
  PROVE  LET start == Resolve(a, d * Slots + a.start)
         IN  Runs(a, d, t) <=>
               /\ start <= t
               /\ \A s \in Sunrises(a) : ~(start < s /\ s <= t)
               /\ \/ \E s \in Sunrises(a) : s > start
                  \/ \A e \in DatesSoFar(a, t) :
                       ~ (start < Resolve(a, e * Slots + FallbackAt)
                          /\ Resolve(a, e * Slots + FallbackAt) <= t)
<1> DEFINE start == Start(a, d)
           end == NightOf(a, d).end
           morning(e) == Resolve(a, e * Slots + FallbackAt)
           OverBySun == \E s \in Sunrises(a) : start < s /\ s <= t
           OverByClock == \E e \in DatesSoFar(a, t) : start < morning(e) /\ morning(e) <= t
<1>1. start \in Int /\ NightOf(a, d).start = start /\ end \in Int /\ DateOf(a, t) \in Int
  BY NightBegins, NightEnds, DateBounds
<1>2. SUFFICES ASSUME start <= t
               PROVE  t < end <=> ~OverBySun /\ (Later(a, d) # {} \/ ~OverByClock)
  <2>1. Runs(a, d, t) <=> start <= t /\ t < end
    BY <1>1 DEF Runs
  <2>2. Later(a, d) # {} <=> \E s \in Sunrises(a) : s > start
    BY DEF Later
  <2> HIDE DEF end
  <2>3. QED BY <1>2, <2>1, <2>2 DEF Start
<1>3. Sunrises(a) \in SUBSET Int
  BY SunrisesBegin
<1>4. CASE Later(a, d) # {}
  <2>1. end \in Later(a, d) /\ \A s \in Later(a, d) : end <= s
    BY <1>4, NightEnds
  <2> HIDE DEF end
  <2>2. ASSUME end <= t PROVE OverBySun
    BY <1>1, <2>1, <2>2 DEF Later
  <2>3. ASSUME OverBySun PROVE end <= t
    BY <1>1, <1>3, <2>1, <2>3 DEF Later
  <2>4. QED BY <1>1, <1>4, <2>2, <2>3
<1>5. CASE Later(a, d) = {}
  <2>1. ~OverBySun
    BY <1>5 DEF Later
  <2>2. end = Fallback(a, d, start)
    BY <1>5, NightEnds
  <2>3. /\ end \in {morning(d), morning(d + 1)} /\ start < end
        /\ morning(d) > start => end = morning(d)
        /\ \A e \in Int : morning(e) \in Int /\ (start < morning(e) => end <= morning(e))
    BY <2>2, FallbackOutcome
  <2>4. d <= DateOf(a, t)
    BY <1>2, NightBegins
  <2>5. morning(d + 1) <= t => d + 1 <= DateOf(a, t)
    <3>1. (d + 1) * Slots \in Int /\ DateOf(a, t) * Slots \in Int
      BY <1>1, Midnight
    <3>2. SUFFICES ASSUME (d + 1) * Slots + FallbackAt <= LocalTime(a, t), DateOf(a, t) < d + 1
                   PROVE  FALSE
      BY <1>1, <3>1, ResolveIsFirst, NightAssumption
    <3>3. DateOf(a, t) * Slots + Slots <= (d + 1) * Slots
      BY <1>1, <3>2, DaysApart
    <3>4. QED BY <3>1, <3>2, <3>3, DateBounds, ResolveIsFirst, NightAssumption
  <2>6. DatesSoFar(a, t) \subseteq Int /\ \A e \in {d, d + 1} : e <= DateOf(a, t) => e \in DatesSoFar(a, t)
    BY <1>1 DEF DatesSoFar
  <2> HIDE DEF end, morning
  <2>7. ASSUME end <= t PROVE OverByClock
    BY <2>3, <2>4, <2>5, <2>6, <2>7
  <2>8. ASSUME OverByClock PROVE end <= t
    BY <1>1, <2>3, <2>6, <2>8
  <2>9. QED BY <1>1, <1>5, <2>1, <2>7, <2>8
<1>6. QED BY <1>4, <1>5

\* The first conjunct of NightIsDefined ...
LEMMA DarkIsDefined ==
  ASSUME NEW a \in Almanacs, NEW t \in Nat
  PROVE  IsDark(a, t) <=> DarkByDefinition(a, t)
<1>1. DateOf(a, t) \in Int /\ -1 <= DateOf(a, t)
  <2>1. -1 <= LocalTime(a, t) /\ LocalTime(a, t) \in Int
    <3>1. a.shift \in [at : 0 .. Days * Slots, by : {-1, 0, 1}] /\ Days * Slots \in Int
      BY NightAssumption DEF Almanacs
    <3>2. QED BY <3>1 DEF LocalTime
  <2>2. DateOf(a, t) \in Int /\ DateOf(a, t) * Slots \in Int
    BY DateBounds, Midnight
  <2>3. DateOf(a, t) < -1 => DateOf(a, t) * Slots + Slots <= (-1) * Slots
    BY <2>2, DaysApart
  <2>4. (-1) * Slots = -Slots
    BY NightAssumption
  <2>5. QED BY <2>1, <2>2, <2>3, <2>4, DateBounds, NightAssumption
<1>2. ASSUME NEW d \in Int, Runs(a, d, t) PROVE \E e \in DatesSoFar(a, t) : Runs(a, e, t)
  BY <1>1, <1>2, RecentNightRuns DEF DatesSoFar
<1>3. \A d \in DatesSoFar(a, t) : d \in Int /\ -2 <= d
  BY <1>1 DEF DatesSoFar
<1>4. DarkByDefinition(a, t) <=> \E d \in DatesSoFar(a, t) : Runs(a, d, t)
  BY <1>3, RunsByDefinition DEF DarkByDefinition
<1>5. QED BY <1>2, <1>3, <1>4, DarkWhileOneRuns

\* ... and the second: the status page announces no transition too late.
LEMMA NothingBeforeTransition ==
  ASSUME NEW a \in Almanacs, NEW t \in Nat, NEW u \in t .. NextTransition(a, t) - 1
  PROVE  IsDark(a, u) <=> IsDark(a, t)
<1> DEFINE today == DateOf(a, t)
           active == ActiveDates(a, t)
           coming == ComingDates(a, t)
<1>1. today \in Int /\ Considered(a, t) \in SUBSET Int /\ \A d \in Considered(a, t) : today - 1 <= d /\ d <= today + 1
  BY DateBounds DEF Considered
<1>2. CASE IsDark(a, t)
  <2>1. active # {} /\ active \in SUBSET Int /\ (\A d \in active : d <= today + 1) /\ today + 1 \in Int
    BY <1>1, <1>2 DEF IsDark, ActiveDates
  <2>2. Max(active) \in active
    BY <2>1, GreatestOf
  <2>3. PICK d \in Int : d \in active /\ NextTransition(a, t) = NightOf(a, d).end
    BY <2>1, <2>2 DEF NextTransition
  <2>4. NightOf(a, d).end \in Int /\ NightOf(a, d).start \in Int /\ NightOf(a, d).start <= t
    BY <2>3, NightBegins, NightEnds DEF ActiveDates
  <2>5. u \in Int /\ t <= u /\ u < NightOf(a, d).end
    BY <2>3, <2>4
  <2>6. Runs(a, d, u)
    BY <2>4, <2>5 DEF Runs
  <2>7. QED BY <1>2, <2>5, <2>6, DarkWhileOneRuns
<1>3. CASE ~IsDark(a, t)
  <2>1. active = {}
    BY <1>3 DEF IsDark
  <2>2. \A d \in Int : Start(a, d) \in Int /\ NightOf(a, d).start = Start(a, d)
    BY NightBegins
  <2>3. \A d \in Int : Start(a, d) > t /\ d <= today + 1 => d \in coming
    <3> SUFFICES ASSUME NEW d \in Int, Start(a, d) > t, d <= today + 1 PROVE d \in coming
      OBVIOUS
    <3>1. ~ (d < today)
      BY <1>1, <2>2, NightBegins
    <3>2. QED BY <1>1, <2>2, <3>1 DEF ComingDates, Considered
  <2>4. today + 1 \in coming
    BY <1>1, <2>2, <2>3, NightBegins
  <2>5. coming \in SUBSET Int /\ (\A d \in coming : today - 1 <= d /\ d <= today + 1) /\ today - 1 \in Int
    BY <1>1 DEF ComingDates
  <2>6. PICK m \in Int : m \in coming /\ m = Min(coming) /\ \A d \in coming : m <= d
    BY <2>4, <2>5, LeastOf
  <2>7. NextTransition(a, t) = Start(a, m)
    BY <2>1, <2>2, <2>6 DEF NextTransition
  <2>8. u \in Int /\ t <= u /\ u < Start(a, m)
    BY <2>2, <2>6, <2>7
  <2>9. ASSUME NEW d \in Int, Runs(a, d, u) PROVE FALSE
    <3>1. Start(a, d) <= u /\ u < NightOf(a, d).end /\ NightOf(a, d).end \in Int
      BY <2>2, <2>9, NightEnds DEF Runs
    <3>2. d < m
      BY <2>2, <2>6, <2>8, <3>1, NightBegins
    <3>3. CASE Start(a, d) > t
      BY <1>1, <2>3, <2>5, <2>6, <3>2, <3>3
    <3>4. CASE Start(a, d) <= t
      <4>1. Runs(a, d, t)
        BY <2>2, <2>8, <3>1, <3>4 DEF Runs
      <4>2. QED BY <1>3, <4>1, DarkWhileOneRuns
    <3>5. QED BY <2>2, <3>3, <3>4
  <2>10. QED BY <1>3, <2>8, <2>9, DarkWhileOneRuns
<1>4. QED BY <1>2, <1>3

\* The sky is one of the scenario's.
SkyInv ==
  /\ scenario \in Scenarios
  /\ almanac \in World[scenario].almanacs /\ now \in World[scenario].moments

LEMMA SkyStep == ASSUME SkyInv, [Next]_vars PROVE SkyInv'
<1>1. UNCHANGED <<scenario, almanac>>
  BY DEF Next, Environment, SaveForm, SaveLook, FeedAnswers, FeedFails, WeatherAnswers,
         SolarAnswers, DataAges, MinuteTurns, ClockMoves, RampAges, PanelBreaksOrRecovers,
         Moving, TouchStep, PressFinger, MoveFinger, ReleaseFinger, LongPress, FingerWaits,
         TouchOnly, Touching, DrawFrame, StartAgain, Quit, vars
<1>2. now' = now \/ now' \in World[scenario].moments
  BY DEF Next, Environment, SaveForm, SaveLook, FeedAnswers, FeedFails, WeatherAnswers,
         SolarAnswers, DataAges, MinuteTurns, ClockMoves, RampAges, PanelBreaksOrRecovers,
         TouchStep, PressFinger, MoveFinger, ReleaseFinger, LongPress, FingerWaits,
         TouchOnly, Touching, DrawFrame, StartAgain, Quit, vars, clockVars
<1>3. QED BY <1>1, <1>2 DEF SkyInv

\* Yesterday, today and tomorrow are enough to know whether it is night, and
\* nothing changes before the announced transition (display_policy): for any
\* start, any pattern of days without a sunrise, and a change of offset anywhere.
THEOREM NightsAreDefined == Spec => []NightIsDefined
<1>1. Init => SkyInv
  BY DEF Init, SkyInv
<1>2. SkyInv /\ [Next]_vars => SkyInv'
  BY SkyStep
<1>3. SkyInv => NightIsDefined
  <2> SUFFICES ASSUME SkyInv PROVE NightIsDefined
    OBVIOUS
  <2>1. almanac \in Almanacs /\ now \in Nat
    BY WorldAssumption DEF SkyInv
  <2>2. IsDark(almanac, now) = DarkByDefinition(almanac, now)
    <3>1. IsDark(almanac, now) <=> DarkByDefinition(almanac, now)
      BY <2>1, DarkIsDefined
    <3>2. QED BY <3>1 DEF IsDark, DarkByDefinition
  <2>3. \A t \in now .. NextTransition(almanac, now) - 1 :
          IsDark(almanac, t) = IsDark(almanac, now)
    <3> TAKE t \in now .. NextTransition(almanac, now) - 1
    <3>1. IsDark(almanac, t) <=> IsDark(almanac, now)
      BY <2>1, NothingBeforeTransition
    <3>2. QED BY <3>1 DEF IsDark
  <2>4. QED BY <2>2, <2>3 DEF NightIsDefined
<1>4. QED BY <1>1, <1>2, <1>3, PTL DEF Spec
====
