---- MODULE NightPolicy ----
(***************************************************************************)
(* display_policy (src/src/night_mode.rs): from the settings, the sunrise  *)
(* schedule of the configured place and the wall clock, whether it is      *)
(* night and when that changes next.  A night begins at the configured     *)
(* local time and ends at the first sunrise after it, or at 07:00 when the *)
(* schedule has none.  The code looks at yesterday, today and tomorrow.    *)
(*                                                                         *)
(* A day has Slots instants.  The time zone changes its offset at most     *)
(* once, which may skip local times (a gap) or repeat them (a fold).       *)
(***************************************************************************)
EXTENDS Integers, FiniteSetsExt

CONSTANTS
  Slots,       \* instants in a day
  Days,        \* dates that have a row in the schedule, 0 .. Days - 1
  FallbackAt   \* 07:00, as a slot

ASSUME NightAssumption ==
  /\ Slots \in Nat \ {0, 1, 2}
  /\ Days \in Nat \ {0}
  /\ FallbackAt \in 1 .. Slots - 1

Dates == 0 .. Days - 1
NoSunrise == -1

\* start is night.start_hour and start_minute; sunrise the rows of the
\* schedule; shift the change of offset: from at on, local time is by ahead.
Almanacs ==
  [ start   : 0 .. Slots - 1,
    sunrise : [Dates -> {NoSunrise} \cup (0 .. Slots - 1)],
    shift   : [at : 0 .. Days * Slots, by : {-1, 0, 1}] ]

LocalTime(a, t) == IF t < a.shift.at THEN t ELSE t + a.shift.by

DateOf(a, t) == LocalTime(a, t) \div Slots

\* resolve_local: a repeated local time is its first instant, a skipped one
\* the instant of the change.
Resolve(a, local) ==
  IF local < a.shift.at THEN local
  ELSE IF local - a.shift.by >= a.shift.at THEN local - a.shift.by
  ELSE a.shift.at

Sunrises(a) ==
  {Resolve(a, d * Slots + a.sunrise[d]) : d \in {e \in Dates : a.sunrise[e] # NoSunrise}}

\* next_fallback
Fallback(a, d, start) ==
  LET same == Resolve(a, d * Slots + FallbackAt)
  IN  IF same > start THEN same ELSE Resolve(a, (d + 1) * Slots + FallbackAt)

NightOf(a, d) ==
  LET start == Resolve(a, d * Slots + a.start)
      later == {s \in Sunrises(a) : s > start}
  IN  [ start    |-> start,
        end      |-> IF later # {} THEN Min(later) ELSE Fallback(a, d, start),
        fallback |-> later = {} ]

\* Mutant: the night that began yesterday is forgotten at midnight.
FromToday(a, now) == DateOf(a, now) .. DateOf(a, now) + 1

Considered(a, now) == DateOf(a, now) - 1 .. DateOf(a, now) + 1

ActiveDates(a, now) ==
  {d \in Considered(a, now) : NightOf(a, d).start <= now /\ now < NightOf(a, d).end}

ComingDates(a, now) == {d \in Considered(a, now) : NightOf(a, d).start > now}

IsDark(a, now) == ActiveDates(a, now) # {}

\* Mutant: the last night to come is announced.
NextOfLast(a, now) ==
  LET active == ActiveDates(a, now)
  IN  IF active # {} THEN NightOf(a, Max(active)).end
      ELSE NightOf(a, Max(ComingDates(a, now))).start

\* next_transition: the end of the latest night that is active, else the
\* start of the first to come.
NextTransition(a, now) ==
  LET active == ActiveDates(a, now)
  IN  IF active # {} THEN NightOf(a, Max(active)).end
      ELSE NightOf(a, Min(ComingDates(a, now))).start

----
\* The dates up to today, from before the first that has a row.
DatesSoFar(a, now) == -2 .. DateOf(a, now)

\* It is night exactly while some night that has begun is not over: it ends
\* with the first sunrise after its start, whatever date it began on, and at
\* the first 07:00 where the schedule holds no later sunrise.
DarkByDefinition(a, now) ==
  \E d \in DatesSoFar(a, now) :
    LET start == Resolve(a, d * Slots + a.start)
    IN  /\ start <= now
        /\ \A s \in Sunrises(a) : ~(start < s /\ s <= now)
        /\ \/ \E s \in Sunrises(a) : s > start
           \/ \A e \in DatesSoFar(a, now) :
                ~ (start < Resolve(a, e * Slots + FallbackAt)
                   /\ Resolve(a, e * Slots + FallbackAt) <= now)
====
