---- MODULE Reconnect ----
(***************************************************************************)
(* How the control program finds one board again (transport.rs): the       *)
(* network between them, what OpenSSH trusts, the wait for a reboot, and   *)
(* the address the program follows when the board takes a new name.        *)
(*                                                                         *)
(* A probe connects under a pinned host key and reads the board's model    *)
(* and serial; a command connects under the key alone.  `Clone` is another *)
(* board started from a copy of the Pi's card: its host key is the Pi's,   *)
(* its serial is not.                                                      *)
(***************************************************************************)
EXTENDS Naturals, FiniteSets

CONSTANTS
  Pi, Clone, Stranger, Nobody,   \* who may answer at a name
  WatchRounds, ReturnRounds, FollowRounds,   \* probes before a deadline
  MaxMoves,   \* how often another board takes or leaves a name
  MaxCuts,    \* how often the Pi loses power
  Lossy,      \* whether the network may lose a probe, a command or its answer
  Numeric     \* whether the original name may be an IPv4 address

ASSUME ReconnectAssumption ==
  /\ Cardinality({Pi, Clone, Stranger, Nobody}) = 4
  /\ {WatchRounds, ReturnRounds, FollowRounds} \subseteq Nat \ {0}
  /\ {MaxMoves, MaxCuts} \subseteq Nat
  /\ {Lossy, Numeric} \subseteq BOOLEAN

Machines == {Pi, Clone, Stranger}
Names == {"original", "desired"}
Keys == {"its key", "another key", "no key"}
KeyOf(m) == IF m = Stranger THEN "another key" ELSE "its key"

VARIABLES
  power,    \* of the Pi: "up", "going" down for a reboot, "down"
  renamed,  \* whether the Pi's hostname is the desired one
  numeric,  \* whether the original name is an IPv4 address
  reach,    \* who answers at a name
  moves, cuts,
  trusted,  \* the user's known_hosts: the key recorded for a name
  pins,     \* the names whose key this process holds in memory
  client,   \* what the installation does
  target,   \* the name it uses
  left      \* probes until the deadline

networkVars == <<power, renamed, numeric, reach, moves, cuts>>
clientVars == <<trusted, pins, client, target, left>>

Waiting == {"watch", "return", "follow"}

\* The names the Pi answers to when it is up.
PiNames == (IF numeric THEN {"original"} ELSE {})
             \cup {IF renamed THEN "desired" ELSE "original"}

NetworkInit ==
  /\ power = "up"
  /\ renamed = FALSE
  /\ numeric \in {FALSE, Numeric}
  /\ reach = [n \in Names |-> IF n = "original" THEN Pi ELSE Nobody]
  /\ moves = 0 /\ cuts = 0
  /\ trusted \in { [n \in Names |-> IF n = "original" THEN "its key" ELSE k] : k \in {"its key", "no key"} }
  /\ pins = {}

-----------------------------------------------------------------------------
(* Probes and commands. *)

\* The key OpenSSH is given for a name: the pinned one, or known_hosts'.
KeyFor(n) == IF n \in pins THEN "its key" ELSE trusted[n]

Lost == IF Lossy THEN {"unavailable"} ELSE {}

\* Mutant: the host key is the whole identity.
IsExpectedByKey(m) == KeyOf(m) = "its key"

\* The identity a probe must find: host key, model and serial.
IsExpected(m) == m = Pi

\* What a probe of a name under a key finds.
Probe(n, key) ==
  IF reach[n] = Nobody THEN {"unavailable"}
  ELSE Lost \cup { IF KeyOf(reach[n]) = key /\ IsExpected(reach[n])
                   THEN "found" ELSE "refused" }

\* A name without a trusted key is scanned for the expected key, which is
\* pinned once the board behind it has proved to be the expected one.
MustScan(n) == KeyFor(n) = "no key"

FollowProbe(n) == Probe(n, "its key")
WaitProbe(n) == IF MustScan(n) THEN FollowProbe(n) ELSE Probe(n, KeyFor(n))

\* What becomes of a command: it ran and answered, it ran and the answer was
\* lost, or it did not run.
Command ==
  IF KeyFor(target) = "no key" \/ reach[target] = Nobody THEN {"lost"}
  ELSE IF KeyOf(reach[target]) # KeyFor(target) THEN {"lost"}
  ELSE {"answered"} \cup (IF Lossy THEN {"unanswered", "lost"} ELSE {})

\* A failed probe and the pause after it take some of the time that is left.
Remaining == 0 .. (left - 1)

-----------------------------------------------------------------------------
(* The wait for a reboot: the board must go away, then come back. *)

\* The identity was verified just before the reboot command, so the first
\* probe already looks for the disconnect; a lost connection counts as one.
Watch ==
  /\ client = "watch"
  /\ \E found \in WaitProbe(target) :
       CASE found = "unavailable" ->
              /\ client' = "return" /\ left' = ReturnRounds /\ UNCHANGED pins
         [] found = "refused" ->
              /\ client' = "failed" /\ left' = 0 /\ UNCHANGED pins
         [] found = "found" ->
              /\ pins' = IF MustScan(target) THEN pins \cup {target} ELSE pins
              /\ left' \in Remaining
              /\ client' = IF left' = 0 THEN "failed" ELSE "watch"
  /\ UNCHANGED <<trusted, target>>

\* The candidates are the name in use and, for the last reboot, the desired
\* name; the program has moved to the desired name by then, so they are one.
\* Anything but an unreachable name or the expected board ends the wait.
Return(next) ==
  /\ client = "return"
  /\ \E found \in WaitProbe(target) :
       CASE found = "unavailable" ->
              /\ left' \in Remaining
              /\ client' = IF left' = 0 THEN "failed" ELSE "return"
              /\ UNCHANGED pins
         [] found = "refused" ->
              /\ client' = "failed" /\ left' = 0 /\ UNCHANGED pins
         [] found = "found" ->
              /\ pins' = IF MustScan(target) THEN pins \cup {target} ELSE pins
              /\ client' = next /\ left' = 0
  /\ UNCHANGED <<trusted, target>>

\* The new name is scanned and probed until the expected board answers, for
\* thirty seconds; only the wrong board ends it before.
Follow(next) ==
  /\ client = "follow"
  /\ \E found \in FollowProbe("desired") :
       CASE found = "unavailable" ->
              /\ left' \in Remaining
              /\ client' = IF left' = 0 THEN "failed" ELSE "follow"
              /\ UNCHANGED <<pins, target>>
         [] found = "refused" ->
              /\ client' = "failed" /\ left' = 0 /\ UNCHANGED <<pins, target>>
         [] found = "found" ->
              /\ pins' = pins \cup {"desired"} /\ target' = "desired"
              /\ client' = next /\ left' = 0
  /\ UNCHANGED trusted

\* The identity is verified once more, under the key in use.
Identify(next) ==
  /\ client = "identify"
  /\ \E found \in Probe(target, KeyFor(target)) :
       client' = IF found = "found" THEN next ELSE "failed"
  /\ UNCHANGED <<trusted, pins, target, left>>

-----------------------------------------------------------------------------
(* The network and the Pi's power. *)

Ended == {"idle", "failed", "done"}

\* A name of the Pi begins to be answered, or is given up after a renaming.
Announce ==
  /\ power = "up"
  /\ \E n \in Names :
       \/ n \in PiNames /\ reach[n] = Nobody /\ reach' = [reach EXCEPT ![n] = Pi]
       \/ n \notin PiNames /\ reach[n] = Pi /\ reach' = [reach EXCEPT ![n] = Nobody]
  /\ UNCHANGED <<power, renamed, numeric, moves, cuts>>

Silent == [n \in Names |-> IF reach[n] = Pi THEN Nobody ELSE reach[n]]

ShutDown ==
  /\ power = "going"
  /\ power' = "down" /\ reach' = Silent
  /\ UNCHANGED <<renamed, numeric, moves, cuts>>

Cut ==
  /\ power # "down" /\ cuts < MaxCuts
  /\ power' = "down" /\ reach' = Silent /\ cuts' = cuts + 1
  /\ UNCHANGED <<renamed, numeric, moves>>

\* The steps that last: the program waits, downloads or does not run.  Between
\* any two commands in other steps it pauses for less than a boot takes, or
\* than a clone takes to come to a name or to leave it.
Slow == Waiting \cup Ended \cup {"acquire", "driver", "redriver"}

Boot ==
  /\ power = "down" /\ client \in Slow
  /\ power' = "up"
  /\ UNCHANGED <<renamed, numeric, reach, moves, cuts>>

\* Another board takes a name nobody answers, or leaves it.  Its own key gives
\* a stranger away at any time.
Take ==
  /\ moves < MaxMoves /\ moves' = moves + 1
  /\ \E n \in Names, m \in {Clone, Stranger} :
       /\ m = Stranger \/ client \in Slow
       /\ \/ reach[n] = Nobody /\ reach' = [reach EXCEPT ![n] = m]
          \/ reach[n] = m /\ reach' = [reach EXCEPT ![n] = Nobody]
  /\ UNCHANGED <<power, renamed, numeric, cuts>>

-----------------------------------------------------------------------------
ReconnectTypeOK ==
  /\ power \in {"up", "going", "down"}
  /\ renamed \in BOOLEAN /\ numeric \in BOOLEAN
  /\ reach \in [Names -> Machines \cup {Nobody}]
  /\ moves \in 0..MaxMoves /\ cuts \in 0..MaxCuts
  /\ trusted \in [Names -> Keys]
  /\ pins \in SUBSET Names
  /\ target \in Names
  /\ left \in 0..(WatchRounds + ReturnRounds + FollowRounds)
====
