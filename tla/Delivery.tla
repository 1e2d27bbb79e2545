---- MODULE Delivery ----
(***************************************************************************)
(* An installation seen from its connection to the Pi: a control process   *)
(* acquires the release (Acquire), finds the board, puts the application's *)
(* helper on it, reboots it into the trial, runs the helper, renames the   *)
(* board, follows it and reboots it again (Reconnect).  Another process    *)
(* uses the caches meanwhile.  The helper also keeps the Pi's record, and  *)
(* is started for it before anything has checked its digest.  What the     *)
(* driver does along the way, and how the records are judged, is module    *)
(* Installer's.                                                            *)
(***************************************************************************)
EXTENDS Acquire, Reconnect

CONSTANTS
  Us,        \* the process that installs
  MaxRuns    \* how often the command is given

ASSUME DeliveryAssumption == Us \in Tools /\ MaxRuns \in Nat

VARIABLES
  runs,
  phase,    \* the Mac's installation record
  kept,     \* the Pi's
  upload,   \* the file in the Pi's upload directory
  helper,   \* the helper's file on the Pi
  dirty,    \* whether the helper is not on the card yet
  probed,   \* observed only: a probe has found the board since the last download
  last      \* observed only: the last command that ran, and where

records == <<phase, kept>>
piFiles == <<upload, helper, dirty>>
vars == <<acquireVars, networkVars, clientVars, runs, records, piFiles, probed, last>>

\* Phases of the records between which the connection makes no difference are
\* one here: "found" is PreflightPassed, "ready" is DriverReady and
\* TrybootStaged, "tried" is TrybootVerified and DriverAccepted.
Phases == {"none", "found", "acquired", "ready", "tried", "installed", "renamed", "rebooted"}
Clients == {"idle", "acquire", "select", "load", "catchup", "discover", "upload", "deploy",
            "check", "save", "readback", "driver", "redriver", "recheck", "identify", "reboot",
            "watch", "return", "precheck", "display", "instcheck", "install", "rename",
            "follow", "failed", "done"}
Files == {"absent", "part", "released", "damaged"}
Commands == {"none", "other", "record", "reboot", "display", "install"}

Nothing == [on |-> Nobody, command |-> "none", program |-> "absent", probed |-> FALSE]

Init ==
  /\ AcquireInit
  /\ NetworkInit
  /\ client = "idle" /\ target = "original" /\ left = 0
  /\ runs = 0 /\ phase = "none" /\ kept = "none"
  /\ upload = "absent" /\ helper = "absent" /\ dirty = FALSE
  /\ probed = FALSE /\ last = Nothing

-----------------------------------------------------------------------------
(* The command starts, is interrupted, and acquires what it installs. *)

Start ==
  /\ client \in Ended /\ runs < MaxRuns
  /\ Again(Us)
  /\ client' = "acquire" /\ pins' = {} /\ target' = "original" /\ left' = 0
  /\ runs' = runs + 1 /\ last' = Nothing /\ probed' = FALSE
  /\ UNCHANGED <<networkVars, trusted, records, piFiles>>

Kill ==
  /\ client \notin Ended
  /\ client' = "idle" /\ pins' = {} /\ target' = "original" /\ left' = 0
  /\ last' = Nothing /\ probed' = FALSE
  /\ UNCHANGED <<acquireVars, networkVars, trusted, runs, records, piFiles>>

Downloading == {"acquire", "driver", "redriver"}

Acquiring ==
  /\ client \in Downloading
  /\ AcquireStep(Us)
  /\ UNCHANGED <<networkVars, clientVars, runs, records, piFiles, probed, last>>

\* Where an installation goes on once the driver is at hand: in its first run
\* that is recorded, in a resumed one the next phase begins.
NextPhase ==
  CASE client = "redriver" \/ phase = "acquired" -> "save"
    [] phase = "ready" -> "identify"
    [] phase = "tried" -> "instcheck"
    [] phase = "installed" -> "rename"
    [] phase \in {"renamed", "rebooted"} -> "follow"

Acquired ==
  /\ client \in Downloading /\ step[Us] \in {"failed", "ready"}
  /\ client' = IF step[Us] = "failed" THEN "failed"
               ELSE IF client = "acquire" THEN "select" ELSE NextPhase
  /\ left' = IF client' = "follow" THEN FollowRounds ELSE left
  /\ UNCHANGED <<acquireVars, networkVars, trusted, pins, target, runs, records, piFiles, probed, last>>

\* Both names are probed with what known_hosts has for them.  A board with a
\* record of this installation is taken, the original name first; without one
\* the original name starts an installation.  On another board that would be
\* an installation of its own, which is not followed here.
Visible(n) == trusted[n] # "no key" /\ reach[n] # Nobody /\ KeyOf(reach[n]) = trusted[n]

Select ==
  /\ client = "select"
  /\ \E missed \in IF Lossy THEN SUBSET Names ELSE {{}} :
       LET seen == { n \in Names \ missed : Visible(n) }
           resumable == { n \in seen : reach[n] = Pi /\ phase # "none" }
       IN /\ target' = IF "original" \in resumable \/ resumable = {} THEN "original" ELSE "desired"
          /\ probed' = (resumable # {} \/ ("original" \in seen /\ reach["original"] = Pi))
  /\ client' = IF probed' THEN "load" ELSE "failed"
  /\ UNCHANGED <<acquireVars, networkVars, trusted, pins, left, runs, records, piFiles, last>>

-----------------------------------------------------------------------------
(* Commands on the board, and their effect if that is the Pi. *)

OnPi == reach[target] = Pi

Ran(outcome, command, program) ==
  last' = IF outcome = "lost" THEN last
          ELSE [on |-> reach[target], command |-> command, program |-> program, probed |-> probed]

\* Whether a helper that was started does its work: the released one does, what
\* a power cut left of one may or may not, and so may a clone's.
Serves == IF ~OnPi \/ helper \notin {"absent", "released"} THEN BOOLEAN
          ELSE {helper = "released"}

\* The Pi's record is read by the helper: tested to be an executable file, and
\* started.  A test that fails in any way is taken for "no helper, no record"; a
\* helper that fails is an error.
Reading(result) ==
  \E test, answer \in Command, works \in Serves :
    IF test # "answered" \/ (OnPi /\ helper = "absent")
    THEN Ran(test, "other", "absent") /\ result = "none"
    ELSE /\ Ran(IF answer = "lost" THEN test ELSE answer,
                IF answer = "lost" THEN "other" ELSE "record",
                IF answer = "lost" THEN "absent" ELSE helper)
         /\ result = IF answer = "answered" /\ works THEN "read" ELSE "error"

Rank == [none |-> 0, found |-> 1, acquired |-> 2, ready |-> 3, tried |-> 4,
         installed |-> 5, renamed |-> 6, rebooted |-> 7]

\* A run begins with both records.  The Mac's may have no counterpart before
\* the application is there.  One of the Pi that is ahead is taken over once
\* what the Mac's lacks is verified, the helper's digest among it if that has
\* no application yet; anything else is a disagreement.
Load ==
  /\ client = "load"
  /\ \E result \in {"none", "read", "error"} :
       /\ Reading(result)
       /\ LET found == IF result = "read" THEN kept ELSE "none"
              ahead == phase # "none" /\ Rank[found] > Rank[phase]
          IN /\ client' = IF result = "error" THEN "failed"
                          ELSE IF ahead THEN IF phase = "found" THEN "catchup" ELSE "discover"
                          ELSE IF found = phase \/ (found = "none" /\ phase = "found") THEN "discover"
                          ELSE "failed"
             /\ phase' = IF client' = "discover" /\ ahead THEN kept ELSE phase
  /\ UNCHANGED <<acquireVars, networkVars, trusted, pins, target, left, runs, kept, piFiles, probed>>

\* The record is written by the helper, and read back before the Mac's follows.
Upcoming == [found |-> "acquired", acquired |-> "ready", ready |-> "tried",
             tried |-> "installed", installed |-> "renamed", renamed |-> "rebooted"]

Save ==
  /\ client = "save"
  /\ \E outcome \in Command, works \in Serves :
       /\ Ran(outcome, "record", helper)
       /\ kept' = IF outcome # "lost" /\ works /\ OnPi THEN Upcoming[phase] ELSE kept
       /\ client' = IF outcome = "answered" /\ works THEN "readback" ELSE "failed"
  /\ UNCHANGED <<acquireVars, networkVars, trusted, pins, target, left, runs, phase, piFiles, probed>>

AfterSave == [acquired |-> "driver", ready |-> "identify", tried |-> "instcheck",
              installed |-> "rename", renamed |-> "identify", rebooted |-> "done"]

Readback ==
  /\ client = "readback"
  /\ \E result \in {"none", "read", "error"} :
       /\ Reading(result)
       /\ IF result = "read" /\ (OnPi => kept = Upcoming[phase])
          THEN phase' = Upcoming[phase] /\ client' = AfterSave[phase']
          ELSE client' = "failed" /\ UNCHANGED phase
  /\ IF client' = "driver" THEN SyncDriver(Us) /\ probed' = FALSE
     ELSE UNCHANGED <<acquireVars, probed>>
  /\ UNCHANGED <<networkVars, trusted, pins, target, left, runs, kept, piFiles>>

\* A new upload directory, and the payload copied into it.
Upload ==
  /\ client = "upload"
  /\ \E outcome \in Command :
       /\ Ran(outcome, "other", "absent")
       /\ upload' \in CASE outcome = "answered" -> {payload[Us]}
                        [] outcome = "unanswered" -> {payload[Us], "part"}
                        [] outcome = "lost" -> {"absent"}
       /\ client' = IF outcome = "answered" THEN "deploy" ELSE "failed"
  /\ UNCHANGED <<acquireVars, networkVars, trusted, pins, target, left, runs, records, helper, dirty, probed>>

\* The helper's file replaces the one before only if the upload has the
\* payload's digest.  It is not forced to the card.  The upload directory is
\* removed by a command of its own, whatever became of the first.
Deploy ==
  /\ client = "deploy"
  /\ \E outcome, removal \in Command :
       LET moved == outcome # "lost" /\ upload = payload[Us]
       IN /\ Ran(outcome, "other", "absent")
          /\ helper' = IF moved THEN upload ELSE helper
          /\ dirty' = (moved \/ dirty)
          /\ upload' = IF removal = "lost" THEN upload ELSE "absent"
          /\ client' = IF moved /\ outcome = "answered" /\ removal = "answered"
                       THEN "check" ELSE "failed"
  /\ UNCHANGED <<acquireVars, networkVars, trusted, pins, target, left, runs, records, probed>>

\* Mutant: a helper that is there is the helper.
HelperIsThere == helper # "absent"

\* The digest of the helper's file, computed on the board.
HelperIsReleased == helper = payload[Us]

\* The helper is checked after it was put there, when the installation
\* resumes, and before it tests the display or installs.  A resumed
\* installation whose helper is not the one puts it there again.
Checked == [check |-> "save", catchup |-> "discover", recheck |-> "driver",
            precheck |-> "display", instcheck |-> "install"]

Check ==
  /\ client \in DOMAIN Checked
  /\ \E outcome \in Command, right \in IF OnPi THEN {HelperIsReleased} ELSE BOOLEAN :
       /\ Ran(outcome, "other", "absent")
       /\ client' = IF outcome # "answered" THEN "failed"
                    ELSE IF right THEN Checked[client]
                    ELSE IF client = "recheck" THEN "upload"
                    ELSE "failed"
  /\ phase' = CASE client' = "upload" -> "found"
                [] client' = "discover" -> kept
                [] OTHER -> phase
  /\ IF client' = "driver" THEN SyncDriver(Us) /\ probed' = FALSE
     ELSE UNCHANGED <<acquireVars, probed>>
  /\ UNCHANGED <<networkVars, trusted, pins, target, left, runs, kept, piFiles>>

\* The answer to a reboot command is ignored: the connection is expected to go.
Reboot ==
  /\ client = "reboot"
  /\ \E outcome \in Command :
       /\ Ran(outcome, "reboot", "absent")
       /\ power' = IF outcome # "lost" /\ OnPi THEN "going" ELSE power
  /\ client' = "watch" /\ left' = WatchRounds
  /\ UNCHANGED <<acquireVars, renamed, numeric, reach, moves, cuts, trusted, pins, target, runs, records, piFiles, probed>>

\* The helper is run as root, to test the display under the trial and to
\* install the application.
RunHelper ==
  /\ client \in {"display", "install"}
  /\ \E outcome \in Command, works \in Serves :
       /\ Ran(outcome, client, helper)
       /\ client' = IF outcome = "answered" /\ works THEN "save" ELSE "failed"
  /\ UNCHANGED <<acquireVars, networkVars, trusted, pins, target, left, runs, records, piFiles, probed>>

\* The name changes at once, and the program goes after it.
Rename ==
  /\ client = "rename"
  /\ \E outcome \in Command :
       /\ Ran(outcome, "other", "absent")
       /\ renamed' = (renamed \/ (outcome # "lost" /\ OnPi))
       /\ client' = IF outcome = "answered" THEN "follow" ELSE "failed"
  /\ left' = IF client' = "follow" THEN FollowRounds ELSE 0
  /\ UNCHANGED <<acquireVars, power, numeric, reach, moves, cuts, trusted, pins, target, runs, records, piFiles, probed>>

\* The waits and the probes.  After the last reboot the driver is asked for
\* again, for the board has another name.
Wait ==
  /\ \/ Watch /\ UNCHANGED acquireVars
     \/ phase = "ready" /\ Return("precheck") /\ UNCHANGED acquireVars
     \/ /\ phase = "renamed" /\ Return("redriver")
        /\ IF client' = "redriver" THEN SyncDriver(Us) ELSE UNCHANGED acquireVars
     \/ /\ Follow(CASE phase = "installed" -> "save"
                    [] phase = "renamed" -> "identify"
                    [] phase = "rebooted" -> "done")
        /\ UNCHANGED acquireVars
     \/ Identify("reboot") /\ UNCHANGED acquireVars
  /\ probed' = (client' # "redriver" /\ (probed \/ client' \notin Waiting \cup Ended))
  /\ UNCHANGED <<networkVars, runs, records, piFiles, last>>

\* The board is probed for every phase the records claim, or to begin with.
Discover ==
  /\ client = "discover"
  /\ \E found \in Probe(target, KeyFor(target)) :
       client' = CASE found # "found" -> "failed"
                   [] phase \in {"none", "found"} -> "upload"
                   [] OTHER -> "recheck"
  /\ phase' = IF client' = "upload" THEN "found" ELSE phase
  /\ UNCHANGED <<acquireVars, networkVars, trusted, pins, target, left, runs, kept, piFiles, probed, last>>

-----------------------------------------------------------------------------
(* Everyone else. *)

\* The other process, and whatever damages the caches, are only followed while
\* this one reads them: nothing it does in between depends on them.
Others ==
  /\ client \in Downloading
  /\ \/ \E p \in Tools \ {Us} : AcquireStep(p) \/ SyncDriver(p)
     \/ Rot
  /\ UNCHANGED <<networkVars, clientVars, runs, records, piFiles, probed, last>>

\* An orderly shutdown writes the helper to the card; a power cut before that
\* may leave a part of it.
Board ==
  /\ \/ (Announce \/ Boot \/ Take) /\ UNCHANGED <<helper, dirty>>
     \/ ShutDown /\ dirty' = FALSE /\ UNCHANGED helper
     \/ /\ Cut /\ dirty' = FALSE
        /\ helper' \in {helper} \cup (IF dirty THEN {"part"} ELSE {})
  /\ UNCHANGED <<acquireVars, clientVars, runs, records, upload, probed, last>>

Progress ==
  \/ Acquiring \/ Acquired \/ Select \/ Load \/ Discover \/ Upload \/ Deploy \/ Check
  \/ Save \/ Readback \/ Reboot \/ RunHelper \/ Rename \/ Wait

Next == Start \/ Kill \/ Progress \/ Others \/ Board

Spec == Init /\ [][Next]_vars

-----------------------------------------------------------------------------
TypeOK ==
  /\ AcquireTypeOK /\ ReconnectTypeOK
  /\ client \in Clients
  /\ runs \in 0..MaxRuns /\ phase \in Phases /\ kept \in Phases
  /\ upload \in Files /\ helper \in Files /\ dirty \in BOOLEAN
  /\ probed \in BOOLEAN
  /\ last \in [on : Machines \cup {Nobody}, command : Commands, program : Files, probed : BOOLEAN]

\* What runs on another board than the Pi, although commands check the host key
\* only, boards started from copies of one card share it, and names are taken
\* while the Pi is away: nothing before the program has spent a download since
\* it last probed the board, and never a reboot or the test of the display.
CommandsReachThePi ==
  last.on \in {Nobody, Pi} \/ (~last.probed /\ last.command \notin {"reboot", "display"})

\* What the code's documents promise, and does not hold: see clone_renamed.cfg.
EveryCommandReachesThePi == last.on \in {Nobody, Pi}

\* Whatever became of downloads, uploads, the shared cache and the Pi's power,
\* the helper that tests the display or installs is the released application;
\* for its record the Pi may also start what a power cut has left of it, and
\* never anything else.
OnlyReleasedRuns ==
  last.on = Pi =>
    \/ last.program \in {"absent", "released"}
    \/ last.program = "part" /\ last.command = "record" /\ cuts > 0

\* That the helper is checked before it is started does not hold of the record:
\* see partial_helper.cfg.
OnlyCheckedRuns == last.on = Pi => last.program \in {"absent", "released"}

\* An installation that was begun finds its board again: given again, and with
\* a network that loses nothing, the command fails to select a target only
\* while the Pi answers neither name.
RerunFindsThePi ==
  [][ client = "select" /\ client' = "failed" /\ phase # "none"
        => \A n \in Names : reach[n] # Pi ]_vars
====
