---- MODULE Installer ----
(***************************************************************************)
(* The resumable installation that planeradarctl runs from a Mac           *)
(* (src/crates/planeradarctl/src/install.rs, system_install.rs): twelve    *)
(* phases, each performed, verified and then recorded twice, first on the  *)
(* Pi and then on the Mac.  A run that ends early is repeated with the     *)
(* same command; it compares the records, verifies what they claim and     *)
(* goes on.  One request and one Pi: artifact and identity mismatches end  *)
(* a run before it changes anything and are left out.                      *)
(*                                                                         *)
(* Phases are numbered 1..12 in the order of InstallPhase; 0 is no record. *)
(* The external driver's scripts are modelled by what their callers test.  *)
(***************************************************************************)
EXTENDS Naturals

CONSTANT Budget    \* bound on each kind of misfortune

Kinds == {"crash", "lost", "powerCycle", "drift"}

ASSUME BudgetAssumption == Budget \in [Kinds -> Nat]

Discovered           == 1
PreflightPassed      == 2
ApplicationAcquired  == 3
DriverReady          == 4
TrybootStaged        == 5
TrybootVerified      == 6
DriverAccepted       == 7
ApplicationInstalled == 8
HostnameChanged      == 9
FinalRebooted        == 10
FinalVerified        == 11
Complete             == 12

NoRecord == 0
Phases == Discovered .. Complete

VARIABLES
  mac,    \* phase of the Mac's record
  pi,     \* the Pi: record and what is installed
  ctl,    \* the planeradarctl process
  spent   \* misfortunes so far

vars == <<mac, pi, ctl, spent>>

Pi ==
  [ record  : {NoRecord} \cup Phases,   \* last_verified_phase
    owned   : BOOLEAN,                  \* owned_files is not empty
    helper  : BOOLEAN,                  \* the installer helper is in place
    driver  : {"none", "staged", "committed", "accepted"},
    boot    : {"old", "trial", "new"},  \* without the driver; tryboot; with it
    app     : {"absent", "unhealthy", "healthy"},
    renamed : BOOLEAN ]

Ctl ==
  [ pc        : {"idle", "load", "reconcile", "adopt", "validate", "perform",
                 "probe", "record", "verify", "saveTarget", "saveMac"},
    phase     : Phases,                   \* the phase at hand
    goal      : {NoRecord} \cup Phases,   \* the last phase to reconcile or to validate
    persisted : {NoRecord} \cup Phases,   \* persisted_target_phase
    owned     : BOOLEAN ]                 \* owned_files is not empty

TypeOK ==
  /\ mac \in {NoRecord} \cup Phases
  /\ pi \in Pi
  /\ ctl \in Ctl
  /\ spent \in [Kinds -> Nat]
  /\ \A k \in Kinds : spent[k] <= Budget[k]

NewProcess(pc) ==
  [pc |-> pc, phase |-> Discovered, goal |-> NoRecord, persisted |-> NoRecord, owned |-> FALSE]

\* A clean Pi, or one whose driver an earlier installation has accepted.
Init ==
  /\ mac = NoRecord
  /\ \E d \in {"none", "accepted"} :
       pi = [ record |-> NoRecord, owned |-> FALSE, helper |-> FALSE, driver |-> d,
              boot |-> IF d = "none" THEN "old" ELSE "new",
              app |-> "absent", renamed |-> FALSE ]
  /\ ctl = NewProcess("idle")
  /\ spent = [k \in Kinds |-> 0]

----
(* What the backend's checks see *)

Committed == pi.driver \in {"committed", "accepted"}

\* The receipt, the module loaded and a normal boot.
ReusableDriver == pi.driver = "accepted" /\ pi.boot = "new"

\* A staged trial is an active transaction, which the preflight refuses.
PreflightAllows == pi.driver # "staged"

ResumePreflight ==
  \/ ctl.persisted >= TrybootStaged
  \/ ctl.persisted = DriverReady /\ pi.driver = "staged"

StagedHolds ==
  \/ ReusableDriver
  \/ /\ ctl.persisted >= DriverAccepted /\ Committed
     /\ pi.boot = IF ctl.persisted >= FinalRebooted THEN "new" ELSE "trial"
  \/ ctl.persisted = TrybootVerified /\ Committed
  \/ ctl.persisted < DriverAccepted /\ pi.driver = "staged"

TrialHolds ==
  \/ ReusableDriver
  \/ ctl.persisted >= FinalRebooted /\ Committed /\ pi.boot = "new"
  \/ ctl.persisted \in TrybootVerified .. HostnameChanged /\ Committed
  \/ ctl.persisted < FinalRebooted /\ pi.boot = "trial"

\* verify_phase answers Valid.  (The receipt of phase 7 implies Committed.  A
\* new host name that does not answer is an error; nothing here takes it back.)
Holds(p) ==
  /\ p = PreflightPassed               => ResumePreflight \/ PreflightAllows
  /\ p = ApplicationAcquired           => pi.helper
  /\ p = TrybootStaged                 => StagedHolds
  /\ p = TrybootVerified               => TrialHolds
  /\ p = DriverAccepted                => pi.driver = "accepted"
  /\ p = DriverAccepted /\ ctl.persisted >= FinalRebooted => ReusableDriver
  /\ p = ApplicationInstalled          => pi.app # "absent"
  /\ p = HostnameChanged               => pi.renamed
  /\ p = FinalRebooted                 => ReusableDriver
  /\ p \in {FinalVerified, Complete}   => pi.app = "healthy"

\* Checks that take any failure of the connection for a failed check: the
\* preflight and the driver's own verification script.
TakesLossForDrift(p) ==
  \/ p = PreflightPassed /\ ~ResumePreflight
  \/ p = TrybootStaged /\ ~ReusableDriver /\ ctl.persisted >= DriverAccepted /\ Committed
  \/ /\ p = TrybootVerified /\ ~ReusableDriver
     /\ Committed => ctl.persisted \notin TrybootVerified .. HostnameChanged
  \/ p = FinalRebooted /\ ReusableDriver

CanSpend(k) == spent[k] < Budget[k]

Spend(k) == spent' = [spent EXCEPT ![k] = @ + 1]

Goto(pc) == ctl' = [ctl EXCEPT !.pc = pc]

----
(* A run *)

\* The user enters the install command (again).
Start ==
  /\ ctl.pc = "idle"
  /\ ctl' = NewProcess("load")
  /\ UNCHANGED <<mac, pi, spent>>

\* Mutant: a record of the Pi that is ahead is never reconciled.
NeverReconcilable(target) == FALSE

\* target_is_reconcilable_ahead
ReconcilableAhead(target) == target > mac /\ target >= ApplicationAcquired

\* The head of run(), for the target record it was given: install afresh,
\* validate what both sides claim, verify what only the Pi claims, or refuse
\* (StateDisagreement).
Compare(target, owned, persisted) ==
  LET next   == [ctl EXCEPT !.persisted = persisted]
      barely == mac \in {Discovered, PreflightPassed} /\ target = NoRecord
      ahead  == mac # NoRecord /\ ReconcilableAhead(target)
  IN  \/ mac = NoRecord /\ target = NoRecord /\ ctl' = [next EXCEPT !.pc = "perform"]
      \/ barely /\ ctl' = [next EXCEPT !.pc = "validate", !.goal = mac]
      \/ /\ mac # NoRecord /\ target = mac
         /\ ctl' = [next EXCEPT !.pc = "validate", !.goal = mac, !.owned = owned]
      \/ /\ ahead
         /\ ctl' = [next EXCEPT !.pc = "reconcile", !.phase = mac + 1, !.goal = target,
                                !.owned = owned]
      \/ target # mac /\ ~barely /\ ~ahead /\ ctl' = NewProcess("idle")

Load ==
  /\ ctl.pc = "load"
  /\ IF pi.helper THEN Compare(pi.record, pi.owned, pi.record)
                  ELSE Compare(NoRecord, FALSE, NoRecord)
  /\ UNCHANGED <<mac, pi, spent>>

\* load_target_state takes a lost connection for a missing helper.
LoadLost ==
  /\ ctl.pc = "load" /\ CanSpend("lost")
  /\ Compare(NoRecord, FALSE, NoRecord)
  /\ Spend("lost")
  /\ UNCHANGED <<mac, pi>>

\* One phase the Pi claims and the Mac does not know of.
Reconcile ==
  /\ ctl.pc = "reconcile"
  /\ \/ Holds(ctl.phase) /\ ctl.phase = ctl.goal /\ Goto("adopt")
     \/ Holds(ctl.phase) /\ ctl.phase # ctl.goal /\ ctl' = [ctl EXCEPT !.phase = @ + 1]
     \/ ~Holds(ctl.phase) /\ ctl' = NewProcess("idle")
  /\ UNCHANGED <<mac, pi, spent>>

\* All of them hold: the Mac's record follows.
Adopt ==
  /\ ctl.pc = "adopt"
  /\ mac' = ctl.goal
  /\ ctl' = [ctl EXCEPT !.pc = "validate", !.phase = Discovered]
  /\ UNCHANGED <<pi, spent>>

Validate ==
  /\ ctl.pc = "validate" /\ Holds(ctl.phase)
  /\ \/ ctl.phase < ctl.goal /\ ctl' = [ctl EXCEPT !.phase = @ + 1]
     \/ /\ ctl.phase = ctl.goal /\ ctl.goal < Complete
        /\ ctl' = [ctl EXCEPT !.pc = "perform", !.phase = @ + 1]
     \/ ctl.phase = ctl.goal /\ ctl.goal = Complete /\ ctl' = NewProcess("idle")  \* AlreadyComplete
  /\ UNCHANGED <<mac, pi, spent>>

\* Mutant: ownership is forgotten one phase too late.
KeepsOwnershipLonger(previous) == previous >= DriverAccepted

\* owned_files survive a regression to a phase that owns them.
KeepsOwnership(previous) == previous >= ApplicationInstalled

\* Mutant: the phase is repeated while the records still claim it.
RepeatUnrecorded == [ctl EXCEPT !.pc = "perform", !.owned = @ /\ KeepsOwnership(ctl.phase - 1)]

\* A phase that no longer holds: the records go back to the one before it,
\* and the run goes on from there.  Before the first there is none.
Regress ==
  IF ctl.phase = Discovered THEN [ctl EXCEPT !.pc = "perform", !.owned = FALSE]
  ELSE [ ctl EXCEPT !.phase = @ - 1, !.owned = @ /\ KeepsOwnership(ctl.phase - 1),
                    !.pc = IF ctl.phase - 1 >= ApplicationAcquired
                           THEN "saveTarget" ELSE "saveMac" ]

ValidateDrifted ==
  /\ ctl.pc = "validate" /\ ~Holds(ctl.phase)
  /\ ctl' = Regress
  /\ UNCHANGED <<mac, pi, spent>>

\* The connection is lost in a check that takes this for a drift.
CheckLost ==
  /\ CanSpend("lost") /\ TakesLossForDrift(ctl.phase)
  /\ \/ ctl.pc = "validate" /\ ctl' = Regress
     \/ ctl.pc \in {"reconcile", "verify"} /\ ctl' = NewProcess("idle")
  /\ Spend("lost")
  /\ UNCHANGED <<mac, pi>>

----
(* perform_phase, one action per phase; a failure ends the run (Interrupt) *)

AtPhase(p) == ctl.pc = "perform" /\ ctl.phase = p

Ended == ctl' = NewProcess("idle")

\* Discovery and the driver's preparation leave the Pi as it is.
Prepare ==
  /\ AtPhase(Discovered) \/ AtPhase(DriverReady)
  /\ Goto("verify")
  /\ UNCHANGED <<mac, pi, spent>>

Preflight ==
  /\ AtPhase(PreflightPassed)
  /\ IF PreflightAllows THEN Goto("verify") ELSE Ended
  /\ UNCHANGED <<mac, pi, spent>>

\* acquire_application uploads and deploys the helper.
Acquire ==
  /\ AtPhase(ApplicationAcquired)
  /\ pi' = [pi EXCEPT !.helper = TRUE]
  /\ Goto("verify")
  /\ UNCHANGED <<mac, spent>>

\* Mutant: the driver is staged whatever is installed.
StageAlways ==
  /\ AtPhase(TrybootStaged)
  /\ pi' = [pi EXCEPT !.driver = "staged"]
  /\ Goto("verify")
  /\ UNCHANGED <<mac, spent>>

\* Mutant: staging reboots at once, before anything is recorded.
StageAndReboot ==
  /\ AtPhase(TrybootStaged)
  /\ pi' = [pi EXCEPT !.driver = "staged", !.boot = "trial"]
  /\ Goto("verify")
  /\ UNCHANGED <<mac, spent>>

\* stage_tryboot: an accepted driver is reused, a staged one is kept.
Stage ==
  /\ AtPhase(TrybootStaged)
  /\ pi' = [pi EXCEPT !.driver = IF ReusableDriver THEN @ ELSE "staged"]
  /\ Goto("verify")
  /\ UNCHANGED <<mac, spent>>

\* Where the Pi boots to, from its normal configuration.
NormalBoot == IF Committed THEN "new" ELSE "old"

\* boot_and_verify_tryboot: the one-shot reboot ...
TrialReboot ==
  /\ AtPhase(TrybootVerified)
  /\ IF ReusableDriver
     THEN Goto("verify") /\ UNCHANGED pi
     ELSE /\ pi' = [pi EXCEPT !.boot = IF pi.driver = "staged" THEN "trial" ELSE NormalBoot]
          /\ Goto("probe")
  /\ UNCHANGED <<mac, spent>>

\* ... and, once the Pi has answered, the display probe and the driver's own
\* verification.
Probe ==
  /\ ctl.pc = "probe"
  /\ IF pi.helper /\ pi.boot = "trial" THEN Goto("verify") ELSE Ended
  /\ UNCHANGED <<mac, pi, spent>>

\* accept_driver: commit (the driver's script wants a live trial) ...
Commit ==
  /\ AtPhase(DriverAccepted)
  /\ \/ ReusableDriver /\ Goto("verify") /\ UNCHANGED pi
     \/ ~ReusableDriver /\ Committed /\ Goto("record") /\ UNCHANGED pi
     \/ /\ pi.driver = "staged" /\ pi.boot = "trial"
        /\ pi' = [pi EXCEPT !.driver = "committed"]
        /\ Goto("record")
     \/ /\ ~Committed /\ ~(pi.driver = "staged" /\ pi.boot = "trial")
        /\ Ended /\ UNCHANGED pi
  /\ UNCHANGED <<mac, spent>>

\* ... and then the receipt.
RecordAccepted ==
  /\ ctl.pc = "record"
  /\ pi' = [pi EXCEPT !.driver = "accepted"]
  /\ Goto("verify")
  /\ UNCHANGED <<mac, spent>>

InstallApplication ==
  /\ AtPhase(ApplicationInstalled)
  /\ pi' = [pi EXCEPT !.app = "healthy"]
  /\ ctl' = [ctl EXCEPT !.pc = "verify", !.owned = TRUE]
  /\ UNCHANGED <<mac, spent>>

Rename ==
  /\ AtPhase(HostnameChanged)
  /\ pi' = [pi EXCEPT !.renamed = TRUE]
  /\ Goto("verify")
  /\ UNCHANGED <<mac, spent>>

FinalReboot ==
  /\ AtPhase(FinalRebooted)
  /\ pi' = [pi EXCEPT !.boot = NormalBoot]
  /\ Goto("verify")
  /\ UNCHANGED <<mac, spent>>

\* verify_final_service and finish.
FinalChecks ==
  /\ AtPhase(FinalVerified) \/ AtPhase(Complete)
  /\ IF pi.app = "healthy" /\ (ctl.phase = FinalVerified => ReusableDriver)
     THEN Goto("verify") ELSE Ended
  /\ UNCHANGED <<mac, pi, spent>>

\* Mutant: a verified trial is committed first and recorded later.
VerifyAndCommit ==
  /\ ctl.pc = "verify" /\ Holds(ctl.phase)
  /\ ctl' = IF ctl.phase = TrybootVerified
            THEN [ctl EXCEPT !.pc = "perform", !.phase = @ + 1]
            ELSE [ctl EXCEPT !.pc = IF ctl.phase >= ApplicationAcquired
                                    THEN "saveTarget" ELSE "saveMac"]
  /\ UNCHANGED <<mac, pi, spent>>

\* The postcondition of the phase just performed.
Verify ==
  /\ ctl.pc = "verify"
  /\ IF Holds(ctl.phase)
     THEN Goto(IF ctl.phase >= ApplicationAcquired THEN "saveTarget" ELSE "saveMac")
     ELSE Ended
  /\ UNCHANGED <<mac, pi, spent>>

\* persist: the Pi's record, read back and compared (to_json refuses a record
\* whose ownership does not fit its phase) ...
SaveTarget ==
  /\ ctl.pc = "saveTarget"
  /\ IF ctl.owned <=> ctl.phase >= ApplicationInstalled
     THEN /\ pi' = [pi EXCEPT !.record = ctl.phase, !.owned = ctl.owned]
          /\ ctl' = [ctl EXCEPT !.pc = "saveMac", !.persisted = ctl.phase]
     ELSE Ended /\ UNCHANGED pi
  /\ UNCHANGED <<mac, spent>>

\* Mutant: the next phase is recorded, not the one just verified.
SaveMacNext ==
  /\ ctl.pc = "saveMac"
  /\ mac' = ctl.phase + 1
  /\ ctl' = IF ctl.phase = Complete THEN NewProcess("idle")
            ELSE [ctl EXCEPT !.pc = "perform", !.phase = @ + 1]
  /\ UNCHANGED <<pi, spent>>

\* ... and then the Mac's.
SaveMac ==
  /\ ctl.pc = "saveMac"
  /\ mac' = ctl.phase
  /\ ctl' = IF ctl.phase = Complete THEN NewProcess("idle")
            ELSE [ctl EXCEPT !.pc = "perform", !.phase = @ + 1]
  /\ UNCHANGED <<pi, spent>>

----
(* Misfortunes *)

\* The process dies, or its next command fails: the run ends where it is.
Interrupt ==
  /\ ctl.pc # "idle" /\ CanSpend("crash")
  /\ Ended
  /\ Spend("crash")
  /\ UNCHANGED <<mac, pi>>

\* The Pi loses power or is power-cycled; a run that talks to it may end.
PowerCycle ==
  /\ CanSpend("powerCycle")
  /\ pi' = [pi EXCEPT !.boot = NormalBoot]
  /\ ctl' \in {ctl, NewProcess("idle")}
  /\ Spend("powerCycle")
  /\ UNCHANGED mac

\* Somebody removes the application, or its service fails.
Drift ==
  /\ pi.app = "healthy" /\ CanSpend("drift")
  /\ \E a \in {"absent", "unhealthy"} : pi' = [pi EXCEPT !.app = a]
  /\ Spend("drift")
  /\ UNCHANGED <<mac, ctl>>

\* The service is repaired.
Recover ==
  /\ pi.app = "unhealthy"
  /\ pi' = [pi EXCEPT !.app = "healthy"]
  /\ UNCHANGED <<mac, ctl, spent>>

Run ==
  \/ Start \/ Load \/ Reconcile \/ Adopt \/ Validate \/ ValidateDrifted
  \/ Prepare \/ Preflight \/ Acquire \/ Stage \/ TrialReboot \/ Probe \/ Commit
  \/ RecordAccepted \/ InstallApplication \/ Rename \/ FinalReboot \/ FinalChecks
  \/ Verify \/ SaveTarget \/ SaveMac

Misfortune == LoadLost \/ CheckLost \/ Interrupt \/ PowerCycle \/ Drift

Next == Run \/ Misfortune \/ Recover

\* The user repeats the command until it succeeds, a run goes on until it
\* ends, and an unhealthy service is repaired.
Spec == Init /\ [][Next]_vars /\ WF_vars(Run) /\ WF_vars(Recover)

----
(* Properties *)

\* A phase is recorded only after its postcondition: whatever either side's
\* record says, after crashes, lost connections and power cycles, the driver
\* and the boot configuration are at least that far (the application is left
\* out, which anybody may remove).
Earned(phase) ==
  /\ phase >= ApplicationAcquired => pi.helper
  /\ phase >= TrybootStaged => pi.driver # "none"
  /\ phase >= DriverAccepted => pi.driver = "accepted"
  /\ phase >= HostnameChanged => pi.renamed
  /\ phase >= FinalRebooted => ReusableDriver

RecordsAreEarned == Earned(mac) /\ Earned(pi.record)

\* A target record is valid only when its owned files fit its phase; every
\* record the installer is about to send, forward or back, is valid.
SavesAreAccepted ==
  ctl.pc = "saveTarget" => (ctl.owned <=> ctl.phase >= ApplicationInstalled)

\* The display driver is tried by one-shot boot only after both sides have
\* recorded that it is staged, so an interrupted trial can be resumed ...
TrialIsRecorded ==
  pi.boot # "trial" /\ pi'.boot = "trial"
    => mac >= TrybootStaged /\ pi.record >= TrybootStaged

\* ... and the normal boot configuration is committed only after both sides
\* have recorded a verified trial.
CommitIsVerified ==
  pi.driver = "staged" /\ pi'.driver = "committed"
    => mac >= TrybootVerified /\ pi.record >= TrybootVerified

\* No step on the driver is taken that a rerun could not explain from either
\* record.
StepsAreRecorded == [][TrialIsRecorded /\ CommitIsVerified]_vars

\* A driver accepted once is not staged again by resuming the installation,
\* unless a lost connection was taken for drift.
AcceptedDriverStays ==
  [][pi.driver = "accepted" /\ spent["lost"] = 0 => pi'.driver = "accepted"]_vars

\* Rerunning the command after any number of interruptions (a crash, a command
\* that failed) completes the installation.
OnlyInterrupted == \A k \in Kinds \ {"crash"} : spent[k] = 0
InstallCompletes == <>((mac = Complete /\ pi.record = Complete) \/ ~OnlyInterrupted)

\* README.md, docs/recovery.md: rerunning the command resumes the installation,
\* after a power cycle too.
RerunCompletes == <>(mac = Complete /\ pi.record = Complete)
====
