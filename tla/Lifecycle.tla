---- MODULE Lifecycle ----
(***************************************************************************)
(* Upgrade, rollback and uninstall of an installed Pi: LifecycleManager    *)
(* (crates/planeradarctl/src/operations.rs) with its backend               *)
(* (SystemLifecycleBackend in main.rs), which runs every step on the Pi    *)
(* over SSH.  A process may end between any two steps, a step may fail     *)
(* half-way or take effect without its reply arriving, and the Pi may be   *)
(* power-cycled; the next process finds lifecycle.json and the Pi as they  *)
(* were left.                                                              *)
(*                                                                         *)
(* A release fixes its driver.  Accepted pairs carry no sequence number:   *)
(* it only restates their order.                                           *)
(***************************************************************************)
EXTENDS Release

CONSTANTS
  First,          \* the release the installer installed
  Drivers,
  Stock,          \* no display driver of ours
  DriverOf,       \* the driver a release is paired with
  MaxAccepted,    \* MAX_ACCEPTED_PAIRS
  HelperVariants, \* sets of phases that a helper's lifecycle-state write may know
  MaxFaults       \* bound: failed calls, ended processes and power cycles

VARIABLES
  pi,      \* the Pi: life, compat, helpers, disk, drv
  cmd,     \* the controller's process and what it holds in memory
  faults,  \* how many went wrong
  undone   \* history: a process undid a pair that lifecycle.json accepts

vars == <<pi, cmd, faults, undone>>

ASSUME FirstAssumption == First \in Releases
ASSUME DriversAssumption ==
  Stock \notin Drivers /\ Absent \notin Drivers /\ DriverOf \in [Releases -> Drivers]
ASSUME BoundsAssumption == MaxAccepted \in Nat /\ MaxAccepted >= 2 /\ MaxFaults \in Nat

----
(* lifecycle.json *)

ForwardPhases ==
  {"Prepared", "ApplicationStaged", "DriverStaged", "TrybootVerified",
   "DriverCommitted", "ExplicitNormalVerified", "DriverNormalized",
   "NormalizedBootVerified", "ApplicationActivated", "ApplicationRestarted"}
RecoveryPhases ==
  {"RecoveryDriverRestored", "RecoveryApplicationRestored", "RecoveryCandidateRetired"}
Phases == ForwardPhases \cup {"PairAccepted"} \cup RecoveryPhases

\* The words that the decoder of src/install.rs lacks: whatever helper a Pi has,
\* it knows the others.
LaterPhases == {"ExplicitNormalVerified", "DriverNormalized", "NormalizedBootVerified"}

ASSUME HelperAssumption ==
  HelperVariants # {} /\ \A knows \in HelperVariants : Phases \ LaterPhases \subseteq knows

UninstallPhases == {"UninstallPrepared", "ApplicationRemoved", "DriverRemoved"}

AcceptedPair == [release : Releases, owned : Ownership]

Transaction ==
  [ prior    : AcceptedPair,
    cand     : Releases,
    helper   : Releases,
    restored : Ownership \cup {Absent},
    phase    : Phases ]

Uninstall == [helper : Releases, purge : BOOLEAN, phase : UninstallPhases]

State ==
  [ accepted : Seq(AcceptedPair),
    tx       : Transaction \cup {Absent},
    un       : Uninstall \cup {Absent} ]

ASSUME AbsentAssumption ==
  /\ Absent \notin Ownership /\ Absent \notin AcceptedPair
  /\ Absent \notin Transaction /\ Absent \notin Uninstall /\ Absent \notin State

\* LifecycleState::validate and the helper's parse_lifecycle_state.
Valid(s) ==
  /\ Len(s.accepted) <= MaxAccepted
  /\ \A i, j \in DOMAIN s.accepted :
       i # j => s.accepted[i].release # s.accepted[j].release
  /\ s.un # Absent =>
       /\ s.tx = Absent /\ s.accepted # <<>>
       /\ s.un.helper = s.accepted[1].release
  /\ s.tx # Absent =>
       /\ s.tx.helper \in {s.tx.prior.release, s.tx.cand}
       /\ s.accepted # <<>>
       /\ IF s.tx.phase = "PairAccepted"
          THEN s.accepted[1].release = s.tx.cand /\ s.tx.prior \in ToSet(s.accepted)
          ELSE s.accepted[1] = s.tx.prior

EmptyState == [accepted |-> <<>>, tx |-> Absent, un |-> Absent]

\* migrate_task14
Migrated(compat) == [EmptyState EXCEPT !.accepted = <<compat>>]

\* begin
Begun(s, cand, helper) ==
  [s EXCEPT !.tx = [ prior |-> s.accepted[1], cand |-> cand, helper |-> helper,
                     restored |-> Absent, phase |-> "Prepared" ]]

InPhase(s, phase) == [s EXCEPT !.tx.phase = phase]

\* accept_pending_driver_finalize
Accepted(s, owned) ==
  LET others == Without(s.accepted, {a \in ToSet(s.accepted) : a.release = s.tx.cand})
      pairs  == <<[release |-> s.tx.cand, owned |-> owned]>> \o others
  IN  [InPhase(s, "PairAccepted") EXCEPT
         !.accepted = SubSeq(pairs, 1, IF Len(pairs) < MaxAccepted THEN Len(pairs)
                                                                   ELSE MaxAccepted)]

\* finish_accept
Finished(s) == [s EXCEPT !.tx = Absent]

\* The end of recover: the prior owns what was restored, the candidate nothing.
Recovered(s) ==
  LET owned == [s.tx.restored EXCEPT !.kept = Drop(@, s.tx.cand)]
  IN  [s EXCEPT !.tx = Absent, !.accepted[1].owned = owned]

DriverChanged(s) == DriverOf[s.tx.prior.release] # DriverOf[s.tx.cand]

----
(* The Pi and the process *)

Driver ==
  [ normal   : Drivers \cup {Stock},            \* what the normal boot selects
    booted   : Drivers \cup {Stock},
    trial    : Drivers \cup {Absent},           \* staged for one tryboot
    accepted : Drivers \cup {Absent},           \* what the driver's journal returns to
    files    : SUBSET Drivers ]                 \* whose module and overlay are there

Pi ==
  [ life    : State \cup {Absent},              \* lifecycle.json
    compat  : AcceptedPair \cup {Absent},       \* state.json
    helpers : SUBSET Releases,                  \* helpers/<sha256>/planeradar
    knows   : HelperVariants,                   \* the phases they accept
    disk    : Disk,
    drv     : Driver ]

Ops == {"upgrade", "rollback", "uninstall", "purge"}

Doing ==
  {"preserve", "deploy", "stageDriver", "tryboot", "commit", "explicitNormal", "normalize",
   "normalizedBoot", "activate", "restart", "verify", "accept"}
Recovering == {"restoreDriver", "restoreApplication", "restartPrior", "retireCandidate", "conclude"}
Removing ==
  {"beginUninstall", "uninstallApplication", "uninstallDriver", "finalizeDriverUninstall",
   "finalizeUninstall"}

\* What the process does next.
Pcs ==
  {"idle", "load", "migrate", "saveMigrated", "resolve", "choose", "apply", "uninstall", "save"}
    \cup Doing \cup {"finalizeDriver", "finish", "retireHelper"} \cup Recovering \cup Removing

Process ==
  [ pc       : Pcs,
    op       : Ops \cup {"none"},
    state    : State,
    helper   : MaybeRelease,              \* management_helper
    unHelper : MaybeRelease,              \* uninstall_helper
    last     : Ownership \cup {Absent},   \* last_owned_files
    cand     : MaybeRelease,
    applying : BOOLEAN ]                  \* between the begin and the acceptance

\* A process of the controller starts with nothing in memory.
NewProcess(op, pc) ==
  [ pc |-> pc, op |-> op, state |-> EmptyState, helper |-> Absent, unHelper |-> Absent,
    last |-> Absent, cand |-> Absent, applying |-> FALSE ]

Idle == NewProcess("none", "idle")

\* The head of the operation, once nothing is pending.
Operation(op) == CASE op = "upgrade"  -> "resolve"
              [] op = "rollback" -> "choose"
              [] op \in {"uninstall", "purge"} -> "uninstall"

\* A failing step of apply_candidate is undone by the same process.
Failed == IF cmd.applying THEN [cmd EXCEPT !.pc = "restoreDriver", !.op = "none",
                                           !.applying = FALSE]
          ELSE Idle

\* A call on the Pi: it is done, and the process goes on as `done`; it is
\* refused; or it fails, or its reply is lost, after any of its steps.
CallOnly(can, steps, done) ==
  /\ \/ /\ can
        /\ pi' = Last(steps)
        /\ cmd' = done
        /\ UNCHANGED faults
     \/ /\ ~can
        /\ cmd' = Failed
        /\ UNCHANGED <<pi, faults>>
     \/ /\ can /\ faults < MaxFaults
        /\ \E i \in DOMAIN steps : pi' = steps[i]
        /\ cmd' = Failed
        /\ faults' = faults + 1

Call(can, steps, done) == CallOnly(can, steps, done) /\ UNCHANGED undone

OnDisk(steps) == [i \in DOMAIN steps |-> [pi EXCEPT !.disk = steps[i]]]

Go(pc) == [cmd EXCEPT !.pc = pc]

\* The process has reached a phase and saves it next.
Reach(phase) == [cmd EXCEPT !.pc = "save", !.state = InPhase(@, phase)]

\* command_helper_path
CommandHelper == IF cmd.helper # Absent THEN cmd.helper ELSE cmd.unHelper

\* save_lifecycle_state: the helper writes state.json, then lifecycle.json,
\* whose phase it may refuse.
CanSave(s) ==
  /\ Valid(s)
  /\ s.tx # Absent => cmd.helper = s.tx.helper
  /\ CommandHelper \in pi.helpers

Knows(p, s) == s.tx # Absent => s.tx.phase \in p.knows

Compatible(s) == [pi EXCEPT !.compat = s.accepted[1]]

SaveSteps(s) == <<pi, Compatible(s), [Compatible(s) EXCEPT !.life = s]>>

Save(s, done) ==
  IF Knows(pi, s) THEN Call(CanSave(s), SaveSteps(s), [done EXCEPT !.state = s])
                  ELSE Call(CanSave(s), <<pi, Compatible(s)>>, Failed)

----
(* The start of a command *)

\* The candidate the Pi is asked to run, and the pair it runs now.
Cand    == cmd.state.tx.cand
Prior   == cmd.state.tx.prior

\* The step after a phase, when the driver changes or not.
Following(changed) ==
  [ Prepared               |-> "preserve",
    ApplicationStaged      |-> IF changed THEN "stageDriver" ELSE "activate",
    DriverStaged           |-> "tryboot",
    TrybootVerified        |-> "commit",
    DriverCommitted        |-> "explicitNormal",
    ExplicitNormalVerified |-> "normalize",
    DriverNormalized       |-> "normalizedBoot",
    NormalizedBootVerified |-> "activate",
    ApplicationActivated   |-> "restart",
    ApplicationRestarted   |-> "verify",
    RecoveryDriverRestored      |-> "restoreApplication",
    RecoveryApplicationRestored |-> "restartPrior",
    RecoveryCandidateRetired    |-> "conclude" ]

\* Mutant: the driver is committed before it has been tried.
CommitUntried(s) ==
  IF s.tx.phase = "DriverStaged" THEN "commit" ELSE Following(DriverChanged(s))[s.tx.phase]

\* Mutant: the application is activated during the trial of its driver.
ActivateInTrial(s) ==
  IF s.tx.phase = "TrybootVerified" THEN "activate" ELSE Following(DriverChanged(s))[s.tx.phase]

AfterSave(s) == Following(DriverChanged(s))[s.tx.phase]

\* Mutant: the driver's journal is left open.
JournalLeftOpen ==
  [ UninstallPrepared  |-> "uninstallApplication",
    ApplicationRemoved |-> "uninstallDriver",
    DriverRemoved      |-> "finalizeUninstall" ]

AfterUninstallSave ==
  [ UninstallPrepared  |-> "uninstallApplication",
    ApplicationRemoved |-> "uninstallDriver",
    DriverRemoved      |-> "finalizeDriverUninstall" ]

\* Where a process takes up a transaction it found.
Resumption(s) ==
  CASE s.tx.phase = "PairAccepted" ->
         IF DriverChanged(s) THEN "finalizeDriver" ELSE "finish"
    [] s.tx.phase \in ForwardPhases -> "restoreDriver"
    [] s.tx.phase = "RecoveryDriverRestored" -> "restoreApplication"
    [] OTHER -> "restartPrior"

Begin(op) ==
  /\ cmd.pc = "idle"
  /\ cmd' = NewProcess(op, "load")
  /\ UNCHANGED <<pi, faults, undone>>

\* load_lifecycle_state finds a transaction: its helper is deployed again.
LoadTransaction ==
  /\ cmd.pc = "load" /\ pi.life # Absent /\ pi.life.tx # Absent
  /\ LET tx == pi.life.tx IN
     Call(TRUE, <<pi, [pi EXCEPT !.helpers = @ \cup {tx.helper}]>>,
          [Go(Resumption(pi.life)) EXCEPT !.state = pi.life, !.helper = tx.helper])

\* Mutant: the helper must be there even after its last use.
LoadUninstallHelped ==
  /\ cmd.pc = "load" /\ pi.life # Absent /\ pi.life.un # Absent
  /\ LET un == pi.life.un IN
     Call(un.helper \in pi.helpers, <<pi>>,
          [Go(Operation(cmd.op)) EXCEPT !.state = pi.life, !.unHelper = un.helper])

\* ... or an uninstall: its helper must still be there ...
LoadUninstall ==
  /\ cmd.pc = "load" /\ pi.life # Absent /\ pi.life.un # Absent
  /\ LET un == pi.life.un IN
     Call(un.phase # "DriverRemoved" => un.helper \in pi.helpers, <<pi>>,
          [Go(Operation(cmd.op)) EXCEPT !.state = pi.life, !.unHelper = un.helper])

\* The first n of the accepted releases.
Newest(accepted, n) == {accepted[i].release : i \in 1..n}

\* ... or neither: the helpers of the accepted applications are retired, one
\* after the other.
LoadSettled ==
  /\ cmd.pc = "load" /\ pi.life # Absent
  /\ pi.life.tx = Absent /\ pi.life.un = Absent
  /\ LET accepted == pi.life.accepted IN
     Call(TRUE, [n \in 1..Len(accepted) + 1 |->
                   [pi EXCEPT !.helpers = @ \ Newest(accepted, n - 1)]],
          [Go(Operation(cmd.op)) EXCEPT !.state = pi.life])

\* There is no lifecycle yet.  A Pi that the installer left needs a helper to
\* write one: an upgrade deploys it and loads again, anything else gives up.
LoadNothing ==
  /\ cmd.pc = "load" /\ pi.life = Absent
  /\ cmd' = IF pi.compat # Absent
            THEN IF cmd.helper # Absent THEN Go("migrate")
                 ELSE IF cmd.op = "upgrade" THEN Go("resolve") ELSE Idle
            ELSE IF cmd.cand # Absent THEN Go("apply") ELSE Go(Operation(cmd.op))
  /\ UNCHANGED <<pi, faults, undone>>

\* The driver's journal accepts the installed driver ...
Migrate ==
  /\ cmd.pc = "migrate"
  /\ LET driver == DriverOf[pi.compat.release] IN
     Call(pi.drv.normal = driver, <<pi, [pi EXCEPT !.drv.accepted = driver]>>,
          Go("saveMigrated"))

\* ... and the installed pair is the first accepted one.
SaveMigrated ==
  /\ cmd.pc = "saveMigrated"
  /\ Save(Migrated(pi.compat), Go("apply"))

\* upgrade: a release is resolved and becomes the helper.
Resolve ==
  /\ cmd.pc = "resolve"
  /\ \E r \in Releases :
       Call(TRUE, <<pi, [pi EXCEPT !.helpers = @ \cup {r}]>>,
            [Go(IF cmd.state = EmptyState THEN "load" ELSE "apply") EXCEPT
               !.cand = r, !.helper = r])

\* rollback: to an accepted pair, with the current release as the helper.
Choose ==
  /\ cmd.pc = "choose"
  /\ \E i \in 2..Len(cmd.state.accepted) :
       LET helper == cmd.state.accepted[1].release IN
       Call(TRUE, <<pi, [pi EXCEPT !.helpers = @ \cup {helper}]>>,
            [Go("apply") EXCEPT !.cand = cmd.state.accepted[i].release, !.helper = helper])

NothingToChoose ==
  /\ cmd.pc = "choose" /\ Len(cmd.state.accepted) < 2
  /\ cmd' = Idle
  /\ UNCHANGED <<pi, faults, undone>>

----
(* apply_pair, apply_candidate *)

\* A call whose failure is ignored.
Attempt(steps, done, failed) ==
  /\ UNCHANGED undone
  /\ \/ pi' = Last(steps) /\ cmd' = done /\ UNCHANGED faults
     \/ /\ faults < MaxFaults /\ faults' = faults + 1
        /\ \E i \in DOMAIN steps : pi' = steps[i]
        /\ cmd' = failed

WithoutHelper(r) == [pi EXCEPT !.helpers = @ \ {r}]

CurrentIs(r) == cmd.state.accepted # <<>> /\ cmd.state.accepted[1].release = r

\* The candidate is what runs: its helper is retired.
AlreadyAccepted ==
  /\ cmd.pc = "apply" /\ CurrentIs(cmd.cand)
  /\ Attempt(<<pi, WithoutHelper(cmd.cand)>>, Idle, Idle)

Refused ==
  /\ cmd.pc = "apply"
  /\ cmd.state.accepted = <<>> \/ (~CurrentIs(cmd.cand) /\ cmd.state.un # Absent)
  /\ cmd' = Idle
  /\ UNCHANGED <<pi, faults, undone>>

BeginTransaction ==
  /\ cmd.pc = "apply" /\ cmd.state.accepted # <<>>
  /\ ~CurrentIs(cmd.cand) /\ cmd.state.un = Absent
  /\ LET s == Begun(cmd.state, cmd.cand, cmd.helper) IN
     Save(s, [Go(AfterSave(s)) EXCEPT !.applying = TRUE])

\* persist_phase, and the saves of a phase in recover and uninstall.
SavePhase ==
  /\ cmd.pc = "save"
  /\ LET s == cmd.state IN
     Save(s, Go(IF s.un = Absent THEN AfterSave(s) ELSE AfterUninstallSave[s.un.phase]))

\* lifecycle-activate of release r, with a manifest and a file of r to copy.
CanActivate(r, owned, source) ==
  /\ cmd.helper \in pi.helpers
  /\ ManifestHolds(pi.disk, owned)
       \/ InterruptedSwitch(pi.disk, IF pi.life = Absent THEN Absent ELSE pi.life.tx, owned, r)
  /\ source

\* stage_application keeps a copy of the running release ...
Preserve ==
  /\ cmd.pc = "preserve"
  /\ LET r == Prior.release
         owned == Prior.owned
     IN  Call(CanActivate(r, owned, pi.disk.bin = r),
              OnDisk(ActivationSteps(pi.disk, owned, r)),
              [Go("deploy") EXCEPT !.last = ProspectiveOwnership(owned, r)])

\* ... and uploads the candidate's file.
Deploy ==
  /\ cmd.pc = "deploy"
  /\ Call(TRUE, OnDisk(<<pi.disk, [pi.disk EXCEPT !.kept = @ \cup {Cand}]>>),
          Reach("ApplicationStaged"))

StageDriver ==
  /\ cmd.pc = "stageDriver"
  /\ LET recorded == [pi EXCEPT !.drv.accepted = DriverOf[Prior.release]] IN
     Call(pi.drv.normal = DriverOf[Prior.release],
          <<pi, recorded, [recorded EXCEPT !.drv.trial = DriverOf[Cand],
                                           !.drv.files = @ \cup {DriverOf[Cand]}]>>,
          Reach("DriverStaged"))

Boot(p, driver) == [p EXCEPT !.drv.booted = driver, !.disk = Rebooted(@)]

\* One boot into the staged driver, and its verification.
Tryboot ==
  /\ cmd.pc = "tryboot"
  /\ Call(pi.drv.trial = DriverOf[Cand], <<pi, Boot(pi, DriverOf[Cand])>>,
          Reach("TrybootVerified"))

Commit ==
  /\ cmd.pc = "commit"
  /\ Call(pi.drv.booted = DriverOf[Cand],
          <<pi, [pi EXCEPT !.drv.normal = DriverOf[Cand], !.drv.trial = Absent]>>,
          Reach("DriverCommitted"))

\* A normal boot, and the verification that it runs the candidate's driver.
RebootNormal(phase) ==
  LET rebooted == Boot(pi, pi.drv.normal) IN
  Call(pi.drv.normal = DriverOf[Cand] /\ rebooted.disk.running # Absent,
       <<pi, rebooted>>, Reach(phase))

ExplicitNormal == cmd.pc = "explicitNormal" /\ RebootNormal("ExplicitNormalVerified")

\* Only the promotion of an inactive kernel changes the boot files again, with
\* the service stopped.
Normalize ==
  /\ cmd.pc = "normalize"
  /\ \E inactive \in BOOLEAN :
       Call(TRUE, IF inactive THEN OnDisk(<<pi.disk, Stopped(pi.disk)>>) ELSE <<pi>>,
            Reach("DriverNormalized"))

NormalizedBoot == cmd.pc = "normalizedBoot" /\ RebootNormal("NormalizedBootVerified")

\* activate_application
Activate ==
  /\ cmd.pc = "activate"
  /\ Call(CanActivate(Cand, cmd.last, Cand \in pi.disk.kept),
          OnDisk(ActivationSteps(pi.disk, cmd.last, Cand)),
          [Reach("ApplicationActivated") EXCEPT !.last = ProspectiveOwnership(@, Cand)])

Restart ==
  /\ cmd.pc = "restart"
  /\ Call(pi.disk.bin # Absent, OnDisk(<<pi.disk, Started(pi.disk)>>),
          Reach("ApplicationRestarted"))

\* Mutant: only the binary is looked at.
HealthyBinary(d, r) == d.bin = r /\ d.enabled /\ d.running # Absent

\* verify_application
Healthy(d, r) == Installed(d, r) /\ d.enabled /\ d.running # Absent

\* verify_pair
PairRuns(p, r) ==
  p.drv.booted = DriverOf[r] /\ p.drv.normal = DriverOf[r] /\ Healthy(p.disk, r)

Verify ==
  /\ cmd.pc = "verify"
  /\ Call(PairRuns(pi, Cand), <<pi>>, Go("accept"))

\* The acceptance.  When its save is reported as failed the process undoes the
\* upgrade from the state before it, whatever was written.
Accept ==
  /\ cmd.pc = "accept"
  /\ LET s == Accepted(cmd.state, cmd.last) IN
     Save(s, [Go(IF DriverChanged(s) THEN "finalizeDriver" ELSE "finish") EXCEPT
                !.op = "none", !.applying = FALSE])

\* The driver's journal goes back to the driver it accepted.
JournalRecovered(drv) ==
  [drv EXCEPT !.trial = Absent, !.normal = IF drv.accepted = Absent THEN @ ELSE drv.accepted]

\* Mutant: the driver's journal recovers instead of accepting.
FinalizeByRecovery ==
  /\ cmd.pc = "finalizeDriver"
  /\ Call(TRUE, <<pi, [pi EXCEPT !.drv = JournalRecovered(@)]>>, Go("finish"))

\* Mutant: the driver's journal is not told.
FinalizeNothing ==
  /\ cmd.pc = "finalizeDriver"
  /\ Call(TRUE, <<pi>>, Go("finish"))

\* finalize_driver_acceptance
FinalizeDriver ==
  /\ cmd.pc = "finalizeDriver"
  /\ Call(TRUE, <<pi, [pi EXCEPT !.drv.accepted = pi.drv.normal]>>, Go("finish"))

Finish ==
  /\ cmd.pc = "finish"
  /\ Save(Finished(cmd.state), Go("retireHelper"))

RetireHelper ==
  /\ cmd.pc = "retireHelper"
  /\ LET next == IF cmd.op = "none" THEN Idle ELSE Go(Operation(cmd.op)) IN
     Attempt(<<pi, WithoutHelper(cmd.helper)>>, [next EXCEPT !.helper = Absent], next)

----
(* recover *)

\* restore_driver stops the service, and reboots only if the driver must change;
\* whether that brought the prior driver back it asks at the end.
RestoreDriver ==
  /\ cmd.pc = "restoreDriver" /\ DriverChanged(cmd.state)
  /\ LET stopped   == [pi EXCEPT !.disk = Stopped(@)]
         recovered == [stopped EXCEPT !.drv = JournalRecovered(@)]
         normal    == recovered.drv.normal
         rebooted  == IF pi.drv.booted = normal THEN <<>> ELSE <<Boot(recovered, normal)>>
     IN  CallOnly(pi.disk.enabled, <<pi, stopped, recovered>> \o rebooted,
                  IF normal = DriverOf[Prior.release] THEN Reach("RecoveryDriverRestored")
                                                      ELSE Failed)
  /\ undone' = (undone \/ pi.life.tx.phase = "PairAccepted")

SameDriver ==
  /\ cmd.pc = "restoreDriver" /\ ~DriverChanged(cmd.state)
  /\ cmd' = Reach("RecoveryDriverRestored")
  /\ UNCHANGED <<pi, faults, undone>>

\* restore_application: nothing when the prior release runs, else its activation.
RestoreApplication ==
  /\ cmd.pc = "restoreApplication"
  /\ LET r     == Prior.release
         owned == IF cmd.last # Absent THEN cmd.last ELSE Prior.owned
         restored(o) == [Reach("RecoveryApplicationRestored") EXCEPT !.state.tx.restored = o]
     IN  IF Healthy(pi.disk, r)
         THEN Call(TRUE, <<pi>>, restored(Prior.owned))
         ELSE LET manifest == ProspectiveOwnership(owned, r) IN
              Call(CanActivate(r, owned, r \in pi.disk.kept),
                   OnDisk(ActivationSteps(pi.disk, owned, r)),
                   [restored(manifest) EXCEPT !.last = manifest])

\* restart_application and verify_pair of the prior pair.
RestartPrior ==
  /\ cmd.pc = "restartPrior"
  /\ LET started == [pi EXCEPT !.disk = Started(@)] IN
     Call(pi.disk.bin # Absent /\ PairRuns(started, Prior.release), <<pi, started>>,
          Go(IF cmd.state.tx.phase = "RecoveryCandidateRetired" THEN "conclude"
             ELSE "retireCandidate"))

RetireCandidate ==
  /\ cmd.pc = "retireCandidate"
  /\ Call(cmd.helper \in pi.helpers, OnDisk(<<pi.disk, Retired(pi.disk, Cand)>>),
          Reach("RecoveryCandidateRetired"))

Conclude ==
  /\ cmd.pc = "conclude"
  /\ Save(Recovered(cmd.state), Go("retireHelper"))

----
(* uninstall *)

Current == cmd.state.accepted[1]
Purging == cmd.op = "purge"

\* Nothing is installed, or the recorded choice about the settings was another.
UninstallRefused ==
  /\ cmd.pc = "uninstall"
  /\ IF cmd.state.un = Absent THEN cmd.state.accepted = <<>>
     ELSE cmd.state.un.purge # Purging
  /\ cmd' = Idle
  /\ UNCHANGED <<pi, faults, undone>>

\* prepare_uninstall keeps the installed binary as the recovery helper.
PrepareUninstall ==
  /\ cmd.pc = "uninstall" /\ cmd.state.un = Absent /\ cmd.state.accepted # <<>>
  /\ LET helper == Current.owned.bin IN
     Call(helper \in pi.helpers \/ pi.disk.bin = helper,
          <<pi, [pi EXCEPT !.helpers = @ \cup {helper}]>>,
          [Go("beginUninstall") EXCEPT !.unHelper = helper])

BeginUninstall ==
  /\ cmd.pc = "beginUninstall"
  /\ LET un == [helper |-> cmd.unHelper, purge |-> Purging, phase |-> "UninstallPrepared"] IN
     Save([cmd.state EXCEPT !.un = un], Go("uninstallApplication"))

\* Mutant: the step of the recorded phase is taken for done.
ResumeSkipping ==
  /\ cmd.pc = "uninstall" /\ cmd.state.un # Absent /\ cmd.state.un.purge = Purging
  /\ cmd' = Go(IF cmd.state.un.phase = "UninstallPrepared" THEN "uninstallDriver"
               ELSE "finalizeDriverUninstall")
  /\ UNCHANGED <<pi, faults, undone>>

ResumeUninstall ==
  /\ cmd.pc = "uninstall" /\ cmd.state.un # Absent /\ cmd.state.un.purge = Purging
  /\ cmd' = Go(AfterUninstallSave[cmd.state.un.phase])
  /\ UNCHANGED <<pi, faults, undone>>

ReachUninstall(phase) == [cmd EXCEPT !.pc = "save", !.state.un.phase = phase]

UninstallApplication ==
  /\ cmd.pc = "uninstallApplication"
  /\ Call(CommandHelper \in pi.helpers
            /\ Uninstallable(pi.disk, Current.owned, cmd.state.un.purge),
          OnDisk(UninstallSteps(pi.disk, Current.owned)), ReachUninstall("ApplicationRemoved"))

\* Mutant: the drivers of the other pairs are left.
UninstallCurrentDriver ==
  /\ cmd.pc = "uninstallDriver"
  /\ LET removed == [pi EXCEPT !.drv.normal = Stock,
                               !.drv.files = @ \ {DriverOf[Current.release]}]
     IN  Call(pi.drv.normal \in {DriverOf[Current.release], Stock},
              <<pi, removed, Boot(removed, Stock)>>, ReachUninstall("DriverRemoved"))

\* uninstall_driver: back to the stock display, with a reboot; then the drivers
\* of the other accepted pairs are retired, one after the other.
UninstallDriver ==
  /\ cmd.pc = "uninstallDriver"
  /\ LET accepted   == cmd.state.accepted
         without(n) == pi.drv.files \ {DriverOf[r] : r \in Newest(accepted, n)}
         removed    == [pi EXCEPT !.drv.normal = Stock, !.drv.files = without(1)]
         retired    == [n \in DOMAIN accepted |->
                          [Boot(removed, Stock) EXCEPT !.drv.files = without(n)]]
     IN  Call(pi.drv.normal \in {DriverOf[Current.release], Stock},
              <<pi, removed>> \o retired, ReachUninstall("DriverRemoved"))

\* finalize_driver_uninstall: the driver's journal is closed.
FinalizeDriverUninstall ==
  /\ cmd.pc = "finalizeDriverUninstall"
  /\ Call(TRUE, <<pi, [pi EXCEPT !.drv.accepted = Absent]>>, Go("finalizeUninstall"))

\* finalize_uninstall: helper, state.json, lifecycle.json, in this order, and
\* only if the records are the ones this process knows.
FinalizeUninstall ==
  /\ cmd.pc = "finalizeUninstall"
  /\ LET un       == cmd.state.un
         unaided  == WithoutHelper(un.helper)
         unstated == [unaided EXCEPT !.compat = Absent]
     IN  Call(/\ cmd.unHelper = un.helper
              /\ pi.life = cmd.state /\ pi.compat \in {Absent, Current},
              <<pi, unaided, unstated, [unstated EXCEPT !.life = Absent]>>, Idle)

----
(* What goes wrong, and the specification *)

ProcessEnds ==
  /\ cmd.pc # "idle" /\ faults < MaxFaults
  /\ cmd' = Idle
  /\ faults' = faults + 1
  /\ UNCHANGED <<pi, undone>>

PowerCycle ==
  /\ faults < MaxFaults
  /\ pi' = Boot(pi, pi.drv.normal)
  /\ faults' = faults + 1
  /\ UNCHANGED <<cmd, undone>>

\* The Pi as the installer leaves it; on some the settings were there before.
Init ==
  /\ \E seeded \in BOOLEAN, knows \in HelperVariants :
       pi = [ life |-> Absent,
              compat |-> [release |-> First, owned |-> [bin |-> First, kept |-> <<>>]],
              helpers |-> {}, knows |-> knows,
              disk |-> [ bin |-> First, meta |-> First, kept |-> {},
                         enabled |-> TRUE, running |-> First, seeded |-> seeded ],
              drv |-> [ normal |-> DriverOf[First], booted |-> DriverOf[First],
                        trial |-> Absent, accepted |-> Absent,
                        files |-> {DriverOf[First]} ] ]
  /\ cmd = Idle
  /\ faults = 0 /\ undone = FALSE

Step ==
  \/ LoadTransaction \/ LoadUninstall \/ LoadSettled \/ LoadNothing
  \/ Migrate \/ SaveMigrated \/ Resolve \/ Choose \/ NothingToChoose
  \/ AlreadyAccepted \/ Refused \/ BeginTransaction \/ SavePhase
  \/ Preserve \/ Deploy \/ StageDriver \/ Tryboot \/ Commit
  \/ ExplicitNormal \/ Normalize \/ NormalizedBoot
  \/ Activate \/ Restart \/ Verify \/ Accept
  \/ FinalizeDriver \/ Finish \/ RetireHelper
  \/ RestoreDriver \/ SameDriver \/ RestoreApplication \/ RestartPrior \/ RetireCandidate \/ Conclude
  \/ UninstallRefused \/ PrepareUninstall \/ BeginUninstall \/ ResumeUninstall
  \/ UninstallApplication \/ UninstallDriver \/ FinalizeDriverUninstall \/ FinalizeUninstall

Next == (\E op \in Ops : Begin(op)) \/ Step \/ ProcessEnds \/ PowerCycle

\* The user repeats an uninstall that failed.
Repeat ==
  pi.life # Absent /\ pi.life.un # Absent
    /\ Begin(IF pi.life.un.purge THEN "purge" ELSE "uninstall")

\* A process goes on until it ends; commands keep being given.
Spec == Init /\ [][Next]_vars /\ WF_vars(Step) /\ WF_vars(\E op \in Ops : Begin(op))
             /\ SF_vars(Repeat)

----
(* Properties *)

\* Every component has its type.
TypeOK == pi \in Pi /\ cmd \in Process /\ faults \in 0..MaxFaults /\ undone \in BOOLEAN

Pending == pi.life # Absent /\ pi.life.tx # Absent
Uninstalling == pi.life # Absent /\ pi.life.un # Absent
Settled == pi.life # Absent /\ ~Pending /\ ~Uninstalling

\* Whenever lifecycle.json says that nothing is pending, the application on the
\* Pi is the one it accepted last, and state.json names the same: an
\* interrupted upgrade is never forgotten half-way.
AppMatchesRecord ==
  Settled => /\ Installed(pi.disk, pi.life.accepted[1].release)
             /\ pi.compat.release = pi.life.accepted[1].release

\* ... and the driver that a normal boot selects is the one paired with it,
\* unless an acceptance that had been written was undone (`undone`).
DriverMatchesRecord ==
  Settled /\ ~undone => pi.drv.normal = DriverOf[pi.life.accepted[1].release]

\* A settled record tells what the Pi runs, application and driver.
PiMatchesRecord == AppMatchesRecord /\ DriverMatchesRecord

\* While an upgrade may still have to be undone, the release to go back to is
\* installed or its file is kept: nothing retires it too early.
PriorIsAtHand ==
  Pending => LET r == pi.life.tx.prior.release IN
             pi.life.tx.phase = "PairAccepted"
               \/ Installed(pi.disk, r) \/ r \in pi.disk.kept

\* An upgrade or rollback that nothing disturbs is never undone, except when it
\* changes the driver with a helper that does not know every phase.
OnlyMishapsUndo ==
  cmd.pc = "restoreDriver" /\ faults = 0 => DriverChanged(cmd.state) /\ pi.knows # Phases

\* The records are gone only when everything they describe is gone, the
\* driver's journal included; and the driver is recorded as removed only when
\* that of no accepted pair is left.
GoneMeansGone ==
  /\ pi.life = Absent /\ pi.compat = Absent
       => /\ pi.disk.bin = Absent /\ pi.disk.meta = Absent
          /\ pi.drv.normal = Stock /\ pi.drv.accepted = Absent
  /\ Uninstalling /\ pi.life.un.phase = "DriverRemoved"
       => \A a \in ToSet(pi.life.accepted) : DriverOf[a.release] \notin pi.drv.files

\* The installed binary is only ever replaced by one whose driver is selected
\* and booted: no application meets a driver it was not paired with.
AppFitsDriver ==
  [][ pi'.disk.bin \notin {pi.disk.bin, Absent} /\ ~undone
        => pi'.drv.normal = DriverOf[pi'.disk.bin] /\ pi'.drv.booted = DriverOf[pi'.disk.bin] ]_vars

\* The prior pair can be restored from what the Pi has and the record says.
Restorable ==
  LET tx == pi.life.tx
      r  == tx.prior.release
  IN  \/ Installed(pi.disk, r) /\ ~DriverChanged(pi.life)
      \/ /\ r \in pi.disk.kept
         /\ \/ ManifestHolds(pi.disk, tx.prior.owned)
            \/ InterruptedSwitch(pi.disk, tx, tx.prior.owned, r)

\* A pending transaction whose prior pair is restorable does not stay pending:
\* the next commands undo or finish it, wherever the one before was cut off.
RecoveryCompletes == []<>~(Pending /\ ~undone /\ Restorable)

\* An uninstall that was begun ends, however often it is interrupted, if its
\* purge is possible and its helper is there as long as it is needed.
UninstallCompletes ==
  []<>~( /\ Uninstalling /\ ~undone /\ (pi.life.un.purge => pi.disk.seeded)
         /\ pi.life.un.phase # "DriverRemoved" => pi.life.un.helper \in pi.helpers )

\* Neither an upgrade nor an uninstall is left behind by the commands after it.
BegunIsEnded == RecoveryCompletes /\ UninstallCompletes

\* docs/upgrading.md: an upgrade that fails no check is accepted, whether or
\* not it changes the driver.
UndisturbedIsAccepted == faults = 0 => cmd.pc # "restoreDriver"

\* docs/upgrading.md, docs/recovery.md: the next command restores the prior
\* pair after any interruption.
TransactionsEnd == []<>~Pending

\* docs/upgrading.md: an uninstall is resumed with the same options until the
\* Pi is clean.
UninstallsEnd == []<>~Uninstalling
====
