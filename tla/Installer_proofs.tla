---- MODULE Installer_proofs ----
(***************************************************************************)
(* What the installation keeps true for any number of crashes, lost        *)
(* connections, power cycles and drifts.  IInv relates the process at each *)
(* point of a run to the two records: what it is about to perform is the   *)
(* phase after the recorded one, and what it is about to record has been   *)
(* earned and owns the files its phase owns.                               *)
(***************************************************************************)
EXTENDS Installer, TLAPS

Performing == ctl.pc \in {"perform", "probe", "record", "verify"}

\* Where a run stands with respect to the two records.
RunFollowsRecords ==
  /\ ctl.pc = "load" => ctl.phase = Discovered
  /\ Performing => mac = ctl.phase - 1 /\ (ctl.phase > ApplicationAcquired => pi.record = mac)
  /\ ctl.pc = "probe" => ctl.phase = TrybootVerified
  /\ ctl.pc = "record" => ctl.phase = DriverAccepted
  /\ ctl.pc \in {"reconcile", "adopt"} =>
       /\ ctl.goal = pi.record /\ ctl.goal >= ApplicationAcquired
       /\ ctl.phase <= ctl.goal
  /\ ctl.pc = "validate" =>
       /\ ctl.goal = mac /\ ctl.phase <= ctl.goal
       /\ ctl.goal >= ApplicationAcquired => pi.record = mac
  /\ ctl.pc = "saveTarget" => ctl.phase >= ApplicationAcquired
  /\ ctl.pc = "saveMac" /\ ctl.phase >= ApplicationAcquired => pi.record = ctl.phase

\* Owned files go with the phases from the application's installation on.
OwnershipFits ==
  /\ pi.owned <=> pi.record >= ApplicationInstalled
  /\ ctl.pc \in {"reconcile", "adopt", "validate"} =>
       (ctl.owned <=> ctl.goal >= ApplicationInstalled)
  /\ ctl.pc \in {"perform", "probe", "record"} =>
       (ctl.owned <=> ctl.phase > ApplicationInstalled)
  /\ ctl.pc \in {"verify", "saveTarget", "saveMac"} =>
       (ctl.owned <=> ctl.phase >= ApplicationInstalled)
  /\ ctl.pc \in {"idle", "load"} => ~ctl.owned

\* What is about to be recorded has been earned.
PendingIsEarned == ctl.pc \in {"saveTarget", "saveMac"} => Earned(ctl.phase)

IInv == TypeOK /\ RunFollowsRecords /\ OwnershipFits /\ RecordsAreEarned /\ PendingIsEarned

----
(* The process record *)

Pcs == {"idle", "load", "reconcile", "adopt", "validate", "perform", "probe", "record",
        "verify", "saveTarget", "saveMac"}

LEMMA GotoFields ==
  ASSUME ctl \in Ctl, NEW pc \in Pcs, Goto(pc)
  PROVE  /\ ctl' \in Ctl /\ ctl'.pc = pc
         /\ ctl'.phase = ctl.phase /\ ctl'.goal = ctl.goal
         /\ ctl'.persisted = ctl.persisted /\ ctl'.owned = ctl.owned
BY DEF Goto, Ctl, Pcs

LEMMA NewProcessFields ==
  ASSUME NEW pc \in Pcs
  PROVE  /\ NewProcess(pc) \in Ctl /\ NewProcess(pc).pc = pc
         /\ NewProcess(pc).phase = Discovered /\ NewProcess(pc).owned = FALSE
BY DEF NewProcess, Ctl, Pcs, Phases, Discovered, Complete, NoRecord

\* Misfortunes stay within their budget.
LEMMA SpendType ==
  ASSUME TypeOK, NEW k \in Kinds, CanSpend(k), Spend(k)
  PROVE  spent' \in [Kinds -> Nat] /\ \A j \in Kinds : spent'[j] <= Budget[j]
<1>1. spent \in [Kinds -> Nat] /\ spent[k] \in Nat /\ Budget[k] \in Nat /\ spent[k] < Budget[k]
  BY BudgetAssumption DEF TypeOK, CanSpend
<1>2. spent[k] + 1 \in Nat /\ spent[k] + 1 <= Budget[k]
  BY <1>1
<1>3. spent' \in [Kinds -> Nat] /\ spent'[k] = spent[k] + 1
  BY <1>1, <1>2 DEF Spend
<1>4. \A j \in Kinds : j # k => spent'[j] = spent[j]
  BY <1>1 DEF Spend
<1>5. QED BY <1>2, <1>3, <1>4 DEF TypeOK

\* A run that ends leaves only the records and the Pi behind.
LEMMA EndKeeps ==
  ASSUME IInv, ctl' = NewProcess("idle") \/ ctl' = NewProcess("load"),
         mac' = mac, pi' \in Pi, pi'.record = pi.record, pi'.owned = pi.owned,
         Earned(mac)', Earned(pi.record)',
         spent' \in [Kinds -> Nat], \A k \in Kinds : spent'[k] <= Budget[k]
  PROVE  IInv'
<1>1. ctl' \in Ctl /\ ctl'.pc \in {"idle", "load"} /\ ~ctl'.owned /\ ctl'.phase = Discovered
  BY NewProcessFields DEF Pcs
<1>2. TypeOK'
  BY <1>1 DEF IInv, TypeOK
<1>3. RunFollowsRecords' /\ PendingIsEarned'
  BY <1>1 DEF RunFollowsRecords, PendingIsEarned, Performing
<1>4. OwnershipFits'
  BY <1>1 DEF IInv, OwnershipFits
<1>5. QED BY <1>2, <1>3, <1>4 DEF IInv, RecordsAreEarned

\* A clean Pi and no process.
LEMMA InitInv ==
  Init => IInv
<1> SUFFICES ASSUME Init PROVE IInv
  OBVIOUS
<1> USE DEF NoRecord, Discovered, PreflightPassed, ApplicationAcquired, DriverReady, TrybootStaged,
        TrybootVerified, DriverAccepted, ApplicationInstalled, HostnameChanged, FinalRebooted,
        FinalVerified, Complete, Phases
<1>1. ctl \in Ctl /\ ctl.pc = "idle" /\ ~ctl.owned
  BY NewProcessFields DEF Init, Pcs
<1>2. pi \in Pi /\ pi.record = NoRecord /\ ~pi.owned /\ mac = NoRecord
  BY DEF Init, Pi
<1>3. spent \in [Kinds -> Nat] /\ \A k \in Kinds : spent[k] <= Budget[k]
  BY BudgetAssumption DEF Init
<1>4. TypeOK
  BY <1>1, <1>2, <1>3 DEF TypeOK
<1>5. RunFollowsRecords /\ OwnershipFits /\ PendingIsEarned
  BY <1>1, <1>2 DEF RunFollowsRecords, OwnershipFits, PendingIsEarned, Performing
<1>6. RecordsAreEarned
  BY <1>2 DEF RecordsAreEarned, Earned
<1>7. QED BY <1>4, <1>5, <1>6 DEF IInv

----
(* Comparing and validating the records *)

\* A run that has compared the records and changed nothing else.
LEMMA ComparedKeeps ==
  ASSUME IInv, UNCHANGED <<mac, pi>>, ctl' \in Ctl, spent' \in [Kinds -> Nat],
         \A k \in Kinds : spent'[k] <= Budget[k],
         ctl'.pc \in {"perform", "validate", "reconcile"},
         ctl'.pc = "perform" => mac = 0 /\ ctl'.phase = 1 /\ ~ctl'.owned,
         ctl'.pc = "validate" =>
           /\ ctl'.goal = mac /\ ctl'.phase <= mac
           /\ ctl'.owned <=> mac >= ApplicationInstalled
           /\ mac >= ApplicationAcquired => pi.record = mac,
         ctl'.pc = "reconcile" =>
           /\ ctl'.goal = pi.record /\ ctl'.goal >= ApplicationAcquired /\ ctl'.phase <= ctl'.goal
           /\ ctl'.owned <=> ctl'.goal >= ApplicationInstalled
  PROVE  IInv'
<1>1. TypeOK'
  BY DEF IInv, TypeOK
<1>2. RunFollowsRecords'
  BY DEF RunFollowsRecords, Performing, ApplicationAcquired
<1>3. OwnershipFits'
  BY DEF IInv, OwnershipFits, ApplicationInstalled
<1>4. RecordsAreEarned' /\ PendingIsEarned'
  BY DEF IInv, RecordsAreEarned, Earned, ReusableDriver, PendingIsEarned
<1>5. QED BY <1>1, <1>2, <1>3, <1>4 DEF IInv

\* The head of run(): whatever the records say, and if the connection is lost
\* the Pi's record counts as missing.
LEMMA CompareKeeps ==
  ASSUME IInv, ctl.pc = "load", UNCHANGED <<mac, pi>>,
         spent' \in [Kinds -> Nat], \A k \in Kinds : spent'[k] <= Budget[k],
         \/ Compare(pi.record, pi.owned, pi.record)
         \/ Compare(NoRecord, FALSE, NoRecord)
  PROVE  IInv'
<1> DEFINE Recorded == {NoRecord} \cup Phases
<1>0. /\ mac \in Recorded /\ pi \in Pi /\ ctl \in Ctl
      /\ RecordsAreEarned /\ OwnershipFits /\ RunFollowsRecords
  BY DEF IInv, TypeOK
<1>1. /\ pi.record \in Recorded /\ NoRecord \in Recorded /\ pi.owned \in BOOLEAN
      /\ pi.owned <=> pi.record >= ApplicationInstalled
  BY <1>0 DEF Pi, OwnershipFits
<1>2. ctl.phase = Discovered /\ ~ctl.owned
  BY <1>0 DEF OwnershipFits, RunFollowsRecords
<1>3. ASSUME NEW target \in Recorded, NEW owned \in BOOLEAN, Compare(target, owned, target),
             target \in {NoRecord, pi.record}, owned <=> target >= ApplicationInstalled
      PROVE  IInv'
  <2> DEFINE next == [ctl EXCEPT !.persisted = target]
  <2>0. next \in Ctl /\ next.phase = Discovered /\ ~next.owned
    BY <1>0, <1>2 DEF Ctl
  <2>1. CASE /\ mac = NoRecord
             /\ ctl' = [next EXCEPT !.pc = "perform"]
    <3> HIDE DEF next
    <3>1. ctl' \in Ctl /\ ctl'.pc = "perform" /\ ctl'.phase = Discovered /\ ~ctl'.owned
      BY <2>0, <2>1 DEF Ctl
    <3>2. mac = 0 /\ ctl'.phase = 1
      BY <2>1, <3>1 DEF NoRecord, Discovered
    <3>3. QED BY <3>1, <3>2, ComparedKeeps
  <2>2. CASE /\ mac \in {Discovered, PreflightPassed}
             /\ ctl' = [next EXCEPT !.pc = "validate", !.goal = mac]
    <3> HIDE DEF next
    <3>1. /\ ctl' \in Ctl /\ ctl'.pc = "validate" /\ ctl'.phase = Discovered /\ ~ctl'.owned
          /\ ctl'.goal = mac
      BY <1>0, <2>0, <2>2 DEF Ctl
    <3>2. /\ Discovered <= mac /\ ~(mac >= ApplicationInstalled) /\ ~(mac >= ApplicationAcquired)
      BY <2>2 DEF Discovered, PreflightPassed, ApplicationInstalled, ApplicationAcquired
    <3>3. QED BY <3>1, <3>2, ComparedKeeps
  <2>3. CASE /\ mac # NoRecord /\ target = mac
             /\ ctl' = [next EXCEPT !.pc = "validate", !.goal = mac, !.owned = owned]
    <3> HIDE DEF next
    <3>1. /\ ctl' \in Ctl /\ ctl'.pc = "validate" /\ ctl'.phase = Discovered /\ ctl'.owned = owned
          /\ ctl'.goal = mac
      BY <1>0, <2>0, <2>3 DEF Ctl
    <3>2. target = pi.record /\ Discovered <= mac
      BY <1>0, <1>3, <2>3 DEF Phases, Discovered, Complete, NoRecord
    <3>3. QED BY <1>3, <2>3, <3>1, <3>2, ComparedKeeps
  <2>4. CASE /\ ReconcilableAhead(target)
             /\ ctl' = [next EXCEPT !.pc = "reconcile", !.phase = mac + 1, !.goal = target,
                                    !.owned = owned]
    <3>1. target > mac /\ target >= ApplicationAcquired /\ target # NoRecord
      BY <2>4 DEF ReconcilableAhead, NoRecord, ApplicationAcquired
    <3>2. mac + 1 \in Phases /\ mac + 1 <= target
      BY <1>0, <3>1 DEF Phases, NoRecord, Discovered, Complete
    <3> HIDE DEF next
    <3>3. /\ ctl' \in Ctl /\ ctl'.pc = "reconcile" /\ ctl'.phase = mac + 1 /\ ctl'.owned = owned
          /\ ctl'.goal = target
      BY <1>3, <2>0, <2>4, <3>2 DEF Ctl
    <3>4. QED BY <1>3, <3>1, <3>2, <3>3, ComparedKeeps
  <2>5. CASE ctl' = NewProcess("idle")
    BY <1>0, <2>5, EndKeeps DEF RecordsAreEarned, Earned, ReusableDriver
  <2>6. QED BY <1>3, <2>1, <2>2, <2>3, <2>4, <2>5 DEF Compare
<1>4. FALSE <=> NoRecord >= ApplicationInstalled
  BY DEF NoRecord, ApplicationInstalled
<1>5. QED BY <1>1, <1>3, <1>4

\* Load, with or without the connection.
LEMMA LoadKeeps ==
  ASSUME IInv, Load \/ LoadLost
  PROVE  IInv'
<1>1. CASE Load
  BY <1>1, CompareKeeps DEF Load, IInv, TypeOK
<1>2. CASE LoadLost
  BY <1>2, CompareKeeps, SpendType DEF LoadLost, IInv, Kinds
<1>3. QED BY <1>1, <1>2

\* What is earned stays earned while nothing is taken away ...
LEMMA EarnedStays ==
  ASSUME NEW p, Earned(p),
         pi.helper => pi'.helper, pi.driver # "none" => pi'.driver # "none",
         pi.driver = "accepted" => pi'.driver = "accepted", pi.renamed => pi'.renamed,
         ReusableDriver => ReusableDriver'
  PROVE  Earned(p)'
BY DEF Earned

\* ... and a record may always go back.
LEMMA EarnedBelow ==
  ASSUME NEW p \in {NoRecord} \cup Phases, NEW q \in {NoRecord} \cup Phases, q <= p, Earned(p)
  PROVE  Earned(q)
BY DEF Earned, NoRecord, Phases, Discovered, Complete, ApplicationAcquired, TrybootStaged,
       DriverAccepted, HostnameChanged, FinalRebooted

\* A reboot into the normal configuration takes nothing away.
LEMMA NormalBootKeepsEarned ==
  ASSUME pi \in Pi, Earned(mac), Earned(pi.record), UNCHANGED mac,
         pi' = [pi EXCEPT !.boot = NormalBoot]
  PROVE  /\ pi' \in Pi /\ pi'.record = pi.record /\ pi'.owned = pi.owned
         /\ Earned(mac)' /\ Earned(pi.record)'
<1>1. NormalBoot \in {"old", "new"} /\ (pi.driver = "accepted" => NormalBoot = "new")
  BY DEF NormalBoot, Committed
<1>2. /\ pi' \in Pi /\ pi'.record = pi.record /\ pi'.owned = pi.owned /\ pi'.helper = pi.helper
      /\ pi'.driver = pi.driver /\ pi'.renamed = pi.renamed /\ pi'.boot = NormalBoot
  BY <1>1 DEF Pi
<1>3. ReusableDriver => ReusableDriver'
  BY <1>1, <1>2 DEF ReusableDriver
<1>4. QED BY <1>2, <1>3, EarnedStays

\* The Mac's record follows the Pi's.
LEMMA ReconcileKeeps ==
  ASSUME IInv, Reconcile \/ Adopt
  PROVE  IInv'
<1>0. /\ mac \in {NoRecord} \cup Phases /\ pi \in Pi /\ ctl \in Ctl /\ UNCHANGED <<pi, spent>>
      /\ RecordsAreEarned /\ OwnershipFits /\ RunFollowsRecords
      /\ spent \in [Kinds -> Nat] /\ \A k \in Kinds : spent[k] <= Budget[k]
  BY DEF IInv, TypeOK, Reconcile, Adopt
<1>1. /\ ctl.phase \in Phases /\ ctl.goal \in {NoRecord} \cup Phases
      /\ ctl.goal = pi.record /\ ctl.goal >= ApplicationAcquired /\ ctl.phase <= ctl.goal
      /\ ctl.owned <=> ctl.goal >= ApplicationInstalled
  BY <1>0 DEF Reconcile, Adopt, Ctl, RunFollowsRecords, OwnershipFits
<1>2. CASE Reconcile
  <2>1. CASE Goto("adopt")
    <3>1. /\ ctl' \in Ctl /\ ctl'.pc = "adopt" /\ ctl'.phase = ctl.phase /\ ctl'.goal = ctl.goal
          /\ ctl'.owned = ctl.owned
      BY <1>0, <2>1, GotoFields DEF Pcs
    <3>2. TypeOK'
      BY <1>0, <1>2, <3>1 DEF Reconcile, TypeOK
    <3>3. RunFollowsRecords' /\ PendingIsEarned'
      BY <1>0, <1>1, <3>1 DEF RunFollowsRecords, Performing, PendingIsEarned
    <3>4. OwnershipFits' /\ RecordsAreEarned'
      BY <1>0, <1>1, <1>2, <3>1 DEF OwnershipFits, RecordsAreEarned, Earned, ReusableDriver, Reconcile
    <3>5. QED BY <3>2, <3>3, <3>4 DEF IInv
  <2>2. CASE ctl.phase # ctl.goal /\ ctl' = [ctl EXCEPT !.phase = @ + 1]
    <3>1. ctl.phase + 1 \in Phases /\ ctl.phase + 1 <= ctl.goal
      BY <1>1, <2>2 DEF Phases, NoRecord, Discovered, Complete
    <3>2. /\ ctl' \in Ctl /\ ctl'.pc = "reconcile" /\ ctl'.phase = ctl.phase + 1
          /\ ctl'.goal = ctl.goal /\ ctl'.owned = ctl.owned
      BY <1>0, <1>2, <2>2, <3>1 DEF Ctl, Reconcile
    <3>3. UNCHANGED mac
      BY <1>2 DEF Reconcile
    <3>4. QED BY <1>0, <1>1, <3>1, <3>2, <3>3, ComparedKeeps
  <2>3. CASE ctl' = NewProcess("idle")
    BY <1>0, <1>2, <2>3, EndKeeps DEF RecordsAreEarned, Earned, ReusableDriver, Reconcile
  <2>4. QED BY <1>2, <2>1, <2>2, <2>3 DEF Reconcile
<1>3. CASE Adopt
  <2>1. mac' = pi.record /\ ctl' = [ctl EXCEPT !.pc = "validate", !.phase = Discovered]
    BY <1>1, <1>3 DEF Adopt
  <2>2. Discovered \in Phases /\ Discovered <= ctl.goal
    BY <1>1 DEF Phases, Discovered, Complete, NoRecord, ApplicationAcquired
  <2>3. /\ ctl' \in Ctl /\ ctl'.pc = "validate" /\ ctl'.phase = Discovered /\ ctl'.goal = ctl.goal
        /\ ctl'.owned = ctl.owned
    BY <1>0, <2>1, <2>2 DEF Ctl
  <2>4. TypeOK'
    BY <1>0, <1>1, <2>1, <2>3 DEF TypeOK
  <2>5. RunFollowsRecords' /\ PendingIsEarned'
    BY <1>0, <1>1, <2>1, <2>2, <2>3 DEF RunFollowsRecords, Performing, PendingIsEarned
  <2>6. OwnershipFits' /\ RecordsAreEarned'
    BY <1>0, <1>1, <2>1, <2>3 DEF OwnershipFits, RecordsAreEarned, Earned, ReusableDriver
  <2>7. QED BY <2>4, <2>5, <2>6 DEF IInv
<1>4. QED BY <1>2, <1>3

\* A phase that no longer holds sends the records back, and what they go
\* back to is earned.
LEMMA RegressKeeps ==
  ASSUME IInv, ctl.pc = "validate", ctl.phase # Discovered, ctl' = Regress, UNCHANGED <<mac, pi>>,
         spent' \in [Kinds -> Nat], \A k \in Kinds : spent'[k] <= Budget[k]
  PROVE  IInv'
<1>0. /\ mac \in {NoRecord} \cup Phases /\ pi \in Pi /\ ctl \in Ctl
      /\ RecordsAreEarned /\ OwnershipFits /\ RunFollowsRecords
  BY DEF IInv, TypeOK
<1>1. /\ ctl.phase \in Phases /\ ctl.goal = mac /\ ctl.phase <= mac /\ ctl.owned \in BOOLEAN
      /\ mac >= ApplicationAcquired => pi.record = mac
      /\ ctl.owned <=> mac >= ApplicationInstalled
  BY <1>0 DEF Ctl, RunFollowsRecords, OwnershipFits
<1> DEFINE previous == ctl.phase - 1
           owned == ctl.owned /\ KeepsOwnership(previous)
           pc == IF previous >= ApplicationAcquired THEN "saveTarget" ELSE "saveMac"
<1>2. previous \in Phases /\ previous <= mac
  BY <1>0, <1>1 DEF Phases, Discovered, Complete, NoRecord
<1>3. owned <=> previous >= ApplicationInstalled
  BY <1>0, <1>1, <1>2 DEF KeepsOwnership, ApplicationInstalled, Phases, NoRecord, Discovered, Complete
<1>4. ctl' = [ctl EXCEPT !.phase = previous, !.owned = owned, !.pc = pc]
  BY DEF Regress
<1>5. owned \in BOOLEAN /\ pc \in {"saveTarget", "saveMac"}
  OBVIOUS
<1>6. Earned(previous)
  BY <1>0, <1>2, EarnedBelow DEF RecordsAreEarned
<1>7. pc = "saveMac" => ~(previous >= ApplicationAcquired)
  OBVIOUS
<1>8. pc = "saveTarget" => previous >= ApplicationAcquired
  OBVIOUS
<1> HIDE DEF previous, owned, pc
<1>9. /\ ctl' \in Ctl /\ ctl'.pc = pc /\ ctl'.phase = previous /\ ctl'.owned = owned
  BY <1>0, <1>2, <1>4, <1>5 DEF Ctl
<1>10. TypeOK'
  BY <1>0, <1>9 DEF TypeOK
<1>11. RunFollowsRecords'
  BY <1>5, <1>7, <1>8, <1>9 DEF RunFollowsRecords, Performing
<1>12. OwnershipFits'
  BY <1>0, <1>3, <1>5, <1>9 DEF OwnershipFits
<1>13. RecordsAreEarned' /\ PendingIsEarned'
  BY <1>0, <1>6, <1>9 DEF RecordsAreEarned, PendingIsEarned, Earned, ReusableDriver
<1>14. QED BY <1>10, <1>11, <1>12, <1>13 DEF IInv

\* A phase that holds leads to the next one, and past the last one into the
\* first phase that is not recorded.
LEMMA ValidateKeeps ==
  ASSUME IInv, Validate
  PROVE  IInv'
<1>0. /\ mac \in {NoRecord} \cup Phases /\ pi \in Pi /\ ctl \in Ctl /\ UNCHANGED <<mac, pi, spent>>
      /\ RecordsAreEarned /\ OwnershipFits /\ RunFollowsRecords
      /\ spent \in [Kinds -> Nat] /\ \A k \in Kinds : spent[k] <= Budget[k]
  BY DEF IInv, TypeOK, Validate
<1>1. /\ ctl.phase \in Phases /\ ctl.goal = mac /\ ctl.phase <= mac
      /\ mac >= ApplicationAcquired => pi.record = mac
      /\ ctl.owned <=> mac >= ApplicationInstalled
  BY <1>0 DEF Validate, Ctl, RunFollowsRecords, OwnershipFits
<1>2. CASE ctl.phase < ctl.goal /\ ctl' = [ctl EXCEPT !.phase = @ + 1]
  <2>1. ctl.phase + 1 \in Phases /\ ctl.phase + 1 <= mac
    BY <1>0, <1>1, <1>2 DEF Phases, NoRecord, Discovered, Complete
  <2>2. /\ ctl' \in Ctl /\ ctl'.pc = "validate" /\ ctl'.phase = ctl.phase + 1
        /\ ctl'.goal = mac /\ ctl'.owned = ctl.owned
    BY <1>0, <1>1, <1>2, <2>1 DEF Ctl, Validate
  <2>3. QED BY <1>0, <1>1, <2>1, <2>2, ComparedKeeps
<1>3. CASE /\ ctl.phase = ctl.goal /\ ctl.goal < Complete
           /\ ctl' = [ctl EXCEPT !.pc = "perform", !.phase = @ + 1]
  <2>1. ctl.phase + 1 \in Phases /\ mac = (ctl.phase + 1) - 1
    BY <1>1, <1>3 DEF Phases, Discovered, Complete
  <2>2. /\ ctl' \in Ctl /\ ctl'.pc = "perform" /\ ctl'.phase = ctl.phase + 1
        /\ ctl'.owned = ctl.owned
    BY <1>0, <1>3, <2>1 DEF Ctl
  <2>3. ctl.phase + 1 > ApplicationAcquired => pi.record = mac
    BY <1>1, <1>3 DEF ApplicationAcquired, Phases, Discovered, Complete
  <2>4. TypeOK'
    BY <1>0, <2>2 DEF TypeOK
  <2>5. RunFollowsRecords' /\ PendingIsEarned'
    BY <1>0, <2>1, <2>2, <2>3 DEF RunFollowsRecords, Performing, PendingIsEarned
  <2>6. OwnershipFits'
    <3>1. ctl.owned <=> ctl.phase + 1 > ApplicationInstalled
      BY <1>1, <1>3 DEF ApplicationInstalled, Phases, Discovered, Complete
    <3>2. QED BY <1>0, <2>2, <3>1 DEF OwnershipFits
  <2>7. RecordsAreEarned'
    BY <1>0 DEF RecordsAreEarned, Earned, ReusableDriver
  <2>8. QED BY <2>4, <2>5, <2>6, <2>7 DEF IInv
<1>4. CASE ctl' = NewProcess("idle")
  BY <1>0, <1>4, EndKeeps DEF RecordsAreEarned, Earned, ReusableDriver
<1>5. QED BY <1>2, <1>3, <1>4 DEF Validate

\* The first phase always holds, so a regression always has somewhere to go.
LEMMA ValidateDriftedKeeps ==
  ASSUME IInv, ValidateDrifted
  PROVE  IInv'
<1>1. ctl.phase # Discovered
  BY DEF ValidateDrifted, Holds, Discovered, PreflightPassed, ApplicationAcquired, TrybootStaged,
         TrybootVerified, DriverAccepted, ApplicationInstalled, HostnameChanged, FinalRebooted,
         FinalVerified, Complete
<1>2. QED BY <1>1, RegressKeeps DEF ValidateDrifted, IInv, TypeOK

LEMMA CheckLostKeeps ==
  ASSUME IInv, CheckLost
  PROVE  IInv'
<1>1. spent' \in [Kinds -> Nat] /\ \A k \in Kinds : spent'[k] <= Budget[k]
  BY SpendType DEF CheckLost, IInv, Kinds
<1>2. ctl.phase # Discovered
  BY DEF CheckLost, TakesLossForDrift, Discovered, PreflightPassed, TrybootStaged, TrybootVerified,
         FinalRebooted
<1>3. CASE ctl.pc = "validate" /\ ctl' = Regress
  BY <1>1, <1>2, <1>3, RegressKeeps DEF CheckLost
<1>4. CASE ctl' = NewProcess("idle")
  BY <1>1, <1>4, EndKeeps DEF CheckLost, IInv, TypeOK, RecordsAreEarned, Earned, ReusableDriver
<1>5. QED BY <1>3, <1>4 DEF CheckLost

----
(* Performing and recording a phase *)

\* What every action of perform_phase has in common.
LEMMA PerformKeeps ==
  ASSUME IInv, ctl.pc \in {"perform", "probe", "record"}, UNCHANGED <<mac, spent>>,
         pi' \in Pi, pi'.record = pi.record, pi'.owned = pi.owned,
         Earned(mac)', Earned(pi.record)',
         \/ Goto("verify") /\ ctl.phase # ApplicationInstalled
         \/ /\ ctl.phase = ApplicationInstalled
            /\ ctl' = [ctl EXCEPT !.pc = "verify", !.owned = TRUE]
         \/ Goto("probe") /\ ctl.phase = TrybootVerified
         \/ Goto("record") /\ ctl.phase = DriverAccepted
         \/ Ended
  PROVE  IInv'
<1>0. /\ mac \in {NoRecord} \cup Phases /\ ctl \in Ctl /\ OwnershipFits /\ RunFollowsRecords
      /\ spent' \in [Kinds -> Nat] /\ \A k \in Kinds : spent'[k] <= Budget[k]
  BY DEF IInv, TypeOK
<1>1. /\ ctl.phase \in Phases /\ mac = ctl.phase - 1
      /\ ctl.phase > ApplicationAcquired => pi.record = mac
      /\ ctl.owned <=> ctl.phase > ApplicationInstalled
  BY <1>0 DEF Ctl, RunFollowsRecords, OwnershipFits, Performing
<1>2. CASE Ended
  BY <1>0, <1>2, EndKeeps DEF Ended
<1>3. CASE ~Ended
  <2>1. /\ ctl' \in Ctl /\ ctl'.pc \in {"verify", "probe", "record"} /\ ctl'.phase = ctl.phase
        /\ ctl'.pc = "probe" => ctl.phase = TrybootVerified
        /\ ctl'.pc = "record" => ctl.phase = DriverAccepted
    BY <1>0, <1>3, GotoFields DEF Pcs, Ctl
  <2>2. ctl.phase # ApplicationInstalled => ctl'.owned = ctl.owned
    BY <1>0, <1>3, GotoFields DEF Pcs
  <2>3. ctl.phase = ApplicationInstalled => ctl'.owned = TRUE /\ ctl'.pc = "verify"
    <3>1. TrybootVerified # ApplicationInstalled /\ DriverAccepted # ApplicationInstalled
      BY DEF TrybootVerified, DriverAccepted, ApplicationInstalled
    <3>2. ctl.phase = ApplicationInstalled => ctl' = [ctl EXCEPT !.pc = "verify", !.owned = TRUE]
      BY <1>3, <3>1
    <3>3. QED BY <1>0, <3>2 DEF Ctl
  <2>4. TypeOK'
    BY <1>0, <2>1 DEF TypeOK
  <2>5. RunFollowsRecords' /\ PendingIsEarned'
    BY <1>1, <2>1 DEF RunFollowsRecords, Performing, PendingIsEarned
  <2>6. OwnershipFits'
    <3>1. CASE ctl.phase = ApplicationInstalled
      BY <1>0, <2>1, <2>3, <3>1 DEF OwnershipFits, ApplicationInstalled
    <3>2. CASE ctl.phase # ApplicationInstalled
      <4>1. ctl.phase > ApplicationInstalled <=> ctl.phase >= ApplicationInstalled
        BY <1>1, <3>2 DEF ApplicationInstalled, Phases, Discovered, Complete
      <4>2. QED BY <1>0, <1>1, <2>1, <2>2, <3>2, <4>1 DEF OwnershipFits
    <3>3. QED BY <3>1, <3>2
  <2>7. QED BY <2>4, <2>5, <2>6 DEF IInv, RecordsAreEarned
<1>4. QED BY <1>2, <1>3

\* The phases up to the staged driver.  Staging may replace an accepted
\* driver that is not loaded: then neither record claims it.
LEMMA EarlyPhasesKeep ==
  ASSUME IInv, Prepare \/ Preflight \/ Acquire \/ Stage
  PROVE  IInv'
<1>0. /\ pi \in Pi /\ Earned(mac) /\ Earned(pi.record) /\ UNCHANGED <<mac, spent>>
      /\ ctl.pc = "perform" /\ RunFollowsRecords
  BY DEF IInv, TypeOK, RecordsAreEarned, Prepare, Preflight, Acquire, Stage, AtPhase
<1>1. CASE Prepare \/ Preflight
  <2>1. UNCHANGED pi /\ (Goto("verify") \/ Ended) /\ ctl.phase # ApplicationInstalled
    BY <1>1 DEF Prepare, Preflight, AtPhase, Discovered, DriverReady, PreflightPassed, ApplicationInstalled
  <2>2. Earned(mac)' /\ Earned(pi.record)'
    BY <1>0, <2>1 DEF Earned, ReusableDriver
  <2>3. QED BY <1>0, <2>1, <2>2, PerformKeeps
<1>2. CASE Acquire
  <2>1. pi' = [pi EXCEPT !.helper = TRUE] /\ Goto("verify") /\ ctl.phase # ApplicationInstalled
    BY <1>2 DEF Acquire, AtPhase, ApplicationAcquired, ApplicationInstalled
  <2>2. /\ pi' \in Pi /\ pi'.record = pi.record /\ pi'.owned = pi.owned /\ pi'.helper
        /\ pi'.driver = pi.driver /\ pi'.boot = pi.boot /\ pi'.renamed = pi.renamed
    BY <1>0, <2>1 DEF Pi
  <2>3. Earned(mac)' /\ Earned(pi.record)'
    BY <1>0, <2>2, EarnedStays DEF ReusableDriver
  <2>4. QED BY <1>0, <2>1, <2>2, <2>3, PerformKeeps
<1>3. CASE Stage
  <2>1. /\ pi' = [pi EXCEPT !.driver = IF ReusableDriver THEN @ ELSE "staged"]
        /\ Goto("verify") /\ ctl.phase = TrybootStaged /\ ctl.phase # ApplicationInstalled
    BY <1>3 DEF Stage, AtPhase, TrybootStaged, ApplicationInstalled
  <2>2. /\ pi' \in Pi /\ pi'.record = pi.record /\ pi'.owned = pi.owned /\ pi'.helper = pi.helper
        /\ pi'.driver # "none" /\ pi'.boot = pi.boot /\ pi'.renamed = pi.renamed
    <3>1. CASE ReusableDriver
      BY <1>0, <2>1, <3>1 DEF Pi, ReusableDriver
    <3>2. CASE ~ReusableDriver
      BY <1>0, <2>1, <3>2 DEF Pi
    <3>3. QED BY <3>1, <3>2
  <2>3. mac = 4 /\ pi.record = 4
    BY <1>0, <2>1 DEF RunFollowsRecords, Performing, TrybootStaged, ApplicationAcquired
  <2>4. Earned(mac)' /\ Earned(pi.record)'
    BY <1>0, <2>2, <2>3 DEF Earned, ApplicationAcquired, TrybootStaged, DriverAccepted,
       HostnameChanged, FinalRebooted
  <2>5. QED BY <1>0, <2>1, <2>2, <2>4, PerformKeeps
<1>4. QED BY <1>1, <1>2, <1>3

\* The trial, its commit and the receipt: a reboot leaves an accepted driver
\* in the normal configuration.
LEMMA DriverPhasesKeep ==
  ASSUME IInv, TrialReboot \/ Probe \/ Commit \/ RecordAccepted \/ FinalReboot
  PROVE  IInv'
<1>0. /\ pi \in Pi /\ Earned(mac) /\ Earned(pi.record) /\ UNCHANGED <<mac, spent>>
      /\ ctl.pc \in {"perform", "probe", "record"} /\ RunFollowsRecords
  BY DEF IInv, TypeOK, RecordsAreEarned, TrialReboot, Probe, Commit, RecordAccepted, FinalReboot, AtPhase
<1>1. /\ mac = ctl.phase - 1
      /\ ctl.phase > ApplicationAcquired => pi.record = mac
      /\ ctl.pc = "probe" => ctl.phase = TrybootVerified
      /\ ctl.pc = "record" => ctl.phase = DriverAccepted
  BY <1>0 DEF RunFollowsRecords, Performing
<1>2. CASE UNCHANGED pi
  <2>1. Earned(mac)' /\ Earned(pi.record)'
    BY <1>0, <1>2 DEF Earned, ReusableDriver
  <2>2. \/ (Goto("verify") \/ Ended) /\ ctl.phase # ApplicationInstalled
        \/ Goto("probe") /\ ctl.phase = TrybootVerified
        \/ Goto("record") /\ ctl.phase = DriverAccepted
    <3>1. CASE TrialReboot \/ Probe
      BY <1>1, <3>1 DEF TrialReboot, Probe, AtPhase, TrybootVerified, ApplicationInstalled
    <3>2. CASE Commit \/ RecordAccepted \/ FinalReboot
      BY <1>1, <3>2 DEF Commit, RecordAccepted, FinalReboot, AtPhase, DriverAccepted, FinalRebooted,
                        ApplicationInstalled
    <3>3. QED BY <3>1, <3>2
  <2>3. QED BY <1>0, <1>2, <2>1, <2>2, PerformKeeps
<1>3. CASE TrialReboot /\ pi' # pi
  <2>1. /\ pi' = [pi EXCEPT !.boot = IF pi.driver = "staged" THEN "trial" ELSE NormalBoot]
        /\ Goto("probe") /\ ctl.phase = TrybootVerified
    BY <1>3 DEF TrialReboot, AtPhase
  <2>2. /\ pi' \in Pi /\ pi'.record = pi.record /\ pi'.owned = pi.owned /\ pi'.helper = pi.helper
        /\ pi'.driver = pi.driver /\ pi'.renamed = pi.renamed
    BY <1>0, <2>1 DEF Pi, NormalBoot
  <2>3. mac = 5 /\ pi.record = 5
    BY <1>1, <2>1 DEF TrybootVerified, ApplicationAcquired
  <2>4. Earned(mac)' /\ Earned(pi.record)'
    BY <1>0, <2>2, <2>3 DEF Earned, ApplicationAcquired, TrybootStaged, DriverAccepted,
       HostnameChanged, FinalRebooted
  <2>5. QED BY <1>0, <2>1, <2>2, <2>4, PerformKeeps
<1>4. CASE (Commit \/ RecordAccepted) /\ pi' # pi
  <2>1. /\ \E d \in {"committed", "accepted"} : pi' = [pi EXCEPT !.driver = d]
        /\ Goto("verify") \/ Goto("record")
        /\ ctl.phase = DriverAccepted /\ ctl.phase # ApplicationInstalled
    BY <1>1, <1>4 DEF Commit, RecordAccepted, AtPhase, DriverAccepted, ApplicationInstalled
  <2>2. /\ pi' \in Pi /\ pi'.record = pi.record /\ pi'.owned = pi.owned /\ pi'.helper = pi.helper
        /\ pi'.driver # "none" /\ pi'.renamed = pi.renamed
    BY <1>0, <2>1 DEF Pi
  <2>3. mac = 6 /\ pi.record = 6
    BY <1>1, <2>1 DEF DriverAccepted, ApplicationAcquired
  <2>4. Earned(mac)' /\ Earned(pi.record)'
    BY <1>0, <2>2, <2>3 DEF Earned, ApplicationAcquired, TrybootStaged, DriverAccepted,
       HostnameChanged, FinalRebooted
  <2>5. QED BY <1>0, <2>1, <2>2, <2>4, PerformKeeps
<1>5. CASE FinalReboot
  <2>1. /\ pi' = [pi EXCEPT !.boot = NormalBoot]
        /\ Goto("verify") /\ ctl.phase # ApplicationInstalled
    BY <1>5 DEF FinalReboot, AtPhase, FinalRebooted, ApplicationInstalled
  <2>2. QED BY <1>0, <2>1, NormalBootKeepsEarned, PerformKeeps
<1>6. QED BY <1>2, <1>3, <1>4, <1>5 DEF Probe

\* The phases that install and name the application.
LEMMA LatePhasesKeep ==
  ASSUME IInv, InstallApplication \/ Rename \/ FinalChecks
  PROVE  IInv'
<1>0. /\ pi \in Pi /\ Earned(mac) /\ Earned(pi.record) /\ UNCHANGED <<mac, spent>>
      /\ ctl.pc = "perform"
  BY DEF IInv, TypeOK, RecordsAreEarned, InstallApplication, Rename, FinalChecks, AtPhase
<1>1. /\ pi' \in Pi /\ pi'.record = pi.record /\ pi'.owned = pi.owned /\ pi'.helper = pi.helper
      /\ pi'.driver = pi.driver /\ pi'.boot = pi.boot /\ (pi.renamed => pi'.renamed)
  BY <1>0 DEF InstallApplication, Rename, FinalChecks, Pi
<1>2. Earned(mac)' /\ Earned(pi.record)'
  BY <1>0, <1>1, EarnedStays DEF ReusableDriver
<1>3. \/ (Goto("verify") \/ Ended) /\ ctl.phase # ApplicationInstalled
      \/ /\ ctl.phase = ApplicationInstalled
         /\ ctl' = [ctl EXCEPT !.pc = "verify", !.owned = TRUE]
  BY DEF InstallApplication, Rename, FinalChecks, AtPhase, ApplicationInstalled, HostnameChanged,
         FinalVerified, Complete
<1>4. QED BY <1>0, <1>1, <1>2, <1>3, PerformKeeps

\* The postcondition of a phase is what its record claims beyond the record
\* before it: the checks of verify_phase and the order of the phases fit.
LEMMA PostconditionEarns ==
  ASSUME ctl.phase \in Phases, mac = ctl.phase - 1, Earned(mac), Holds(ctl.phase)
  PROVE  Earned(ctl.phase)
<1> USE DEF Phases, Discovered, Complete
<1>1. ctl.phase >= ApplicationAcquired => pi.helper
  BY DEF Earned, Holds, ApplicationAcquired
<1>2. ctl.phase >= TrybootStaged => pi.driver # "none"
  BY DEF Earned, Holds, TrybootStaged, StagedHolds, ReusableDriver, Committed
<1>3. ctl.phase >= DriverAccepted => pi.driver = "accepted"
  BY DEF Earned, Holds, DriverAccepted
<1>4. ctl.phase >= HostnameChanged => pi.renamed
  BY DEF Earned, Holds, HostnameChanged
<1>5. ctl.phase >= FinalRebooted => ReusableDriver
  BY DEF Earned, Holds, FinalRebooted
<1>6. QED BY <1>1, <1>2, <1>3, <1>4, <1>5 DEF Earned

LEMMA VerifyKeeps ==
  ASSUME IInv, Verify
  PROVE  IInv'
<1>0. /\ mac \in {NoRecord} \cup Phases /\ pi \in Pi /\ ctl \in Ctl /\ UNCHANGED <<mac, pi, spent>>
      /\ RecordsAreEarned /\ OwnershipFits /\ RunFollowsRecords
      /\ spent \in [Kinds -> Nat] /\ \A k \in Kinds : spent[k] <= Budget[k]
  BY DEF IInv, TypeOK, Verify
<1>1. /\ ctl.phase \in Phases /\ mac = ctl.phase - 1
      /\ ctl.owned <=> ctl.phase >= ApplicationInstalled
  BY <1>0 DEF Verify, Ctl, RunFollowsRecords, OwnershipFits, Performing
<1>2. CASE Holds(ctl.phase)
  <2> DEFINE pc == IF ctl.phase >= ApplicationAcquired THEN "saveTarget" ELSE "saveMac"
  <2>1. Earned(ctl.phase)
    BY <1>0, <1>1, <1>2, PostconditionEarns DEF RecordsAreEarned
  <2>2. /\ Goto(pc) /\ pc \in {"saveTarget", "saveMac"}
        /\ pc = "saveTarget" <=> ctl.phase >= ApplicationAcquired
    BY <1>2 DEF Verify
  <2> HIDE DEF pc
  <2>3. ctl' \in Ctl /\ ctl'.pc = pc /\ ctl'.phase = ctl.phase /\ ctl'.owned = ctl.owned
    BY <1>0, <2>2, GotoFields DEF Pcs
  <2>4. TypeOK'
    BY <1>0, <2>3 DEF TypeOK
  <2>5. RunFollowsRecords'
    BY <2>2, <2>3 DEF RunFollowsRecords, Performing
  <2>6. OwnershipFits'
    BY <1>0, <1>1, <2>2, <2>3 DEF OwnershipFits
  <2>7. RecordsAreEarned' /\ PendingIsEarned'
    BY <1>0, <2>1, <2>3 DEF RecordsAreEarned, PendingIsEarned, Earned, ReusableDriver
  <2>8. QED BY <2>4, <2>5, <2>6, <2>7 DEF IInv
<1>3. CASE ~Holds(ctl.phase)
  BY <1>0, <1>3, EndKeeps DEF Verify, Ended, RecordsAreEarned, Earned, ReusableDriver
<1>4. QED BY <1>2, <1>3

\* The Pi's record, which its helper accepts ...
LEMMA SaveTargetKeeps ==
  ASSUME IInv, SaveTarget
  PROVE  IInv'
<1>0. /\ mac \in {NoRecord} \cup Phases /\ pi \in Pi /\ ctl \in Ctl /\ UNCHANGED <<mac, spent>>
      /\ RecordsAreEarned /\ OwnershipFits /\ RunFollowsRecords /\ PendingIsEarned
      /\ spent \in [Kinds -> Nat] /\ \A k \in Kinds : spent[k] <= Budget[k]
  BY DEF IInv, TypeOK, SaveTarget
<1>1. /\ ctl.phase \in Phases /\ ctl.owned \in BOOLEAN
      /\ ctl.owned <=> ctl.phase >= ApplicationInstalled
      /\ Earned(ctl.phase)
  BY <1>0 DEF SaveTarget, Ctl, OwnershipFits, PendingIsEarned
<1>2. /\ pi' = [pi EXCEPT !.record = ctl.phase, !.owned = ctl.owned]
      /\ ctl' = [ctl EXCEPT !.pc = "saveMac", !.persisted = ctl.phase]
  BY <1>1 DEF SaveTarget
<1>3. /\ pi' \in Pi /\ pi'.record = ctl.phase /\ pi'.owned = ctl.owned /\ pi'.helper = pi.helper
      /\ pi'.driver = pi.driver /\ pi'.boot = pi.boot /\ pi'.renamed = pi.renamed
  BY <1>0, <1>1, <1>2 DEF Pi
<1>4. ctl' \in Ctl /\ ctl'.pc = "saveMac" /\ ctl'.phase = ctl.phase /\ ctl'.owned = ctl.owned
  BY <1>0, <1>1, <1>2 DEF Ctl
<1>5. TypeOK'
  BY <1>0, <1>3, <1>4 DEF TypeOK
<1>6. RunFollowsRecords'
  BY <1>3, <1>4 DEF RunFollowsRecords, Performing
<1>7. OwnershipFits'
  BY <1>1, <1>3, <1>4 DEF OwnershipFits
<1>8. RecordsAreEarned' /\ PendingIsEarned'
  BY <1>0, <1>1, <1>3, <1>4 DEF RecordsAreEarned, PendingIsEarned, Earned, ReusableDriver
<1>9. QED BY <1>5, <1>6, <1>7, <1>8 DEF IInv

\* ... and the Mac's.
LEMMA SaveMacKeeps ==
  ASSUME IInv, SaveMac
  PROVE  IInv'
<1>0. /\ mac \in {NoRecord} \cup Phases /\ pi \in Pi /\ ctl \in Ctl /\ UNCHANGED <<pi, spent>>
      /\ RecordsAreEarned /\ OwnershipFits /\ RunFollowsRecords /\ PendingIsEarned
      /\ spent \in [Kinds -> Nat] /\ \A k \in Kinds : spent[k] <= Budget[k]
  BY DEF IInv, TypeOK, SaveMac
<1>1. /\ ctl.phase \in Phases /\ mac' = ctl.phase
      /\ ctl.owned <=> ctl.phase >= ApplicationInstalled
      /\ ctl.phase >= ApplicationAcquired => pi.record = ctl.phase
      /\ Earned(ctl.phase)
  BY <1>0 DEF SaveMac, Ctl, OwnershipFits, PendingIsEarned, RunFollowsRecords
<1>2. Earned(mac)' /\ Earned(pi.record)'
  BY <1>0, <1>1 DEF RecordsAreEarned, Earned, ReusableDriver
<1>3. CASE ctl.phase = Complete
  <2>1. ctl' \in Ctl /\ ctl'.pc = "idle" /\ ~ctl'.owned
    BY <1>3, NewProcessFields DEF SaveMac, Pcs
  <2>2. TypeOK' /\ RunFollowsRecords' /\ OwnershipFits' /\ PendingIsEarned'
    BY <1>0, <1>1, <2>1 DEF TypeOK, RunFollowsRecords, OwnershipFits, PendingIsEarned, Performing
  <2>3. QED BY <1>2, <2>2 DEF IInv, RecordsAreEarned
<1>4. CASE ctl.phase # Complete
  <2>1. ctl' = [ctl EXCEPT !.pc = "perform", !.phase = @ + 1]
    BY <1>4 DEF SaveMac
  <2>2. /\ ctl.phase + 1 \in Phases /\ ctl.phase = (ctl.phase + 1) - 1
        /\ ctl.phase + 1 > ApplicationAcquired <=> ctl.phase >= ApplicationAcquired
        /\ ctl.phase + 1 > ApplicationInstalled <=> ctl.phase >= ApplicationInstalled
    BY <1>1, <1>4 DEF Phases, Discovered, Complete, ApplicationAcquired, ApplicationInstalled
  <2>3. ctl' \in Ctl /\ ctl'.pc = "perform" /\ ctl'.phase = ctl.phase + 1 /\ ctl'.owned = ctl.owned
    BY <1>0, <2>1, <2>2 DEF Ctl
  <2>4. TypeOK'
    BY <1>0, <1>1, <2>3 DEF TypeOK
  <2>5. RunFollowsRecords' /\ PendingIsEarned'
    BY <1>0, <1>1, <2>2, <2>3 DEF RunFollowsRecords, Performing, PendingIsEarned
  <2>6. OwnershipFits'
    BY <1>0, <1>1, <2>2, <2>3 DEF OwnershipFits
  <2>7. QED BY <1>2, <2>4, <2>5, <2>6 DEF IInv, RecordsAreEarned
<1>5. QED BY <1>3, <1>4

----
(* Misfortunes, and the whole *)

\* What happens to the Pi leaves the records and what they claim.
LEMMA PiChangesKeep ==
  ASSUME IInv, pi' \in Pi, pi'.record = pi.record, pi'.owned = pi.owned, UNCHANGED <<mac, ctl>>,
         Earned(mac)', Earned(pi.record)', PendingIsEarned',
         spent' \in [Kinds -> Nat], \A k \in Kinds : spent'[k] <= Budget[k]
  PROVE  IInv'
<1>1. TypeOK'
  BY DEF IInv, TypeOK
<1>2. RunFollowsRecords' /\ OwnershipFits'
  BY DEF IInv, RunFollowsRecords, OwnershipFits, Performing
<1>3. QED BY <1>1, <1>2 DEF IInv, RecordsAreEarned

LEMMA MisfortuneKeeps ==
  ASSUME IInv, Interrupt \/ PowerCycle \/ Drift \/ Recover
  PROVE  IInv'
<1>0. /\ pi \in Pi /\ Earned(mac) /\ Earned(pi.record) /\ UNCHANGED mac /\ PendingIsEarned
  BY DEF IInv, TypeOK, RecordsAreEarned, Interrupt, PowerCycle, Drift, Recover
<1>1. spent' \in [Kinds -> Nat] /\ \A k \in Kinds : spent'[k] <= Budget[k]
  <2>1. CASE Recover
    BY <2>1 DEF Recover, IInv, TypeOK
  <2>2. CASE Interrupt \/ PowerCycle \/ Drift
    BY <2>2, SpendType DEF Interrupt, PowerCycle, Drift, IInv, Kinds
  <2>3. QED BY <2>1, <2>2
<1>2. CASE Interrupt
  BY <1>0, <1>1, <1>2, EndKeeps DEF Interrupt, Ended, Earned, ReusableDriver
<1>3. CASE PowerCycle
  <2>1. /\ pi' = [pi EXCEPT !.boot = NormalBoot]
    BY <1>3 DEF PowerCycle
  <2>2. /\ pi' \in Pi /\ pi'.record = pi.record /\ pi'.owned = pi.owned
        /\ Earned(mac)' /\ Earned(pi.record)'
    BY <1>0, <2>1, NormalBootKeepsEarned
  <2>3. CASE ctl' = NewProcess("idle")
    BY <1>0, <1>1, <2>2, <2>3, EndKeeps
  <2>4. CASE ctl' = ctl
    <3>1. pi'.helper = pi.helper /\ pi'.driver = pi.driver /\ pi'.renamed = pi.renamed
      BY <1>0, <2>1 DEF Pi
    <3>2. ReusableDriver => ReusableDriver'
      BY <1>0, <2>1 DEF Pi, ReusableDriver, NormalBoot, Committed
    <3>3. PendingIsEarned'
      BY <1>0, <2>4, <3>1, <3>2 DEF PendingIsEarned, Earned
    <3>4. QED BY <1>0, <1>1, <2>2, <2>4, <3>3, PiChangesKeep
  <2>5. QED BY <1>3, <2>3, <2>4 DEF PowerCycle
<1>4. CASE Drift \/ Recover
  <2>1. \E a \in {"absent", "unhealthy", "healthy"} : pi' = [pi EXCEPT !.app = a]
    BY <1>4 DEF Drift, Recover
  <2>2. /\ pi' \in Pi /\ pi'.record = pi.record /\ pi'.owned = pi.owned /\ pi'.helper = pi.helper
        /\ pi'.driver = pi.driver /\ pi'.boot = pi.boot /\ pi'.renamed = pi.renamed
    BY <1>0, <2>1 DEF Pi
  <2>3. UNCHANGED ctl
    BY <1>4 DEF Drift, Recover
  <2>4. Earned(mac)' /\ Earned(pi.record)' /\ PendingIsEarned'
    BY <1>0, <2>2, <2>3 DEF PendingIsEarned, Earned, ReusableDriver
  <2>5. QED BY <1>0, <1>1, <2>2, <2>3, <2>4, PiChangesKeep
<1>5. QED BY <1>2, <1>3, <1>4

LEMMA NextInv ==
  IInv /\ [Next]_vars => IInv'
<1> SUFFICES ASSUME IInv, [Next]_vars PROVE IInv'
  OBVIOUS
<1>1. CASE Start
  BY <1>1, EndKeeps DEF Start, IInv, TypeOK, RecordsAreEarned, Earned, ReusableDriver
<1>2. CASE Load \/ LoadLost \/ Reconcile \/ Adopt
  BY <1>2, LoadKeeps, ReconcileKeeps
<1>3. CASE Validate \/ ValidateDrifted \/ CheckLost
  BY <1>3, ValidateKeeps, ValidateDriftedKeeps, CheckLostKeeps
<1>4. CASE \/ Prepare \/ Preflight \/ Acquire \/ Stage \/ TrialReboot \/ Probe \/ Commit
           \/ RecordAccepted \/ InstallApplication \/ Rename \/ FinalReboot \/ FinalChecks
  BY <1>4, EarlyPhasesKeep, DriverPhasesKeep, LatePhasesKeep
<1>5. CASE Verify \/ SaveTarget \/ SaveMac
  BY <1>5, VerifyKeeps, SaveTargetKeeps, SaveMacKeeps
<1>6. CASE Interrupt \/ PowerCycle \/ Drift \/ Recover
  BY <1>6, MisfortuneKeeps
<1>7. CASE UNCHANGED vars
  BY <1>7 DEF vars, IInv, TypeOK, RunFollowsRecords, Performing, OwnershipFits, RecordsAreEarned,
              PendingIsEarned, Earned, ReusableDriver
<1>8. QED BY <1>1, <1>2, <1>3, <1>4, <1>5, <1>6, <1>7 DEF Next, Run, Misfortune

\* The inductive invariant holds in every installation.
THEOREM InstallerInvariant == Spec => []IInv
BY InitInv, NextInv, PTL DEF Spec

\* Every variable keeps its type, and misfortunes their budget.
THEOREM InstallerTypes == Spec => []TypeOK
<1>1. IInv => TypeOK
  BY DEF IInv
<1>2. QED BY <1>1, InstallerInvariant, PTL

\* Neither record ever claims more than the Pi has, whatever crashes, lost
\* connections, power cycles and drifts an installation meets.
THEOREM RecordsAlwaysEarned == Spec => []RecordsAreEarned
<1>1. IInv => RecordsAreEarned
  BY DEF IInv
<1>2. QED BY <1>1, InstallerInvariant, PTL

\* The helper never refuses a record for its owned files, forward or back.
THEOREM SavesAlwaysAccepted == Spec => []SavesAreAccepted
<1>1. IInv => SavesAreAccepted
  BY DEF IInv, OwnershipFits, SavesAreAccepted
<1>2. QED BY <1>1, InstallerInvariant, PTL

----
(* What a step may never do *)

\* Only the one-shot reboot of TrybootVerified starts a trial, and only the
\* commit of DriverAccepted changes the normal boot configuration.
LEMMA WhoTouchesTheDriver ==
  ASSUME pi \in Pi, [Next]_vars
  PROVE  /\ pi.boot # "trial" /\ pi'.boot = "trial" => AtPhase(TrybootVerified)
         /\ pi.driver = "staged" /\ pi'.driver = "committed" => AtPhase(DriverAccepted)
<1>1. CASE UNCHANGED pi
  BY <1>1
<1>2. CASE Acquire \/ InstallApplication \/ Rename \/ SaveTarget \/ Drift \/ Recover
  <2>1. pi'.boot = pi.boot /\ pi'.driver = pi.driver
    BY <1>2 DEF Acquire, InstallApplication, Rename, SaveTarget, Drift, Recover, Pi
  <2>2. QED BY <2>1
<1>3. CASE PowerCycle \/ FinalReboot
  <2>1. pi'.boot = NormalBoot /\ pi'.driver = pi.driver
    BY <1>3 DEF PowerCycle, FinalReboot, Pi
  <2>2. QED BY <2>1 DEF NormalBoot
<1>4. CASE Stage
  <2>1. \E d \in {"staged", pi.driver} : pi' = [pi EXCEPT !.driver = d]
    BY <1>4 DEF Stage
  <2>2. pi'.boot = pi.boot /\ pi'.driver \in {"staged", pi.driver}
    BY <2>1 DEF Pi
  <2>3. QED BY <2>2
<1>5. CASE TrialReboot
  <2>1. UNCHANGED pi \/ \E b \in {"trial", "old", "new"} : pi' = [pi EXCEPT !.boot = b]
    BY <1>5 DEF TrialReboot, NormalBoot
  <2>2. pi'.driver = pi.driver
    BY <2>1 DEF Pi
  <2>3. QED BY <1>5, <2>2 DEF TrialReboot
<1>6. CASE Commit
  <2>1. UNCHANGED pi \/ pi' = [pi EXCEPT !.driver = "committed"]
    BY <1>6 DEF Commit
  <2>2. pi'.boot = pi.boot
    BY <2>1 DEF Pi
  <2>3. QED BY <1>6, <2>2 DEF Commit
<1>7. CASE RecordAccepted
  <2>1. pi'.boot = pi.boot /\ pi'.driver = "accepted"
    BY <1>7 DEF RecordAccepted, Pi
  <2>2. QED BY <2>1
<1>8. CASE \/ Start \/ Load \/ LoadLost \/ Reconcile \/ Adopt \/ Validate \/ ValidateDrifted
           \/ CheckLost \/ Prepare \/ Preflight \/ Probe \/ FinalChecks \/ Verify \/ SaveMac
           \/ Interrupt \/ UNCHANGED vars
  BY <1>1, <1>8 DEF Start, Load, LoadLost, Reconcile, Adopt, Validate, ValidateDrifted, CheckLost,
     Prepare, Preflight, Probe, FinalChecks, Verify, SaveMac, Interrupt, vars
<1>9. QED
  BY <1>2, <1>3, <1>4, <1>5, <1>6, <1>7, <1>8 DEF Next, Run, Misfortune

\* No step tries the driver before both sides have recorded it as staged, or
\* commits it before both have recorded a verified trial.
THEOREM StepsAlwaysRecorded == Spec => StepsAreRecorded
<1>1. ASSUME IInv, [Next]_vars PROVE [TrialIsRecorded]_vars
  <2>1. ASSUME AtPhase(TrybootVerified) PROVE mac >= TrybootStaged /\ pi.record >= TrybootStaged
    BY <1>1, <2>1 DEF IInv, RunFollowsRecords, Performing, AtPhase, TrybootVerified, TrybootStaged,
       ApplicationAcquired
  <2>2. QED BY <1>1, <2>1, WhoTouchesTheDriver DEF IInv, TypeOK, TrialIsRecorded
<1>2. ASSUME IInv, [Next]_vars PROVE [CommitIsVerified]_vars
  <2>1. ASSUME AtPhase(DriverAccepted) PROVE mac >= TrybootVerified /\ pi.record >= TrybootVerified
    BY <1>2, <2>1 DEF IInv, RunFollowsRecords, Performing, AtPhase, TrybootVerified, DriverAccepted,
       ApplicationAcquired
  <2>2. QED BY <1>2, <2>1, WhoTouchesTheDriver DEF IInv, TypeOK, CommitIsVerified
<1>3. ASSUME IInv, [Next]_vars PROVE [TrialIsRecorded /\ CommitIsVerified]_vars
  BY <1>1, <1>2, <1>3
<1>4. QED BY <1>3, InstallerInvariant, PTL DEF Spec, StepsAreRecorded

----
(* An accepted driver *)

\* The driver is accepted but the Pi still runs the trial that was committed:
\* the one time when its files alone do not make it reusable.
InTrial == spent["lost"] = 0 /\ pi.driver = "accepted" /\ pi.boot # "new"

Comparing == ctl.pc \in {"reconcile", "adopt", "validate"}

Saving == ctl.pc \in {"saveTarget", "saveMac"}

\* Then the Mac's record is past the trial, a rerun finds every check up to
\* the trial satisfied by what the Pi's record says, and no record goes back
\* to where the driver is staged.
AcceptedInv ==
  /\ Committed => pi.boot # "old"
  /\ ctl.pc = "record" => Committed
  /\ ctl.pc \in {"reconcile", "adopt"} => ctl.goal > mac
  /\ spent["lost"] = 0 /\ Comparing => ctl.persisted = pi.record \/ ~pi.helper
  /\ InTrial => mac >= TrybootVerified /\ (Saving => ctl.phase >= TrybootVerified)

\* A connection that was lost stays lost in the count.
LEMMA LostIsCounted ==
  ASSUME TypeOK, [Next]_vars
  PROVE  /\ spent'["lost"] = 0 => spent["lost"] = 0
         /\ LoadLost \/ CheckLost => spent'["lost"] # 0
<1>1. spent \in [Kinds -> Nat] /\ "lost" \in Kinds /\ spent["lost"] \in Nat
  BY DEF TypeOK, Kinds
<1>2. LoadLost \/ CheckLost => spent'["lost"] = spent["lost"] + 1
  BY <1>1 DEF LoadLost, CheckLost, Spend
<1>3. CASE Interrupt \/ PowerCycle \/ Drift
  <2>1. PICK k \in {"crash", "powerCycle", "drift"} : Spend(k)
    BY <1>3 DEF Interrupt, PowerCycle, Drift
  <2>2. spent'["lost"] = spent["lost"]
    BY <1>1, <2>1 DEF Spend
  <2>3. QED BY <1>1, <1>2, <2>2
<1>4. CASE (Run \/ Recover \/ UNCHANGED vars) /\ ~(LoadLost \/ CheckLost)
  <2>1. UNCHANGED spent
    BY <1>4 DEF Run, Start, Load, Reconcile, Adopt, Validate, ValidateDrifted, Prepare, Preflight,
     Acquire, Stage, TrialReboot, Probe, Commit, RecordAccepted, InstallApplication, Rename,
     FinalReboot, FinalChecks, Verify, SaveTarget, SaveMac, Recover, vars
  <2>2. QED BY <1>4, <2>1
<1>5. QED BY <1>1, <1>2, <1>3, <1>4 DEF Next, Misfortune

\* Only the receipt of a fresh commit makes a driver accepted, a committed one
\* never boots without its configuration again, and staging leaves an accepted
\* driver alone.
LEMMA DriverSteps ==
  ASSUME IInv, AcceptedInv, [Next]_vars
  PROVE  /\ Committed' => pi'.boot # "old"
         /\ InTrial' => InTrial \/ RecordAccepted
         /\ pi.driver = "accepted" /\ spent["lost"] = 0 => pi'.driver = "accepted"
<1>0. pi \in Pi /\ TypeOK
  BY DEF IInv, TypeOK
<1>1. spent'["lost"] = 0 => spent["lost"] = 0
  BY <1>0, LostIsCounted
<1>2. CASE pi'.driver = pi.driver /\ pi'.boot \in {pi.boot, NormalBoot}
  BY <1>1, <1>2 DEF AcceptedInv, Committed, InTrial, NormalBoot
<1>3. CASE Acquire \/ InstallApplication \/ Rename \/ SaveTarget \/ Drift \/ Recover
  <2>1. pi'.boot = pi.boot /\ pi'.driver = pi.driver
    BY <1>0, <1>3 DEF Acquire, InstallApplication, Rename, SaveTarget, Drift, Recover, Pi
  <2>2. QED BY <1>2, <2>1
<1>4. CASE PowerCycle \/ FinalReboot
  <2>1. pi'.boot = NormalBoot /\ pi'.driver = pi.driver
    BY <1>0, <1>4 DEF PowerCycle, FinalReboot, Pi
  <2>2. QED BY <1>2, <2>1
<1>5. CASE Stage
  <2>1. pi'.boot = pi.boot /\ pi'.driver = IF ReusableDriver THEN pi.driver ELSE "staged"
    BY <1>0, <1>5 DEF Stage, Pi
  <2>2. mac = TrybootStaged - 1
    BY <1>5 DEF Stage, AtPhase, IInv, RunFollowsRecords, Performing
  <2>3. ~InTrial
    BY <2>2 DEF AcceptedInv, TrybootStaged, TrybootVerified
  <2>4. pi.driver = "accepted" /\ spent["lost"] = 0 => ReusableDriver
    BY <2>3 DEF InTrial, ReusableDriver
  <2>5. QED BY <1>1, <2>1, <2>3, <2>4 DEF AcceptedInv, Committed, InTrial, ReusableDriver
<1>6. CASE TrialReboot
  <2>1. \/ UNCHANGED pi
        \/ pi' = [pi EXCEPT !.boot = IF pi.driver = "staged" THEN "trial" ELSE NormalBoot]
    BY <1>6 DEF TrialReboot
  <2>2. /\ pi'.driver = pi.driver
        /\ pi'.boot \in {pi.boot, NormalBoot} \/ pi.driver = "staged"
    BY <1>0, <2>1 DEF Pi
  <2>3. CASE pi.driver = "staged"
    BY <2>2, <2>3 DEF Committed, InTrial
  <2>4. QED BY <1>2, <2>2, <2>3
<1>7. CASE Commit
  <2>1. \/ UNCHANGED pi
        \/ pi.boot = "trial" /\ pi.driver = "staged" /\ pi' = [pi EXCEPT !.driver = "committed"]
    BY <1>7 DEF Commit
  <2>2. CASE pi.boot = "trial" /\ pi.driver = "staged" /\ pi' = [pi EXCEPT !.driver = "committed"]
    <3>1. pi'.boot = "trial" /\ pi'.driver = "committed"
      BY <1>0, <2>2 DEF Pi
    <3>2. QED BY <2>2, <3>1 DEF InTrial
  <2>3. QED BY <1>2, <2>1, <2>2
<1>8. CASE RecordAccepted
  <2>1. pi'.boot = pi.boot /\ pi'.driver = "accepted" /\ pi.boot # "old"
    BY <1>0, <1>8 DEF RecordAccepted, Pi, AcceptedInv
  <2>2. QED BY <1>8, <2>1
<1>9. CASE \/ Start \/ Load \/ LoadLost \/ Reconcile \/ Adopt \/ Validate \/ ValidateDrifted
           \/ CheckLost \/ Prepare \/ Preflight \/ Probe \/ FinalChecks \/ Verify \/ SaveMac
           \/ Interrupt \/ UNCHANGED vars
  <2>1. UNCHANGED pi
    BY <1>9 DEF Start, Load, LoadLost, Reconcile, Adopt, Validate, ValidateDrifted, CheckLost,
       Prepare, Preflight, Probe, FinalChecks, Verify, SaveMac, Interrupt, vars
  <2>2. QED BY <1>2, <2>1
<1>10. QED
  BY <1>3, <1>4, <1>5, <1>6, <1>7, <1>8, <1>9 DEF Next, Run, Misfortune

\* In a trial that is accepted, a rerun finds every phase up to the trial in
\* order, so that it sends no record back behind it.
LEMMA TrialIsExplained ==
  ASSUME IInv, AcceptedInv, InTrial, ctl.pc = "validate", ctl.phase <= TrybootVerified
  PROVE  Holds(ctl.phase)
<1> USE DEF Discovered, PreflightPassed, ApplicationAcquired, DriverReady, TrybootStaged,
        TrybootVerified, DriverAccepted, ApplicationInstalled, HostnameChanged, FinalRebooted,
        FinalVerified, Complete, Phases, NoRecord
<1>1. /\ mac \in {NoRecord} \cup Phases /\ pi \in Pi /\ ctl.phase \in Phases
      /\ mac >= TrybootVerified
  BY DEF IInv, TypeOK, Ctl, AcceptedInv
<1>2. pi.helper /\ pi.record = mac
  BY <1>1 DEF IInv, RecordsAreEarned, Earned, RunFollowsRecords
<1>3. ctl.persisted = mac
  BY <1>2 DEF AcceptedInv, Comparing, InTrial
<1>4. ~ReusableDriver /\ pi.driver = "accepted" /\ Committed /\ pi.boot = "trial"
  BY <1>1 DEF InTrial, ReusableDriver, Committed, AcceptedInv, Pi
<1>5. mac < FinalRebooted
  BY <1>1, <1>4 DEF IInv, RecordsAreEarned, Earned
<1>6. PreflightAllows /\ StagedHolds /\ TrialHolds
  BY <1>1, <1>3, <1>4, <1>5 DEF PreflightAllows, StagedHolds, TrialHolds
<1>7. QED BY <1>1, <1>2, <1>6 DEF Holds

\* The Mac's record stays past the trial.
LEMMA MacStaysPast ==
  ASSUME IInv, AcceptedInv, [Next]_vars, InTrial
  PROVE  mac' >= TrybootVerified
<1>1. CASE UNCHANGED mac
  BY <1>1 DEF AcceptedInv
<1>2. CASE Adopt
  <2>1. mac' = ctl.goal /\ ctl.goal > mac /\ mac >= TrybootVerified
    BY <1>2 DEF Adopt, AcceptedInv
  <2>2. ctl.goal \in Nat /\ mac \in Nat
    BY DEF IInv, TypeOK, Ctl, Phases, NoRecord, Discovered, Complete
  <2>3. QED BY <2>1, <2>2 DEF TrybootVerified
<1>3. CASE SaveMac
  BY <1>3 DEF SaveMac, AcceptedInv, Saving
<1>4. QED
  BY <1>1, <1>2, <1>3 DEF Next, Run, Misfortune, Start, Load, LoadLost, Reconcile, Validate,
     ValidateDrifted, CheckLost, Prepare, Preflight, Acquire, Stage, TrialReboot, Probe, Commit,
     RecordAccepted, InstallApplication, Rename, FinalReboot, FinalChecks, Verify, SaveTarget,
     Interrupt, PowerCycle, Drift, Recover, vars

\* What a step's new process record has to respect.
CtlRespects ==
  /\ ctl'.pc = "record" => Committed'
  /\ ctl'.pc \in {"reconcile", "adopt"} => ctl'.goal > mac'
  /\ spent'["lost"] = 0 /\ ctl'.pc \in {"reconcile", "adopt", "validate"} =>
       ctl'.persisted = pi'.record \/ ~pi'.helper
  /\ InTrial /\ spent'["lost"] = 0 /\ ctl'.pc \in {"saveTarget", "saveMac"} =>
       ctl'.phase >= TrybootVerified

\* The head of run(): what a run compares from then on is the Pi's record,
\* unless the connection was lost.
LEMMA LoadRespects == ASSUME IInv, Load \/ LoadLost PROVE CtlRespects
<1> DEFINE Recorded == {NoRecord} \cup Phases
<1>0. /\ mac \in Recorded /\ pi \in Pi /\ ctl \in Ctl /\ UNCHANGED <<mac, pi>>
      /\ pi.record \in Recorded /\ NoRecord \in Recorded /\ TypeOK
  BY DEF IInv, TypeOK, Pi, Load, LoadLost
<1>1. ASSUME NEW target \in Recorded, NEW owned, Compare(target, owned, target)
      PROVE  /\ ctl'.pc \in {"perform", "validate", "reconcile", "idle"}
             /\ ctl'.pc \in {"validate", "reconcile"} => ctl'.persisted = target
             /\ ctl'.pc = "reconcile" => ctl'.goal > mac
  <2> DEFINE next == [ctl EXCEPT !.persisted = target]
  <2>1. next \in Ctl /\ next.persisted = target
    BY <1>0 DEF Ctl
  <2>2. CASE ctl' = [next EXCEPT !.pc = "perform"]
    <3> HIDE DEF next
    <3>1. QED BY <2>1, <2>2 DEF Ctl
  <2>3. CASE ctl' = [next EXCEPT !.pc = "validate", !.goal = mac]
    <3> HIDE DEF next
    <3>1. QED BY <2>1, <2>3 DEF Ctl
  <2>4. CASE ctl' = [next EXCEPT !.pc = "validate", !.goal = mac, !.owned = owned]
    <3> HIDE DEF next
    <3>1. QED BY <2>1, <2>4 DEF Ctl
  <2>5. CASE /\ ReconcilableAhead(target)
             /\ ctl' = [next EXCEPT !.pc = "reconcile", !.phase = mac + 1, !.goal = target,
                                    !.owned = owned]
    <3>1. target > mac
      BY <2>5 DEF ReconcilableAhead
    <3> HIDE DEF next
    <3>2. QED BY <2>1, <2>5, <3>1 DEF Ctl
  <2>6. CASE ctl' = NewProcess("idle")
    BY <2>6 DEF NewProcess
  <2>7. QED BY <1>1, <2>2, <2>3, <2>4, <2>5, <2>6 DEF Compare
<1>2. CASE Load
  <2>1. PICK target \in {pi.record, NoRecord}, owned \in {pi.owned, FALSE} :
          Compare(target, owned, target) /\ (target = pi.record \/ ~pi.helper)
    BY <1>2 DEF Load
  <2>2. QED BY <1>0, <1>1, <2>1 DEF CtlRespects
<1>3. CASE LoadLost
  <2>1. Compare(NoRecord, FALSE, NoRecord) /\ spent'["lost"] # 0
    <3>1. [Next]_vars
      BY <1>3 DEF Next, Misfortune
    <3>2. QED BY <1>0, <1>3, <3>1, LostIsCounted DEF LoadLost
  <2>2. QED BY <1>0, <1>1, <2>1 DEF CtlRespects
<1>4. QED BY <1>2, <1>3

\* Validation and its regression.
LEMMA ComparingRespects ==
  ASSUME IInv, AcceptedInv, Reconcile \/ Adopt \/ Validate \/ ValidateDrifted \/ CheckLost
  PROVE  CtlRespects
<1>0. /\ mac \in {NoRecord} \cup Phases /\ pi \in Pi /\ ctl \in Ctl /\ UNCHANGED pi /\ TypeOK
      /\ ctl.phase \in Phases /\ [Next]_vars
  BY DEF IInv, TypeOK, Ctl, Reconcile, Adopt, Validate, ValidateDrifted, CheckLost, Next, Run,
         Misfortune
<1>1. spent'["lost"] = 0 => spent["lost"] = 0
  BY <1>0, LostIsCounted
<1>2. ASSUME ctl' = NewProcess("idle") PROVE CtlRespects
  BY <1>2, NewProcessFields DEF CtlRespects, Pcs
<1>3. ASSUME ctl' = Regress, ctl.phase # Discovered
      PROVE  /\ ctl'.pc \in {"saveTarget", "saveMac"} /\ ctl'.phase = ctl.phase - 1
  BY <1>0, <1>3 DEF Regress, Ctl
<1>4. CASE Reconcile
  <2>1. CASE Goto("adopt")
    BY <1>0, <1>1, <1>4, <2>1, GotoFields
       DEF CtlRespects, AcceptedInv, Comparing, Reconcile, Pcs
  <2>2. CASE ctl' = [ctl EXCEPT !.phase = @ + 1]
    <3>1. ctl'.pc = "reconcile" /\ ctl'.goal = ctl.goal /\ ctl'.persisted = ctl.persisted
      BY <1>0, <1>4, <2>2 DEF Ctl, Reconcile
    <3>2. QED BY <1>0, <1>1, <1>4, <3>1 DEF CtlRespects, AcceptedInv, Comparing, Reconcile
  <2>3. QED BY <1>2, <1>4, <2>1, <2>2 DEF Reconcile
<1>5. CASE Adopt
  <2>1. ctl'.pc = "validate" /\ ctl'.persisted = ctl.persisted
    BY <1>0, <1>5 DEF Adopt, Ctl
  <2>2. QED BY <1>0, <1>1, <1>5, <2>1 DEF CtlRespects, AcceptedInv, Comparing, Adopt
<1>6. CASE Validate
  <2>1. CASE ctl' = [ctl EXCEPT !.phase = @ + 1]
    <3>1. ctl'.pc = "validate" /\ ctl'.persisted = ctl.persisted
      BY <1>0, <1>6, <2>1 DEF Ctl, Validate
    <3>2. QED BY <1>0, <1>1, <1>6, <3>1 DEF CtlRespects, AcceptedInv, Comparing, Validate
  <2>2. CASE ctl' = [ctl EXCEPT !.pc = "perform", !.phase = @ + 1]
    <3>1. ctl'.pc = "perform"
      BY <1>0, <2>2 DEF Ctl
    <3>2. QED BY <3>1 DEF CtlRespects
  <2>3. QED BY <1>2, <1>6, <2>1, <2>2 DEF Validate
<1>7. CASE ValidateDrifted
  <2>1. ctl.phase # Discovered
    BY <1>7 DEF ValidateDrifted, Holds, Discovered, PreflightPassed, ApplicationAcquired,
       TrybootStaged, TrybootVerified, DriverAccepted, ApplicationInstalled, HostnameChanged,
       FinalRebooted, FinalVerified, Complete
  <2>2. InTrial => ctl.phase > TrybootVerified
    <3>1. ~(InTrial /\ ctl.phase <= TrybootVerified)
      BY <1>7, TrialIsExplained DEF ValidateDrifted
    <3>2. QED BY <1>0, <3>1 DEF Phases, Discovered, Complete, TrybootVerified
  <2>3. InTrial => ctl.phase - 1 >= TrybootVerified
    BY <1>0, <2>2 DEF Phases, Discovered, Complete, TrybootVerified
  <2>4. QED BY <1>3, <1>7, <2>1, <2>3 DEF ValidateDrifted, CtlRespects
<1>8. CASE CheckLost
  <2>1. spent'["lost"] # 0
    BY <1>0, <1>8, LostIsCounted
  <2>2. ctl.phase # Discovered
    BY <1>8 DEF CheckLost, TakesLossForDrift, Discovered, PreflightPassed, TrybootStaged,
       TrybootVerified, FinalRebooted
  <2>3. ctl' = Regress => CtlRespects
    BY <1>3, <2>1, <2>2 DEF CtlRespects
  <2>4. QED BY <1>2, <1>8, <2>3 DEF CheckLost
<1>9. QED BY <1>4, <1>5, <1>6, <1>7, <1>8

\* The phases, their postconditions and the two saves.
LEMMA PerformRespects ==
  ASSUME IInv, AcceptedInv, \/ Start \/ Prepare \/ Preflight \/ Acquire \/ Stage \/ TrialReboot
                            \/ Probe \/ Commit \/ RecordAccepted \/ InstallApplication \/ Rename
                            \/ FinalReboot \/ FinalChecks \/ Verify \/ SaveTarget \/ SaveMac
  PROVE  CtlRespects
<1>0. /\ mac \in {NoRecord} \cup Phases /\ pi \in Pi /\ ctl \in Ctl /\ ctl.phase \in Phases
  BY DEF IInv, TypeOK, Ctl
<1>1. ASSUME ctl'.pc \in {"idle", "load", "probe", "perform", "verify"} PROVE CtlRespects
  BY <1>1 DEF CtlRespects
<1>2. CASE Start \/ Prepare \/ Preflight \/ Acquire \/ Stage \/ TrialReboot \/ Probe
           \/ RecordAccepted \/ InstallApplication \/ Rename \/ FinalReboot \/ FinalChecks
  <2>1. \/ ctl' \in {NewProcess("load"), NewProcess("idle")} \/ Goto("verify") \/ Goto("probe")
        \/ ctl' = [ctl EXCEPT !.pc = "verify", !.owned = TRUE]
    BY <1>2 DEF Start, Prepare, Preflight, Acquire, Stage, TrialReboot, Probe, RecordAccepted,
       InstallApplication, Rename, FinalReboot, FinalChecks, Ended
  <2>2. CASE Goto("verify") \/ Goto("probe")
    BY <1>0, <1>1, <2>2 DEF Goto, Ctl
  <2>3. CASE ctl' \in {NewProcess("load"), NewProcess("idle")}
    BY <1>1, <2>3 DEF NewProcess
  <2>4. CASE ctl' = [ctl EXCEPT !.pc = "verify", !.owned = TRUE]
    BY <1>0, <1>1, <2>4 DEF Ctl
  <2>5. QED BY <2>1, <2>2, <2>3, <2>4
<1>3. CASE Commit
  <2>1. CASE Goto("record") /\ Committed'
    <3>1. ctl'.pc = "record"
      BY <1>0, <2>1 DEF Goto, Ctl
    <3>2. QED BY <2>1, <3>1 DEF CtlRespects
  <2>2. CASE Goto("verify") \/ Ended
    <3>1. ctl'.pc \in {"idle", "verify"}
      BY <1>0, <2>2 DEF Goto, Ended, NewProcess, Ctl
    <3>2. QED BY <1>1, <3>1
  <2>3. Goto("record") => Committed' \/ Goto("verify") \/ Ended
    BY <1>0, <1>3 DEF Commit, Committed, Pi
  <2>4. QED BY <1>3, <2>1, <2>2, <2>3 DEF Commit
<1>4. CASE Verify
  <2>1. CASE Ended
    BY <1>1, <2>1 DEF Ended, NewProcess
  <2>2. CASE ~Ended
    <3>1. /\ ctl'.phase = ctl.phase /\ ctl'.pc \in {"saveTarget", "saveMac"}
      BY <1>0, <1>4, <2>2 DEF Verify, Goto, Ctl
    <3>2. mac = ctl.phase - 1
      BY <1>4 DEF Verify, IInv, RunFollowsRecords, Performing
    <3>3. InTrial => ctl.phase >= TrybootVerified
      BY <1>0, <3>2 DEF AcceptedInv, TrybootVerified, Phases, Discovered, Complete, NoRecord
    <3>4. QED BY <3>1, <3>3 DEF CtlRespects
  <2>3. QED BY <2>1, <2>2
<1>5. CASE SaveTarget
  <2>1. CASE Ended
    BY <1>1, <2>1 DEF Ended, NewProcess
  <2>2. CASE ctl' = [ctl EXCEPT !.pc = "saveMac", !.persisted = ctl.phase]
    <3>1. ctl'.phase = ctl.phase /\ ctl'.pc = "saveMac" /\ ctl.pc = "saveTarget"
      BY <1>0, <1>5, <2>2 DEF SaveTarget, Ctl
    <3>2. QED BY <3>1 DEF CtlRespects, AcceptedInv, Saving
  <2>3. QED BY <1>5, <2>1, <2>2 DEF SaveTarget
<1>6. CASE SaveMac
  <2>1. ctl'.pc \in {"idle", "perform"}
    BY <1>0, <1>6 DEF SaveMac, NewProcess, Ctl
  <2>2. QED BY <1>1, <2>1
<1>7. QED BY <1>2, <1>3, <1>4, <1>5, <1>6

\* Misfortunes end a run or leave it where it is.
LEMMA MisfortuneRespects ==
  ASSUME IInv, AcceptedInv, [Next]_vars, Interrupt \/ PowerCycle \/ Drift \/ Recover \/ UNCHANGED vars
  PROVE  CtlRespects
<1>0. pi \in Pi /\ TypeOK
  BY DEF IInv, TypeOK
<1>1. CASE ctl' = NewProcess("idle")
  BY <1>1 DEF CtlRespects, NewProcess
<1>2. CASE UNCHANGED ctl
  <2>1. /\ pi'.driver = pi.driver /\ pi'.record = pi.record /\ pi'.helper = pi.helper
        /\ UNCHANGED mac
    BY <1>0 DEF Interrupt, PowerCycle, Drift, Recover, vars, Pi
  <2>2. spent'["lost"] = 0 => spent["lost"] = 0
    BY <1>0, LostIsCounted
  <2>3. QED BY <1>2, <2>1, <2>2 DEF CtlRespects, AcceptedInv, Committed, Comparing, Saving
<1>3. QED BY <1>1, <1>2 DEF Interrupt, PowerCycle, Drift, Recover, Ended, vars

\* A fresh installation has neither a driver of its own nor a run.
LEMMA InitAccepted == ASSUME Init PROVE AcceptedInv
<1>1. /\ ctl.pc = "idle" /\ pi.boot = IF pi.driver = "none" THEN "old" ELSE "new"
      /\ pi.driver \in {"none", "accepted"}
  BY DEF Init, NewProcess
<1>2. QED BY <1>1 DEF AcceptedInv, Committed, InTrial, Comparing, Saving

\* The strengthened invariant survives every step.
LEMMA AcceptedKeeps == ASSUME IInv, AcceptedInv, [Next]_vars PROVE AcceptedInv'
<1>1. CtlRespects
  BY LoadRespects, ComparingRespects, PerformRespects, MisfortuneRespects DEF Next, Run, Misfortune
<1>2. Committed' => pi'.boot # "old"
  BY DriverSteps
<1>3. InTrial' => mac' >= TrybootVerified /\ (Saving' => ctl'.phase >= TrybootVerified)
  <2>1. CASE InTrial
    BY <1>1, <2>1, MacStaysPast DEF CtlRespects, Saving, InTrial
  <2>2. CASE RecordAccepted
    <3>1. mac = DriverAccepted - 1 /\ UNCHANGED mac /\ Goto("verify") /\ ctl \in Ctl
      BY <2>2 DEF RecordAccepted, IInv, TypeOK, RunFollowsRecords, Performing
    <3>2. ctl'.pc = "verify"
      BY <3>1 DEF Goto, Ctl
    <3>3. QED BY <3>1, <3>2 DEF Saving, DriverAccepted, TrybootVerified
  <2>3. QED BY <2>1, <2>2, DriverSteps
<1>4. QED BY <1>1, <1>2, <1>3 DEF AcceptedInv, CtlRespects, Comparing

\* However often an installation is interrupted and repeated, a driver it has
\* accepted is never staged again, as long as no connection is lost.
THEOREM AcceptedDriversAlwaysStay == Spec => AcceptedDriverStays
<1>1. Init => AcceptedInv
  BY InitAccepted
<1>2. IInv /\ AcceptedInv /\ [Next]_vars => AcceptedInv'
  BY AcceptedKeeps
<1>3. IInv /\ AcceptedInv /\ [Next]_vars =>
        [pi.driver = "accepted" /\ spent["lost"] = 0 => pi'.driver = "accepted"]_vars
  BY DriverSteps
<1>4. QED BY <1>1, <1>2, <1>3, InstallerInvariant, PTL DEF Spec, AcceptedDriverStays
====
