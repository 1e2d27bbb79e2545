---- MODULE Delivery_proofs ----
(***************************************************************************)
(* What runs on another board than the Pi, and which programs run on the   *)
(* Pi; and that other processes do no harm: for any number of processes    *)
(* and commands, any damage to the caches, other boards and power cuts,    *)
(* and a network that may lose anything.                                   *)
(***************************************************************************)
EXTENDS Delivery, FiniteSetTheorems, TLAPS

\* What a process knows of the shared caches.  Nothing is damaged but from
\* outside, and between its checks an entry stays what it was.
ProcessInv(p) ==
  /\ payload[p] # "damaged"
  /\ step[p] = "ready" /\ item[p] = "release" => payload[p] = "released"
  /\ step[p] = "place" => item[p] = "driver"
  /\ rot = 0 /\ item[p] = "release" /\ step[p] \in {"attest", "recheck", "unpack"}
       => cache["release"] = "released"
  /\ rot = 0 /\ item[p] = "release" /\ step[p] = "failed" => own[p]

AcquireInv ==
  /\ AcquireTypeOK
  /\ rot = 0 => cache["release"] # "damaged"
  /\ \A p \in Tools : ProcessInv(p)

\* The steps in which the installation relies on the board behind its target,
\* and those of them that no download precedes without a probe.
Working == Clients \ (Slow \cup {"select"})
Sure == {"load", "catchup", "discover", "upload", "deploy", "check", "recheck", "reboot",
         "precheck", "display"}

\* No clone is behind a target that was probed and not left out of sight since;
\* a Pi without power answers nowhere.
TargetInv ==
  /\ \A n \in Names : trusted[n] # "another key"
  /\ power = "down" => \A n \in Names : reach[n] # Pi
  /\ client \in Working /\ probed => reach[target] # Clone
  /\ client \in Sure => probed
  /\ client \in {"driver", "redriver"} => ~probed
  /\ client \in {"acquire", "select"} => target = "original"

\* The payload that is sent is the released one, only a power cut makes
\* anything else of the helper, and the helper about to test or to install is
\* whole unless another board answered for it, or a power cut took the Pi too.
HelperInv ==
  /\ client = "acquire" => item[Us] = "release"
  /\ client \notin Ended \cup {"acquire"} => payload[Us] = "released"
  /\ upload # "damaged" /\ helper # "damaged"
  /\ helper = "part" => cuts > 0
  /\ client \in {"display", "install"}
       => helper = "released" \/ power = "down" \/ reach[target] = Clone

\* Which phase each step belongs to.
PhaseInv ==
  /\ client \in {"upload", "deploy", "check"} => phase = "found"
  /\ client \in {"driver", "recheck"} => phase \in Phases \ {"none", "found"}
  /\ client = "redriver" => phase = "renamed"
  /\ client \in {"identify", "reboot", "watch", "return"} => phase \in {"ready", "renamed"}
  /\ client \in {"precheck", "display"} => phase = "ready"
  /\ client \in {"instcheck", "install"} => phase = "tried"
  /\ client = "rename" => phase = "installed"
  /\ client = "follow" => phase \in {"installed", "renamed", "rebooted"}
  /\ client \in {"save", "readback"} => phase \in DOMAIN Upcoming

\* What the last command was, and where.
LastInv ==
  /\ last \in [on : {Nobody, Pi, Clone}, command : Commands, program : Files, probed : BOOLEAN]
  /\ last.on = Clone => ~last.probed /\ last.command \notin {"reboot", "display"}
  /\ last.on = Pi => \/ last.program \in {"absent", "released"}
                     \/ last.program = "part" /\ last.command = "record" /\ cuts > 0

DeliveryTypes ==
  /\ ReconnectTypeOK /\ client \in Clients /\ runs \in 0 .. MaxRuns
  /\ phase \in Phases /\ kept \in Phases
  /\ upload \in Files /\ helper \in Files /\ dirty \in BOOLEAN /\ probed \in BOOLEAN

DeliveryInv == DeliveryTypes /\ TargetInv /\ HelperInv /\ PhaseInv /\ LastInv

Inv == AcquireInv /\ DeliveryInv

-----------------------------------------------------------------------------
(* The caches. *)

LEMMA EntryIsContent ==
  ASSUME AcquireTypeOK, NEW p \in Tools
  PROVE  Entry(p) \in Contents /\ item[p] \in Items
  BY DEF AcquireTypeOK, Entry

\* A step of one process keeps the types of its state.
LEMMA AcquireTypes ==
  ASSUME AcquireTypeOK, NEW p \in Tools,
         AcquireStep(p) \/ SyncDriver(p) \/ Again(p) \/ Rot
  PROVE  AcquireTypeOK'
<1> USE EntryIsContent DEF AcquireTypeOK, Set, To, Steps
<1>1. CASE Lookup(p) BY <1>1 DEF Lookup, Contents
<1>2. CASE Fetch(p) BY <1>2 DEF Fetch
<1>3. CASE Publish(p) BY <1>3 DEF Publish, Contents
<1>4. CASE Attest(p) BY <1>4 DEF Attest
<1>5. CASE Recheck(p) BY <1>5 DEF Recheck
<1>6. CASE Unpack(p) BY <1>6 DEF Unpack, Contents
<1>7. CASE Extract(p) BY <1>7 DEF Extract, Contents
<1>8. CASE Place(p) BY <1>8 DEF Place, Contents
<1>9. CASE SyncDriver(p) BY <1>9 DEF SyncDriver, Items
<1>10. CASE Again(p) BY <1>10 DEF Again, Items, Contents
<1>11. CASE Rot BY <1>11, AcquireAssumption DEF Rot, Contents
<1> QED
  BY <1>1, <1>2, <1>3, <1>4, <1>5, <1>6, <1>7, <1>8, <1>9, <1>10, <1>11 DEF AcquireStep

\* A step of one process, or damage from outside, keeps what every process
\* knows.
LEMMA AcquireKeeps ==
  ASSUME AcquireInv, NEW p \in Tools,
         AcquireStep(p) \/ SyncDriver(p) \/ Again(p) \/ Rot
  PROVE  AcquireInv'
<1>1. AcquireTypeOK' BY AcquireTypes DEF AcquireInv
<1> SUFFICES /\ rot' = 0 => cache'["release"] # "damaged"
             /\ \A q \in Tools : ProcessInv(q)'
  BY <1>1 DEF AcquireInv
<1> USE EntryIsContent DEF AcquireInv, AcquireTypeOK, ProcessInv, Set, To, Entry, Items, Contents
<1>2. CASE Lookup(p) BY <1>2 DEF Lookup
<1>3. CASE Fetch(p)
  <2>1. PICK whole \in BOOLEAN :
          /\ step' = [step EXCEPT ![p] = IF whole THEN "publish" ELSE "failed"]
          /\ own' = [own EXCEPT ![p] = ~whole]
    BY <1>3 DEF Fetch
  <2>2. \A q \in Tools \ {p} : own'[q] = own[q] BY <2>1, Zenon
  <2>3. ~whole => own'[p] BY <2>1, Zenon
  <2> QED BY <1>3, <2>1, <2>2, <2>3 DEF Fetch
<1>4. CASE Publish(p) BY <1>4 DEF Publish, LosesRace
<1>5. CASE Attest(p)
  <2>1. PICK vouched \in BOOLEAN :
          /\ step' = [step EXCEPT ![p] = IF vouched /\ Entry(p) = "released"
                                         THEN "recheck" ELSE "failed"]
          /\ own' = [own EXCEPT ![p] = ~vouched]
    BY <1>5 DEF Attest
  <2>2. \A q \in Tools \ {p} : own'[q] = own[q] BY <2>1, Zenon
  <2>3. ~vouched => own'[p] BY <2>1, Zenon
  <2> QED BY <1>5, <2>1, <2>2, <2>3 DEF Attest
<1>6. CASE Recheck(p) BY <1>6 DEF Recheck
<1>7. CASE Unpack(p) BY <1>7 DEF Unpack
<1>8. CASE Extract(p) BY <1>8 DEF Extract
<1>9. CASE Place(p) BY <1>9 DEF Place
<1>10. CASE SyncDriver(p) BY <1>10 DEF SyncDriver
<1>11. CASE Again(p) BY <1>11 DEF Again
<1>12. CASE Rot BY <1>12, AcquireAssumption DEF Rot
<1> QED
  BY <1>2, <1>3, <1>4, <1>5, <1>6, <1>7, <1>8, <1>9, <1>10, <1>11, <1>12 DEF AcquireStep

LEMMA AcquireStays ==
  ASSUME AcquireInv, UNCHANGED acquireVars
  PROVE  AcquireInv'
  BY DEF AcquireInv, AcquireTypeOK, ProcessInv, acquireVars, Entry, Set, To

-----------------------------------------------------------------------------
(* Probes and commands. *)

\* The assumption that four names are four, spelled out.
LEMMA FourBoards == Pi # Clone /\ Pi # Stranger /\ Pi # Nobody /\ Clone # Nobody /\ Clone # Stranger
<1>1. ASSUME NEW a, NEW b, NEW c
      PROVE  Cardinality({a, b, c}) # 4
  <2>1. IsFiniteSet({a}) /\ Cardinality({a}) = 1 BY FS_Singleton
  <2>2. IsFiniteSet({a} \cup {b}) /\ Cardinality({a} \cup {b}) \in {1, 2}
    BY <2>1, FS_AddElement
  <2>3. Cardinality(({a} \cup {b}) \cup {c}) \in {1, 2, 3}
    BY <2>2, FS_AddElement
  <2>4. ({a} \cup {b}) \cup {c} = {a, b, c} OBVIOUS
  <2> QED BY <2>3, <2>4
<1>2. CASE Pi = Clone
  <2>1. {Pi, Clone, Stranger, Nobody} = {Pi, Stranger, Nobody} BY <1>2
  <2> QED BY <1>1, <2>1, ReconnectAssumption
<1>3. CASE Pi = Stranger
  <2>1. {Pi, Clone, Stranger, Nobody} = {Pi, Clone, Nobody} BY <1>3
  <2> QED BY <1>1, <2>1, ReconnectAssumption
<1>4. CASE Pi = Nobody
  <2>1. {Pi, Clone, Stranger, Nobody} = {Pi, Clone, Stranger} BY <1>4
  <2> QED BY <1>1, <2>1, ReconnectAssumption
<1>5. CASE Clone = Nobody
  <2>1. {Pi, Clone, Stranger, Nobody} = {Pi, Clone, Stranger} BY <1>5
  <2> QED BY <1>1, <2>1, ReconnectAssumption
<1>6. CASE Clone = Stranger
  <2>1. {Pi, Clone, Stranger, Nobody} = {Pi, Clone, Nobody} BY <1>6
  <2> QED BY <1>1, <2>1, ReconnectAssumption
<1> QED BY <1>2, <1>3, <1>4, <1>5, <1>6

LEMMA BoundsAreNaturals ==
  /\ MaxMoves \in Nat /\ MaxCuts \in Nat
  /\ WatchRounds \in Nat /\ ReturnRounds \in Nat /\ FollowRounds \in Nat
  BY ReconnectAssumption

LEMMA CountersStart ==
  ASSUME moves = 0, cuts = 0, left = 0
  PROVE  /\ moves \in 0 .. MaxMoves /\ cuts \in 0 .. MaxCuts
         /\ left \in 0 .. (WatchRounds + ReturnRounds + FollowRounds)
  BY BoundsAreNaturals

LEMMA MovesGrow ==
  ASSUME moves \in 0 .. MaxMoves, moves < MaxMoves, moves' = moves + 1
  PROVE  moves' \in 0 .. MaxMoves
  BY BoundsAreNaturals

LEMMA CutsGrow ==
  ASSUME cuts \in 0 .. MaxCuts, cuts < MaxCuts, cuts' = cuts + 1
  PROVE  cuts' \in 0 .. MaxCuts
  BY BoundsAreNaturals

\* A probe that finds its board has found the Pi.
LEMMA ProbesFindThePi ==
  ASSUME ReconnectTypeOK, NEW n \in Names, NEW key \in Keys
  PROVE  /\ Probe(n, key) \subseteq {"unavailable", "found", "refused"}
         /\ "found" \in Probe(n, key) => reach[n] = Pi
  BY DEF Probe, Lost, IsExpected

LEMMA KeysOfNames ==
  ASSUME ReconnectTypeOK, NEW n \in Names
  PROVE  KeyFor(n) \in Keys
  BY DEF ReconnectTypeOK, KeyFor, Keys

\* So has a wait that finds it.
LEMMA WaitsFindThePi ==
  ASSUME ReconnectTypeOK, NEW n \in Names
  PROVE  /\ WaitProbe(n) \subseteq {"unavailable", "found", "refused"}
         /\ FollowProbe(n) \subseteq {"unavailable", "found", "refused"}
         /\ "found" \in WaitProbe(n) \cup FollowProbe(n) => reach[n] = Pi
  BY ProbesFindThePi, KeysOfNames DEF WaitProbe, FollowProbe, Keys

\* A command of a working installation runs on the Pi, or on a clone, or not at
\* all, and on the Pi alone where no download precedes.
LEMMA CommandsFindThePi ==
  ASSUME ReconnectTypeOK, TargetInv, client \in Working
  PROVE  /\ Command \subseteq {"answered", "unanswered", "lost"}
         /\ Command # {"lost"} => reach[target] \in {Pi, Clone}
         /\ Command # {"lost"} /\ (probed \/ client \in Sure) => reach[target] = Pi
<1>1. KeyFor(target) \in {"its key", "no key"}
  BY DEF ReconnectTypeOK, TargetInv, KeyFor, Keys
<1>2. reach[target] \in {Pi, Clone, Stranger, Nobody}
  BY DEF ReconnectTypeOK, TargetInv, Machines
<1> QED BY <1>1, <1>2 DEF Command, KeyOf, TargetInv

-----------------------------------------------------------------------------
(* The installation, one lemma per kind of step. *)

LEMMA NothingIsFine ==
  ASSUME last' = Nothing PROVE LastInv'
  BY FourBoards DEF LastInv, Nothing, Commands, Files

\* A new process starts without a payload and acquires one.
LEMMA StartKeeps == Inv /\ Start => Inv'
<1> SUFFICES ASSUME Inv, Start PROVE Inv'
  OBVIOUS
<1>1. AcquireInv' BY AcquireKeeps, DeliveryAssumption DEF Inv, Start
<1> USE DEF Inv, DeliveryInv, DeliveryTypes, ReconnectTypeOK, Start, networkVars, piFiles, records
<1>2. DeliveryTypes'
  <2>1. runs' \in 0 .. MaxRuns /\ left' \in 0 .. (WatchRounds + ReturnRounds + FollowRounds)
    BY DeliveryAssumption, BoundsAreNaturals
  <2> QED BY <2>1 DEF Clients, Names
<1>3. TargetInv' BY DEF TargetInv, Working, Sure, Slow
<1>4. HelperInv' BY DeliveryAssumption DEF HelperInv, Again, Set, AcquireInv, AcquireTypeOK
<1>5. PhaseInv' BY DEF PhaseInv
<1>6. LastInv' BY NothingIsFine
<1> QED BY <1>1, <1>2, <1>3, <1>4, <1>5, <1>6

LEMMA KillKeeps == Inv /\ Kill => Inv'
<1> SUFFICES ASSUME Inv, Kill PROVE Inv'
  OBVIOUS
<1>1. AcquireInv' BY AcquireStays DEF Inv, Kill
<1> USE DEF Inv, DeliveryInv, DeliveryTypes, ReconnectTypeOK, Kill, networkVars, piFiles, records
<1>2. DeliveryTypes'
  <2>1. left' \in 0 .. (WatchRounds + ReturnRounds + FollowRounds) BY BoundsAreNaturals
  <2> QED BY <2>1 DEF Clients, Names
<1>3. TargetInv' BY DEF TargetInv, Working, Sure, Slow, Ended
<1>4. HelperInv' BY DEF HelperInv, Ended
<1>5. PhaseInv' BY DEF PhaseInv
<1>6. LastInv' BY NothingIsFine
<1> QED BY <1>1, <1>2, <1>3, <1>4, <1>5, <1>6

\* Acquiring leaves a payload that is released, or none.
LEMMA PayloadKeeps ==
  ASSUME AcquireInv, NEW p \in Tools, AcquireStep(p) \/ SyncDriver(p) \/ Rot, Us \in Tools
  PROVE  /\ payload[Us] = "released" => payload'[Us] = "released"
         /\ p # Us \/ AcquireStep(p) \/ Rot => item'[Us] = item[Us]
<1> USE DEF AcquireInv, AcquireTypeOK, Set, To, Items
<1>1. CASE Unpack(p) BY <1>1 DEF Unpack
<1>2. CASE SyncDriver(p) /\ ~AcquireStep(p) /\ ~Rot BY <1>2 DEF SyncDriver
<1>3. CASE UNCHANGED <<payload, item>> BY <1>3
<1> QED
  BY <1>1, <1>2, <1>3
     DEF AcquireStep, Lookup, Fetch, Publish, Attest, Recheck, Extract, Place, Rot

LEMMA AcquiringKeeps == Inv /\ (Acquiring \/ Others) => Inv'
<1> SUFFICES ASSUME Inv, Acquiring \/ Others PROVE Inv'
  OBVIOUS
<1>1. PICK p \in Tools : AcquireStep(p) \/ Rot \/ (p # Us /\ SyncDriver(p))
  <2>1. CASE Acquiring BY <2>1, DeliveryAssumption DEF Acquiring
  <2>2. CASE Others BY <2>2, DeliveryAssumption DEF Others
  <2> QED BY <2>1, <2>2
<1>2. AcquireInv' BY <1>1, AcquireKeeps DEF Inv
<1>3. UNCHANGED <<networkVars, clientVars, runs, records, piFiles, probed, last>>
  BY DEF Acquiring, Others
<1>4. /\ payload[Us] = "released" => payload'[Us] = "released"
      /\ item'[Us] = item[Us]
  BY <1>1, PayloadKeeps, DeliveryAssumption DEF Inv
<1> USE <1>3 DEF Inv, DeliveryInv, networkVars, clientVars, piFiles, records
<1>5. DeliveryTypes' BY DEF DeliveryTypes, ReconnectTypeOK
<1>6. TargetInv' BY DEF TargetInv
<1>7. HelperInv' BY <1>4 DEF HelperInv
<1>8. PhaseInv' BY DEF PhaseInv
<1>9. LastInv' BY DEF LastInv
<1> QED BY <1>2, <1>5, <1>6, <1>7, <1>8, <1>9

\* The installation goes on with a released payload.
LEMMA AcquiredKeeps == Inv /\ Acquired => Inv'
<1> SUFFICES ASSUME Inv, Acquired PROVE Inv'
  OBVIOUS
<1>1. AcquireInv' BY AcquireStays DEF Inv, Acquired
<1>2. client = "acquire" /\ step[Us] = "ready" => payload[Us] = "released"
  BY DeliveryAssumption DEF Inv, AcquireInv, ProcessInv, DeliveryInv, HelperInv
<1>3. client \in {"driver", "redriver"}
        => /\ NextPhase \in {"save", "identify", "instcheck", "rename", "follow"}
           /\ NextPhase = "save" => phase \in DOMAIN Upcoming
           /\ NextPhase = "identify" => phase = "ready"
           /\ NextPhase = "instcheck" => phase = "tried"
           /\ NextPhase = "rename" => phase = "installed"
           /\ NextPhase = "follow" => phase \in {"renamed", "rebooted"}
  BY DEF Inv, DeliveryInv, PhaseInv, Phases, NextPhase, Upcoming
<1>4. left' \in 0 .. (WatchRounds + ReturnRounds + FollowRounds)
  BY ReconnectAssumption DEF Inv, DeliveryInv, DeliveryTypes, ReconnectTypeOK, Acquired
<1>5. \/ client' = "failed"
      \/ client = "acquire" /\ client' = "select" /\ payload[Us] = "released"
      \/ client \in {"driver", "redriver"} /\ client' = NextPhase
  BY <1>2 DEF Acquired, Downloading
<1>6. UNCHANGED <<acquireVars, networkVars, trusted, pins, target, runs, records, piFiles, probed, last>>
  BY DEF Acquired
<1> USE <1>3, <1>5, <1>6 DEF Inv, DeliveryInv, networkVars, piFiles, acquireVars, records
<1>7. DeliveryTypes' BY <1>4 DEF DeliveryTypes, ReconnectTypeOK, Clients
<1>8. client \in {"driver", "redriver"} => ~probed
  BY DEF TargetInv
<1>9. TargetInv' BY <1>8 DEF TargetInv, Working, Sure, Slow, Waiting, Ended, Clients
<1>10. HelperInv' BY DEF HelperInv, Ended
<1>11. PhaseInv' BY DEF PhaseInv
<1>12. LastInv' BY DEF LastInv
<1> QED BY <1>1, <1>7, <1>9, <1>10, <1>11, <1>12

\* A target is the name at which the Pi answers.
LEMMA SelectKeeps == Inv /\ Select => Inv'
<1> SUFFICES ASSUME Inv, Select PROVE Inv'
  OBVIOUS
<1>1. AcquireInv' BY AcquireStays DEF Inv, Select
<1>2. /\ client' \in {"load", "failed"} /\ target' \in Names
      /\ probed' \in BOOLEAN /\ (client' = "load" => probed' /\ reach[target'] = Pi)
  <2>1. PICK missed \in SUBSET Names :
          LET seen == { n \in Names \ missed : Visible(n) }
              resumable == { n \in seen : reach[n] = Pi /\ phase # "none" }
          IN /\ target' = IF "original" \in resumable \/ resumable = {} THEN "original"
                          ELSE "desired"
             /\ probed' = (resumable # {} \/ ("original" \in seen /\ reach["original"] = Pi))
    BY DEF Select
  <2> DEFINE resumable == { n \in { m \in Names \ missed : Visible(m) } :
                             reach[n] = Pi /\ phase # "none" }
  <2>2. client' = IF probed' THEN "load" ELSE "failed" BY DEF Select
  <2>3. CASE resumable # {}
    <3>1. target' \in resumable BY <2>1, <2>3 DEF Names
    <3> QED BY <2>1, <2>2, <2>3, <3>1
  <2>4. CASE resumable = {} BY <2>1, <2>2, <2>4 DEF Names
  <2> QED BY <2>3, <2>4
<1>3. UNCHANGED <<acquireVars, networkVars, trusted, pins, left, runs, records, piFiles, last>>
      /\ client = "select"
  BY DEF Select
<1> USE <1>2, <1>3 DEF Inv, DeliveryInv, networkVars, piFiles, acquireVars, records
<1>4. DeliveryTypes' BY DEF DeliveryTypes, ReconnectTypeOK, Clients
<1>5. TargetInv' BY ReconnectAssumption, FourBoards DEF TargetInv, Working, Sure, Slow, Ended
<1>6. HelperInv' BY DEF HelperInv, Ended
<1>7. PhaseInv' BY DEF PhaseInv
<1>8. LastInv' BY DEF LastInv
<1> QED BY <1>1, <1>4, <1>5, <1>6, <1>7, <1>8

LEMMA DiscoverKeeps == Inv /\ Discover => Inv'
<1> SUFFICES ASSUME Inv, Discover PROVE Inv'
  OBVIOUS
<1>1. AcquireInv' BY AcquireStays DEF Inv, Discover
<1>2. /\ client' \in {"upload", "recheck", "failed"} /\ phase' \in Phases
      /\ client' = "upload" => phase' = "found"
      /\ client' = "recheck" => phase' \in Phases \ {"none", "found"}
  BY DEF Inv, DeliveryInv, DeliveryTypes, Discover, Phases
<1>3. UNCHANGED <<acquireVars, networkVars, trusted, pins, target, left, runs, kept, piFiles, probed, last>>
      /\ client = "discover"
  BY DEF Discover
<1> USE <1>2, <1>3 DEF Inv, DeliveryInv, networkVars, piFiles, acquireVars
<1>4. DeliveryTypes' BY DEF DeliveryTypes, ReconnectTypeOK, Clients
<1>5. TargetInv' BY DEF TargetInv, Working, Sure, Slow, Waiting, Ended, Clients
<1>6. HelperInv' BY DEF HelperInv, Ended
<1>7. PhaseInv' BY DEF PhaseInv
<1>8. LastInv' BY DEF LastInv
<1> QED BY <1>1, <1>4, <1>5, <1>6, <1>7, <1>8

\* The identity is verified before a reboot, and the pursuit of a new name, like
\* the wait, ends with the Pi.
LEMMA WaitKeeps == Inv /\ Wait => Inv'
<1> SUFFICES ASSUME Inv, Wait PROVE Inv'
  OBVIOUS
<1> USE FourBoards DEF Inv, DeliveryInv
<1> DEFINE Outcome ==
  /\ client' \in Clients /\ target' \in Names /\ pins' \in SUBSET Names
  /\ left' \in 0 .. (WatchRounds + ReturnRounds + FollowRounds)
  /\ client' \in Working => reach[target'] = Pi
  /\ client' \in {"failed", "done", "watch", "return", "follow", "reboot", "precheck", "redriver",
                  "identify", "save"}
  /\ client \notin Ended \cup {"acquire"}
<1> USE ReconnectAssumption, WaitsFindThePi DEF ReconnectTypeOK
<1>2. ASSUME Watch PROVE Outcome
  <2>1. PICK found \in WaitProbe(target) :
          CASE found = "unavailable" ->
                 client' = "return" /\ left' = ReturnRounds /\ UNCHANGED pins
            [] found = "refused" ->
                 client' = "failed" /\ left' = 0 /\ UNCHANGED pins
            [] found = "found" ->
                 /\ pins' = IF MustScan(target) THEN pins \cup {target} ELSE pins
                 /\ left' \in Remaining
                 /\ client' = IF left' = 0 THEN "failed" ELSE "watch"
    BY <1>2 DEF Watch
  <2>2. found \in {"unavailable", "found", "refused"} BY DEF DeliveryTypes
  <2>3. client = "watch" /\ UNCHANGED target BY <1>2 DEF Watch
  <2> USE <2>3 DEF DeliveryTypes, Remaining, Working, Slow, Waiting, Ended, Clients
  <2>4. CASE found = "unavailable" BY <2>1, <2>4
  <2>5. CASE found = "refused" BY <2>1, <2>5
  <2>6. CASE found = "found" BY <2>1, <2>6
  <2> QED BY <2>2, <2>4, <2>5, <2>6
<1>3. ASSUME NEW next \in {"precheck", "redriver"}, Return(next) PROVE Outcome
  <2>1. PICK found \in WaitProbe(target) :
          CASE found = "unavailable" ->
                 /\ left' \in Remaining
                 /\ client' = IF left' = 0 THEN "failed" ELSE "return"
                 /\ UNCHANGED pins
            [] found = "refused" ->
                 client' = "failed" /\ left' = 0 /\ UNCHANGED pins
            [] found = "found" ->
                 /\ pins' = IF MustScan(target) THEN pins \cup {target} ELSE pins
                 /\ client' = next /\ left' = 0
    BY <1>3 DEF Return
  <2>2. found \in {"unavailable", "found", "refused"} BY DEF DeliveryTypes
  <2>3. client = "return" /\ UNCHANGED target BY <1>3 DEF Return
  <2> USE <2>3 DEF DeliveryTypes, Remaining, Working, Slow, Waiting, Ended, Clients
  <2>4. CASE found = "unavailable" BY <2>1, <2>4
  <2>5. CASE found = "refused" BY <2>1, <2>5
  <2>6. CASE found = "found"
    <3>1. reach[target] = Pi BY <2>6
    <3> QED BY <2>1, <2>6, <3>1
  <2> QED BY <2>2, <2>4, <2>5, <2>6
<1>4. ASSUME NEW next \in {"save", "identify", "done"}, Follow(next) PROVE Outcome
  <2>1. PICK found \in FollowProbe("desired") :
          CASE found = "unavailable" ->
                 /\ left' \in Remaining
                 /\ client' = IF left' = 0 THEN "failed" ELSE "follow"
                 /\ UNCHANGED <<pins, target>>
            [] found = "refused" ->
                 client' = "failed" /\ left' = 0 /\ UNCHANGED <<pins, target>>
            [] found = "found" ->
                 /\ pins' = pins \cup {"desired"} /\ target' = "desired"
                 /\ client' = next /\ left' = 0
    BY <1>4 DEF Follow
  <2> USE DEF DeliveryTypes, Remaining, Working, Slow, Waiting, Ended, Clients, Names
  <2>2. found \in {"unavailable", "found", "refused"} OBVIOUS
  <2>3. client = "follow" BY <1>4 DEF Follow
  <2>4. CASE found = "unavailable" BY <2>1, <2>3, <2>4
  <2>5. CASE found = "refused" BY <2>1, <2>3, <2>5
  <2>6. CASE found = "found"
    <3>1. reach["desired"] = Pi BY <2>6
    <3> QED BY <2>1, <2>3, <2>6, <3>1
  <2> QED BY <2>2, <2>4, <2>5, <2>6
<1>5. ASSUME Identify("reboot") PROVE Outcome
  BY <1>5, ProbesFindThePi, KeysOfNames
     DEF DeliveryTypes, Identify, Working, Slow, Waiting, Ended, Clients
<1>6. Outcome /\ UNCHANGED <<networkVars, trusted, runs, records, piFiles, last>>
  <2>1. Follow(CASE phase = "installed" -> "save"
                 [] phase = "renamed" -> "identify"
                 [] phase = "rebooted" -> "done") => Outcome
    <3>1. client = "follow" => phase \in {"installed", "renamed", "rebooted"} BY DEF PhaseInv
    <3> QED BY <1>4, <3>1 DEF Follow
  <2> QED BY <1>2, <1>3, <1>5, <2>1 DEF Wait, Watch, Return, Follow, Identify
<1>7. /\ AcquireInv' /\ payload'[Us] = payload[Us]
      /\ probed' = (client' # "redriver" /\ (probed \/ client' \notin Waiting \cup Ended))
  <2>1. UNCHANGED acquireVars \/ SyncDriver(Us) BY DEF Wait
  <2>2. probed' = (client' # "redriver" /\ (probed \/ client' \notin Waiting \cup Ended))
    BY DEF Wait
  <2>3. SyncDriver(Us) => AcquireInv' /\ UNCHANGED payload
    BY AcquireKeeps, DeliveryAssumption DEF Inv, SyncDriver
  <2>4. UNCHANGED acquireVars => AcquireInv' /\ UNCHANGED payload
    BY AcquireStays DEF Inv, acquireVars
  <2> QED BY <2>1, <2>2, <2>3, <2>4
<1>8. /\ client' \in {"watch", "return"} => client \in {"watch", "return"}
      /\ client' = "reboot" => client = "identify"
      /\ client' = "precheck" => phase = "ready"
      /\ client' = "redriver" => phase = "renamed"
      /\ client' = "follow" => client = "follow"
      /\ client' = "save" => phase = "installed"
      /\ client' = "identify" => phase = "renamed"
  <2>1. ASSUME Watch PROVE client = "watch" /\ client' \in {"watch", "return", "failed"}
    BY <2>1, WaitsFindThePi DEF Watch, DeliveryTypes
  <2>2. ASSUME NEW next, Return(next)
        PROVE  client = "return" /\ client' \in {next, "return", "failed"}
    BY <2>2, WaitsFindThePi DEF Return, DeliveryTypes
  <2>3. ASSUME NEW next, Follow(next)
        PROVE  client = "follow" /\ client' \in {next, "follow", "failed"}
    BY <2>3, WaitsFindThePi DEF Follow, DeliveryTypes, Names
  <2>4. ASSUME Identify("reboot") PROVE client = "identify" /\ client' \in {"reboot", "failed"}
    BY <2>4 DEF Identify
  <2>5. client = "follow" => phase \in {"installed", "renamed", "rebooted"} BY DEF PhaseInv
  <2> QED BY <2>1, <2>2, <2>3, <2>4, <2>5 DEF Wait
<1> USE <1>6, <1>7, <1>8
<1>9. DeliveryTypes' BY DEF DeliveryTypes, networkVars, piFiles, records
<1>10. TargetInv'
  BY DEF TargetInv, networkVars, Working, Sure, Slow, Waiting, Ended, Clients
<1>11. HelperInv' BY DEF HelperInv, networkVars, piFiles
<1>12. PhaseInv' BY DEF PhaseInv, records, Upcoming
<1>13. LastInv' BY DEF LastInv, networkVars
<1> QED BY <1>7, <1>9, <1>10, <1>11, <1>12, <1>13

\* Where a command runs, and what it may start.
LEMMA RanAsPromised ==
  ASSUME Inv, client \in Working, UNCHANGED cuts,
         NEW outcome \in Command, NEW command \in Commands, NEW program \in Files \ {"damaged"},
         outcome # "lost" => \/ program \in {"absent", "released"}
                             \/ command = "record" /\ program = helper
                             \/ reach[target] = Clone,
         command \in {"reboot", "display"} => client \in Sure,
         Ran(outcome, command, program)
  PROVE  LastInv'
<1> USE FourBoards DEF Inv, DeliveryInv, DeliveryTypes, LastInv
<1>1. CASE outcome = "lost" BY <1>1 DEF Ran
<1>2. CASE outcome # "lost"
  <2>1. /\ reach[target] \in {Pi, Clone}
        /\ probed \/ client \in Sure => reach[target] = Pi
    BY <1>2, CommandsFindThePi
  <2>2. last' = [on |-> reach[target], command |-> command, program |-> program, probed |-> probed]
    BY <1>2 DEF Ran
  <2>3. program = helper /\ helper = "part" => cuts > 0 BY DEF HelperInv
  <2>4. program \in {"absent", "released", "part"} BY DEF Files
  <2> QED BY <1>2, <2>1, <2>2, <2>3, <2>4
<1> QED BY <1>1, <1>2

LEMMA ReadAsPromised ==
  ASSUME Inv, client \in Working, UNCHANGED cuts, NEW result, Reading(result)
  PROVE  LastInv'
<1>1. helper \in Files \ {"damaged"} /\ {"absent", "released"} \subseteq Files \ {"damaged"}
      /\ {"other", "record"} \subseteq Commands
  BY DEF Inv, DeliveryInv, DeliveryTypes, HelperInv, Files, Commands
<1>2. PICK test \in Command, answer \in Command :
        \/ Ran(test, "other", "absent")
        \/ Ran(IF answer = "lost" THEN test ELSE answer,
               IF answer = "lost" THEN "other" ELSE "record",
               IF answer = "lost" THEN "absent" ELSE helper)
  BY DEF Reading
<1>3. CASE Ran(test, "other", "absent") BY <1>1, <1>3, RanAsPromised
<1>4. CASE answer # "lost" /\ Ran(answer, "record", helper) BY <1>1, <1>4, RanAsPromised
<1> QED BY <1>2, <1>3, <1>4

CommandStep == Load \/ Upload \/ Deploy \/ Check \/ Save \/ Readback \/ Reboot \/ RunHelper \/ Rename

\* What a command may change, and where it leads.
CommandOutcome ==
  /\ AcquireInv' /\ payload'[Us] = payload[Us]
  /\ LastInv' /\ PhaseInv'
  /\ upload' \in Files \ {"damaged"} /\ helper' \in Files \ {"damaged"} /\ dirty' \in BOOLEAN
  /\ helper' = "part" => helper = "part"
  /\ client \in Working /\ client' \in Clients \ {"acquire", "select"}
  /\ phase' \in Phases /\ kept' \in Phases
  /\ power' \in {"up", "going", "down"} /\ (power' = "down" => power = "down")
  /\ renamed' \in BOOLEAN
  /\ left' \in 0 .. (WatchRounds + ReturnRounds + FollowRounds)
  /\ probed' \in BOOLEAN /\ (probed' => probed) /\ (client' \in Sure => probed')
  /\ client' \in {"driver", "redriver"} => ~probed'
  /\ client' \in {"display", "install"} => helper' = "released" \/ reach[target] = Clone
  /\ UNCHANGED <<reach, trusted, pins, target, runs, numeric, moves, cuts>>

LEMMA CommandOutcomeKeeps == Inv /\ CommandOutcome => Inv'
<1> SUFFICES ASSUME Inv, CommandOutcome PROVE Inv'
  OBVIOUS
<1> USE DEF Inv, DeliveryInv, CommandOutcome
<1>1. DeliveryTypes' BY DEF DeliveryTypes, ReconnectTypeOK
<1>2. TargetInv' BY DEF TargetInv, Working, Slow, Clients
<1>3. HelperInv' BY DEF HelperInv, Working, Slow
<1> QED BY <1>1, <1>2, <1>3

LEMMA CommandKeeps == Inv /\ CommandStep => CommandOutcome
<1> SUFFICES ASSUME Inv, CommandStep PROVE CommandOutcome
  OBVIOUS
<1> USE DeliveryAssumption, ReconnectAssumption DEF CommandOutcome, piFiles, records
<1>1. /\ upload \in Files \ {"damaged"} /\ helper \in Files \ {"damaged"} /\ dirty \in BOOLEAN
      /\ phase \in Phases /\ kept \in Phases /\ probed \in BOOLEAN
      /\ ReconnectTypeOK /\ TargetInv /\ HelperInv /\ PhaseInv
  BY DEF Inv, DeliveryInv, DeliveryTypes, HelperInv
<1>2. client \in Working
  BY DEF CommandStep, Load, Upload, Deploy, Check, Checked, Save, Readback, Reboot, RunHelper,
         Rename, Working, Slow, Clients, Waiting, Ended
<1>3. payload[Us] = "released" BY <1>1, <1>2 DEF HelperInv, Working, Slow
<1>4. /\ Command \subseteq {"answered", "unanswered", "lost"}
      /\ Command # {"lost"} => reach[target] \in {Pi, Clone}
      /\ Command # {"lost"} /\ (probed \/ client \in Sure) => reach[target] = Pi
  BY <1>1, <1>2, CommandsFindThePi
<1>5. UNCHANGED acquireVars => AcquireInv' /\ payload'[Us] = payload[Us]
  BY AcquireStays DEF Inv, acquireVars
<1>6. SyncDriver(Us) => AcquireInv' /\ payload'[Us] = payload[Us]
  BY AcquireKeeps DEF SyncDriver, Inv
<1>7. {"absent", "released", "part"} = Files \ {"damaged"}
      /\ {"other", "record", "reboot", "display", "install"} \subseteq Commands
  BY DEF Files, Commands
<1> USE <1>1, <1>2, <1>3, <1>4 DEF ReconnectTypeOK
<1>8. CASE Load
  <2>1. PICK result : Reading(result) BY <1>8 DEF Load
  <2>2. client = "load" /\ client' \in {"failed", "discover", "catchup"} BY <1>8 DEF Load
  <2>3. /\ UNCHANGED <<acquireVars, networkVars, trusted, pins, target, left, runs, kept, piFiles, probed>>
        /\ phase' \in {phase, kept}
    BY <1>8 DEF Load
  <2>4. LastInv' BY <2>1, <2>3, ReadAsPromised DEF networkVars
  <2>5. PhaseInv' BY <2>2 DEF PhaseInv
  <2> QED BY <1>5, <2>2, <2>3, <2>4, <2>5 DEF networkVars, Clients, TargetInv, Sure
<1>9. CASE Upload
  <2>1. PICK outcome \in Command :
          /\ Ran(outcome, "other", "absent")
          /\ upload' \in CASE outcome = "answered" -> {payload[Us]}
                           [] outcome = "unanswered" -> {payload[Us], "part"}
                           [] outcome = "lost" -> {"absent"}
          /\ client' = IF outcome = "answered" THEN "deploy" ELSE "failed"
    BY <1>9 DEF Upload
  <2>2. UNCHANGED <<acquireVars, networkVars, trusted, pins, target, left, runs, records, helper, dirty, probed>>
        /\ client = "upload"
    BY <1>9 DEF Upload
  <2>3. upload' \in Files \ {"damaged"} BY <1>7, <2>1
  <2>4. LastInv' BY <1>7, <2>1, <2>2, RanAsPromised DEF networkVars
  <2>5. PhaseInv' BY <2>1, <2>2 DEF PhaseInv
  <2> QED BY <1>5, <2>1, <2>2, <2>3, <2>4, <2>5 DEF networkVars, Clients, TargetInv, Sure
<1>10. CASE Deploy
  <2>1. PICK outcome \in Command, removal \in Command :
          /\ Ran(outcome, "other", "absent")
          /\ helper' = IF outcome # "lost" /\ upload = payload[Us] THEN upload ELSE helper
          /\ dirty' = ((outcome # "lost" /\ upload = payload[Us]) \/ dirty)
          /\ upload' = IF removal = "lost" THEN upload ELSE "absent"
          /\ client' \in {"check", "failed"}
    BY <1>10 DEF Deploy
  <2>2. UNCHANGED <<acquireVars, networkVars, trusted, pins, target, left, runs, records, probed>>
        /\ client = "deploy"
    BY <1>10 DEF Deploy
  <2>3. /\ helper' \in Files \ {"damaged"} /\ upload' \in Files \ {"damaged"} /\ dirty' \in BOOLEAN
        /\ helper' = "part" => helper = "part"
    BY <1>7, <2>1
  <2>4. LastInv' BY <1>7, <2>1, <2>2, RanAsPromised DEF networkVars
  <2>5. PhaseInv' BY <2>1, <2>2 DEF PhaseInv
  <2> QED BY <1>5, <2>1, <2>2, <2>3, <2>4, <2>5 DEF networkVars, Clients, TargetInv, Sure
<1>11. CASE Check
  <2>1. PICK outcome \in Command, right \in IF OnPi THEN {HelperIsReleased} ELSE BOOLEAN :
          /\ Ran(outcome, "other", "absent")
          /\ client' = IF outcome # "answered" THEN "failed"
                       ELSE IF right THEN Checked[client]
                       ELSE IF client = "recheck" THEN "upload"
                       ELSE "failed"
    BY <1>11 DEF Check
  <2>2. UNCHANGED <<networkVars, trusted, pins, target, left, runs, kept, piFiles>>
        /\ client \in {"check", "catchup", "recheck", "precheck", "instcheck"}
        /\ IF client' = "driver" THEN SyncDriver(Us) /\ probed' = FALSE
           ELSE UNCHANGED <<acquireVars, probed>>
    BY <1>11 DEF Check, Checked
  <2>3. LastInv' BY <1>7, <2>1, <2>2, RanAsPromised DEF networkVars
  <2>4. \/ client' = "failed"
        \/ client = "check" /\ client' = "save"
        \/ client = "catchup" /\ client' = "discover"
        \/ client = "recheck" /\ client' \in {"driver", "upload"}
        \/ client = "precheck" /\ client' = "display"
        \/ client = "instcheck" /\ client' = "install"
    BY <2>1, <2>2 DEF Checked
  <2>5. client' \in {"display", "install"} => helper = "released" \/ reach[target] = Clone
    BY <2>1, <2>2 DEF OnPi, HelperIsReleased
  <2>6. phase' \in Phases /\ PhaseInv'
    <3>1. phase' = (CASE client' = "upload" -> "found"
                      [] client' = "discover" -> kept
                      [] OTHER -> phase)
      BY <1>11 DEF Check
    <3> QED BY <2>2, <2>4, <3>1 DEF PhaseInv, Phases, Upcoming
  <2>7. /\ AcquireInv' /\ payload'[Us] = payload[Us] /\ probed' \in BOOLEAN /\ (probed' => probed)
        /\ client' = "driver" => ~probed'
        /\ client' # "driver" => probed' = probed
    BY <1>5, <1>6, <2>2
  <2>8. client' \in Sure => probed'
    <3>1. client' \in Sure => client' # "driver" /\ client \in Sure BY <2>4 DEF Sure
    <3>2. client \in Sure => probed BY DEF TargetInv
    <3> QED BY <2>7, <3>1, <3>2
  <2>9. /\ UNCHANGED <<power, renamed, reach, trusted, pins, target, runs, numeric, moves, cuts>>
        /\ UNCHANGED <<kept, upload, helper, dirty, left>>
    BY <2>2 DEF networkVars
  <2>10. client' \in Clients \ {"acquire", "select", "redriver"} BY <2>4 DEF Clients
  <2> QED BY <2>3, <2>5, <2>6, <2>7, <2>8, <2>9, <2>10
<1>12. CASE Save
  <2>1. PICK outcome \in Command, works \in Serves :
          /\ Ran(outcome, "record", helper)
          /\ kept' = IF outcome # "lost" /\ works /\ OnPi THEN Upcoming[phase] ELSE kept
          /\ client' = IF outcome = "answered" /\ works THEN "readback" ELSE "failed"
    BY <1>12 DEF Save
  <2>2. UNCHANGED <<acquireVars, networkVars, trusted, pins, target, left, runs, phase, piFiles, probed>>
        /\ client = "save"
    BY <1>12 DEF Save
  <2>3. LastInv' BY <1>7, <2>1, <2>2, RanAsPromised DEF networkVars
  <2>4. kept' \in Phases BY <2>1, <2>2 DEF PhaseInv, Upcoming, Phases
  <2>5. PhaseInv' BY <2>1, <2>2 DEF PhaseInv
  <2> QED BY <1>5, <2>1, <2>2, <2>3, <2>4, <2>5 DEF networkVars, Clients, TargetInv, Sure
<1>13. CASE Readback
  <2>1. PICK result :
          /\ Reading(result)
          /\ \/ phase' = Upcoming[phase] /\ client' = AfterSave[phase']
             \/ client' = "failed" /\ UNCHANGED phase
    BY <1>13 DEF Readback
  <2>2. UNCHANGED <<networkVars, trusted, pins, target, left, runs, kept, piFiles>>
        /\ client = "readback"
        /\ IF client' = "driver" THEN SyncDriver(Us) /\ probed' = FALSE
           ELSE UNCHANGED <<acquireVars, probed>>
    BY <1>13 DEF Readback
  <2>3. LastInv' BY <2>1, <2>2, ReadAsPromised DEF networkVars
  <2>4. phase \in {"found", "acquired", "ready", "tried", "installed", "renamed"}
    BY <2>2 DEF PhaseInv, Upcoming
  <2>5. \/ client' = "failed" /\ phase' = phase
        \/ client' = "driver" /\ phase' = "acquired"
        \/ client' = "identify" /\ phase' \in {"ready", "renamed"}
        \/ client' = "instcheck" /\ phase' = "tried"
        \/ client' = "rename" /\ phase' = "installed"
        \/ client' = "done" /\ phase' = "rebooted"
    BY <2>1, <2>4 DEF Upcoming, AfterSave
  <2>6. phase' \in Phases /\ PhaseInv' BY <2>5 DEF PhaseInv, Phases
  <2>7. /\ AcquireInv' /\ payload'[Us] = payload[Us] /\ probed' \in BOOLEAN /\ (probed' => probed)
        /\ client' = "driver" => ~probed'
    BY <1>5, <1>6, <2>2
  <2> QED BY <2>2, <2>3, <2>5, <2>6, <2>7 DEF networkVars, Clients, Sure
<1>14. CASE Reboot
  <2>1. PICK outcome \in Command :
          /\ Ran(outcome, "reboot", "absent")
          /\ power' = IF outcome # "lost" /\ OnPi THEN "going" ELSE power
    BY <1>14 DEF Reboot
  <2>2. UNCHANGED <<acquireVars, renamed, numeric, reach, moves, cuts, trusted, pins, target, runs, records, piFiles, probed>>
        /\ client = "reboot" /\ client' = "watch" /\ left' = WatchRounds
    BY <1>14 DEF Reboot
  <2>3. LastInv' BY <1>7, <2>1, <2>2, RanAsPromised DEF Sure
  <2>4. PhaseInv' BY <2>1, <2>2 DEF PhaseInv
  <2> QED BY <1>5, <2>1, <2>2, <2>3, <2>4 DEF Clients, Sure
<1>15. CASE RunHelper
  <2>1. PICK outcome \in Command, works \in Serves :
          /\ Ran(outcome, client, helper)
          /\ client' = IF outcome = "answered" /\ works THEN "save" ELSE "failed"
    BY <1>15 DEF RunHelper
  <2>2. UNCHANGED <<acquireVars, networkVars, trusted, pins, target, left, runs, records, piFiles, probed>>
        /\ client \in {"display", "install"}
    BY <1>15 DEF RunHelper
  <2>3. outcome # "lost" => helper = "released" \/ reach[target] = Clone
    <3>1. outcome # "lost" => reach[target] \in {Pi, Clone} OBVIOUS
    <3>2. target \in Names OBVIOUS
    <3> QED BY <2>2, <3>1, <3>2 DEF HelperInv, TargetInv
  <2>4. LastInv' BY <1>7, <2>1, <2>2, <2>3, RanAsPromised DEF networkVars, Sure
  <2>5. PhaseInv' BY <2>1, <2>2 DEF PhaseInv, Upcoming
  <2> QED BY <1>5, <2>1, <2>2, <2>4, <2>5 DEF networkVars, Clients, Sure
<1>16. CASE Rename
  <2>1. PICK outcome \in Command :
          /\ Ran(outcome, "other", "absent")
          /\ renamed' = (renamed \/ (outcome # "lost" /\ OnPi))
          /\ client' = IF outcome = "answered" THEN "follow" ELSE "failed"
    BY <1>16 DEF Rename
  <2>2. UNCHANGED <<acquireVars, power, numeric, reach, moves, cuts, trusted, pins, target, runs, records, piFiles, probed>>
        /\ client = "rename" /\ left' = IF client' = "follow" THEN FollowRounds ELSE 0
    BY <1>16 DEF Rename
  <2>3. LastInv' BY <1>7, <2>1, <2>2, RanAsPromised
  <2>4. PhaseInv' BY <2>1, <2>2 DEF PhaseInv
  <2> QED BY <1>5, <2>1, <2>2, <2>3, <2>4 DEF Clients, Sure
<1> QED BY <1>8, <1>9, <1>10, <1>11, <1>12, <1>13, <1>14, <1>15, <1>16 DEF CommandStep

\* A clone takes no name while the installation relies on one, and the Pi comes
\* back only while it does not.
LEMMA BoardKeeps == Inv /\ Board => Inv'
<1> SUFFICES ASSUME Inv, Board PROVE Inv'
  OBVIOUS
<1>1. AcquireInv' /\ UNCHANGED <<acquireVars, clientVars, runs, records, upload, probed, last>>
  BY AcquireStays DEF Inv, Board
<1> USE <1>1, FourBoards, BoundsAreNaturals DEF Inv, DeliveryInv, acquireVars, clientVars
<1>2. /\ Announce \/ Boot \/ Take \/ ShutDown \/ Cut
      /\ dirty' \in BOOLEAN
      /\ helper' = helper \/ (helper' = "part" /\ Cut)
  BY DEF Board, DeliveryTypes
<1> USE DEF DeliveryTypes, ReconnectTypeOK
<1>3. /\ power' \in {"up", "going", "down"} /\ cuts' \in 0 .. MaxCuts /\ moves' \in 0 .. MaxMoves
      /\ reach' \in [Names -> Machines \cup {Nobody}]
      /\ UNCHANGED <<renamed, numeric>>
      /\ cuts' >= cuts /\ (Cut => cuts' > 0 /\ power' = "down")
  <2>1. CASE Announce BY <2>1 DEF Announce, Machines, Cut
  <2>2. CASE Boot BY <2>2 DEF Boot, Cut
  <2>3. CASE Take
    <3>1. moves' \in 0 .. MaxMoves BY <2>3, MovesGrow DEF Take
    <3> QED BY <2>3, <3>1 DEF Take, Machines, Cut
  <2>4. CASE ShutDown BY <2>4 DEF ShutDown, Silent, Machines, Cut
  <2>5. CASE Cut
    <3>1. cuts' \in 0 .. MaxCuts BY <2>5, CutsGrow DEF Cut
    <3> QED BY <2>5, <3>1 DEF Cut, Silent, Machines
  <2> QED BY <1>2, <2>1, <2>2, <2>3, <2>4, <2>5
<1>4. power' = "down" => \A n \in Names : reach'[n] # Pi
  <2>1. CASE Announce BY <2>1 DEF Announce
  <2>2. CASE Boot BY <2>2 DEF Boot
  <2>3. CASE Take BY <2>3 DEF Take, TargetInv
  <2>4. CASE ShutDown \/ Cut BY <2>4 DEF ShutDown, Cut, Silent
  <2> QED BY <1>2, <2>1, <2>2, <2>3, <2>4
<1>5. client \in Working => /\ reach'[target] = Clone <=> reach[target] = Clone
                            /\ power = "down" => power' = "down"
  <2>1. CASE Announce BY <2>1 DEF Announce
  <2>2. CASE Boot BY <2>2 DEF Boot, Working
  <2>3. CASE Take BY <2>3 DEF Take, Working
  <2>4. CASE ShutDown \/ Cut BY <2>4 DEF ShutDown, Cut, Silent
  <2> QED BY <1>2, <2>1, <2>2, <2>3, <2>4
<1>6. DeliveryTypes' BY <1>2, <1>3 DEF records, Files
<1>7. TargetInv' BY <1>4, <1>5 DEF TargetInv
<1>8. HelperInv'
  <2>1. client \in {"display", "install"} => client \in Working
    BY DEF Working, Clients, Slow, Waiting, Ended
  <2>2. helper' = "part" => cuts' > 0 BY <1>2, <1>3 DEF HelperInv
  <2>3. client \in {"display", "install"}
          => helper' = "released" \/ power' = "down" \/ reach'[target] = Clone
    BY <1>2, <1>3, <1>5, <2>1 DEF HelperInv
  <2> QED BY <1>2, <2>2, <2>3 DEF HelperInv
<1>9. PhaseInv' BY DEF PhaseInv, records
<1>10. LastInv' BY <1>3 DEF LastInv
<1> QED BY <1>1, <1>6, <1>7, <1>8, <1>9, <1>10

LEMMA StutterKeeps == Inv /\ UNCHANGED vars => Inv'
<1> SUFFICES ASSUME Inv, UNCHANGED vars PROVE Inv'
  OBVIOUS
<1>1. AcquireInv' BY AcquireStays DEF Inv, vars
<1> USE DEF Inv, DeliveryInv, vars, acquireVars, networkVars, clientVars, piFiles, records
<1>2. DeliveryTypes' BY DEF DeliveryTypes, ReconnectTypeOK
<1>3. TargetInv' BY DEF TargetInv
<1>4. HelperInv' BY DEF HelperInv
<1>5. PhaseInv' BY DEF PhaseInv
<1>6. LastInv' BY DEF LastInv
<1> QED BY <1>1, <1>2, <1>3, <1>4, <1>5, <1>6

LEMMA InitInv == Init => Inv
<1> SUFFICES ASSUME Init PROVE Inv
  OBVIOUS
<1> USE DeliveryAssumption, AcquireAssumption, BoundsAreNaturals, FourBoards DEF Init
<1>1. AcquireInv
  BY DEF AcquireInit, AcquireInv, AcquireTypeOK, ProcessInv, Items, Contents, Steps
<1>2. DeliveryTypes
  <2>1. ReconnectTypeOK
    <3>1. moves \in 0 .. MaxMoves /\ cuts \in 0 .. MaxCuts
          /\ left \in 0 .. (WatchRounds + ReturnRounds + FollowRounds)
      <4>1. moves = 0 /\ cuts = 0 /\ left = 0 BY Zenon DEF NetworkInit
      <4> QED BY <4>1, CountersStart, Zenon
    <3>2. trusted \in [Names -> Keys] BY DEF NetworkInit, Names, Keys
    <3>3. reach \in [Names -> Machines \cup {Nobody}] BY DEF NetworkInit, Names, Machines
    <3>4. /\ power = "up" /\ renamed = FALSE /\ pins = {} /\ target = "original"
          /\ numeric \in {FALSE, Numeric}
      BY Zenon DEF NetworkInit
    <3>5. Numeric \in BOOLEAN BY ReconnectAssumption
    <3> QED BY <3>1, <3>2, <3>3, <3>4, <3>5 DEF ReconnectTypeOK, Names
  <2>2. kept \in Phases BY DEF Phases
  <2>3. client \in Clients /\ phase \in Phases /\ runs \in 0 .. MaxRuns
    BY DEF Clients, Phases
  <2> QED BY <2>1, <2>2, <2>3 DEF DeliveryTypes, Files
<1>3. TargetInv /\ HelperInv /\ PhaseInv
  BY DEF NetworkInit, TargetInv, HelperInv, PhaseInv, Working, Sure, Slow, Waiting, Ended, Clients,
         Names, AcquireInit
<1>4. LastInv BY DEF LastInv, Nothing, Commands, Files
<1> QED BY <1>1, <1>2, <1>3, <1>4 DEF Inv, DeliveryInv

-----------------------------------------------------------------------------
\* The inductive invariant: what processes know of the caches, where the Pi may
\* be while the installation relies on its target, and what its helper is.
THEOREM DeliveryInvariant == Spec => []Inv
<1>1. Inv /\ [Next]_vars => Inv'
  BY StartKeeps, KillKeeps, AcquiringKeeps, AcquiredKeeps, SelectKeeps, DiscoverKeeps, CommandKeeps,
     CommandOutcomeKeeps, WaitKeeps, BoardKeeps, StutterKeeps
     DEF Next, Progress, CommandStep
<1> QED BY InitInv, <1>1, PTL DEF Spec

\* Every variable of an installation has its type.
THEOREM DeliveryHasTypes == Spec => []TypeOK
<1>1. Inv => TypeOK
  BY DEF Inv, AcquireInv, DeliveryInv, DeliveryTypes, LastInv, TypeOK, Machines
<1> QED BY <1>1, DeliveryInvariant, PTL

\* Although commands check a key that clones share, nothing runs on another
\* board before a download has gone by since the last probe, and never a reboot
\* or the test of the display.  It rests on Slow: while commands follow each
\* other without a wait or a download, no clone takes a name or leaves it and
\* the Pi does not come up again.
THEOREM CommandsAlwaysReachThePi == Spec => []CommandsReachThePi
<1>1. Inv => CommandsReachThePi
  BY DEF Inv, DeliveryInv, LastInv, CommandsReachThePi
<1> QED BY <1>1, DeliveryInvariant, PTL

\* The helper that tests the display or installs is the released one, power cuts
\* and clones included.  The one started for the Pi's record, which nothing has
\* checked, may also be what a power cut has left.
THEOREM OnlyReleasedEverRuns == Spec => []OnlyReleasedRuns
<1>1. Inv => OnlyReleasedRuns
  BY FourBoards DEF Inv, DeliveryInv, LastInv, OnlyReleasedRuns
<1> QED BY <1>1, DeliveryInvariant, PTL

\* Processes that share the release cache do not make each other fail.
THEOREM OthersNeverHarm == Spec => []OthersDoNoHarm
<1>1. Inv => OthersDoNoHarm
  BY DEF Inv, AcquireInv, ProcessInv, OthersDoNoHarm
<1> QED BY <1>1, DeliveryInvariant, PTL
====
