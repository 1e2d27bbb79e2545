---- MODULE Capture_proofs ----
(***************************************************************************)
(* A screenshot is a frame that was on the display after the command was   *)
(* given: Capture implements Screenshot, for any number of commands,       *)
(* inodes, frames and crashes.                                             *)
(***************************************************************************)
EXTENDS Capture, TLAPS

Shots == [by : Clients, frame : 0 .. MaxFrames]

AppType ==
  app \in [pc : {"running", "saving", "down", "starting"}, requested : BOOLEAN,
           temp : Inodes \cup {NoFile}]

MacStates == {"idle", "metadata", "signal", "capture", "persist", "ended"}
HelperStates == {"none", "metadata", "poll", "publish", "check", "recheck", "sent",
                 "answered", "failed", "expired"}

Helpers == [pc : HelperStates, open : Inodes \cup {NoFile}, source : Files \cup {NoFile},
            seen : Shots \cup {NoFile}]

Types ==
  /\ shown \in 1 .. MaxFrames /\ saves \in 0 .. MaxSaves
  /\ AppType
  /\ kept \subseteq Files \cup {NoFile}
  /\ published \in Shots \cup {NoFile}
  /\ mac \in [Clients -> [pc : MacStates, since : Nat, before : Files \cup {NoFile},
                          got : Nat \cup {NoPicture}]]
  /\ pi \in [Clients -> Helpers]
  /\ picture \in [Clients -> Nat \cup {NoPicture}]

\* What a power cut may leave is older than debug.png.
DiskInv ==
  /\ debug \in kept
  /\ debug = NoFile => kept = {NoFile}
  /\ \A e \in kept \ {NoFile} :
       /\ e.modified <= saves /\ e.frame <= shown
       /\ e = debug \/ e.modified < debug.modified

\* A file that counts as new after `before` shows a frame the command may have.
Dated(c, before) ==
  \A e \in kept \ {NoFile} : IsFresh(before, e) => e.frame >= mac[c].since

ClientInv(c) ==
  /\ mac[c].since <= shown
  /\ mac[c].pc = "idle" <=> mac[c].since = 0
  /\ mac[c].pc = "idle" => pi[c].pc = "none"
  /\ pi[c].open # NoFile => pi[c].pc \in {"metadata", "poll"}
  /\ mac[c].pc \in {"signal", "capture", "persist"} => Dated(c, mac[c].before)
  /\ pi[c].pc \in {"poll", "publish", "check", "recheck", "sent"} => Dated(c, mac[c].before)
  /\ pi[c].pc = "answered" => Dated(c, pi[c].source)
  /\ pi[c].pc \in {"publish", "check", "recheck", "sent"}
       => pi[c].source # NoFile /\ pi[c].source.frame \in mac[c].since .. shown
  /\ pi[c].pc \in {"recheck", "sent"} => pi[c].seen.frame = pi[c].source.frame
  /\ mac[c].pc = "persist" => mac[c].got \in mac[c].since .. shown
  /\ mac[c].pc # "ended" => picture[c] = NoPicture

Inv ==
  /\ Types
  /\ DiskInv
  /\ \A c \in Clients : ClientInv(c)

LEMMA AppStep ==
  ASSUME AppType, DisplayStep \/ \E c \in Clients : Signal(c)
  PROVE  AppType'
<1> USE DEF AppType
<1>1. CASE UNCHANGED app BY <1>1
<1>2. CASE BeginSave
  <2>1. Free \subseteq Inodes BY DEF Free
  <2>2. CASE app' = [app EXCEPT !.requested = FALSE] BY <2>2, Zenon
  <2>3. ASSUME NEW i \in Inodes, app' = [pc |-> "saving", requested |-> FALSE, temp |-> i]
        PROVE  AppType'
    BY <2>3, Zenon
  <2> QED BY <1>2, <2>1, <2>2, <2>3 DEF BeginSave
<1>3. CASE app' = [app EXCEPT !.temp = NoFile] BY <1>3
<1>4. CASE EndSave BY <1>4 DEF EndSave
<1>5. CASE Killed BY <1>5, Zenon DEF Killed
<1>6. CASE Restart BY <1>6 DEF Restart
<1>7. CASE app' = [app EXCEPT !.requested = TRUE] BY <1>7, Zenon
<1> QED BY <1>1, <1>2, <1>3, <1>4, <1>5, <1>6, <1>7
        DEF DisplayStep, Draw, Rename, Crash, PowerCut, Signal

LEMMA InitInv == Init => Inv
<1> SUFFICES ASSUME Init PROVE Inv
  OBVIOUS
<1> USE CaptureAssumption DEF Init, Files
<1>0. AppType
  BY Zenon DEF AppType
<1>1. debug \in Files \cup {NoFile}
  OBVIOUS
<1>2. Types
  BY <1>0, <1>1 DEF Types, NewHelper, MacStates, HelperStates, Helpers
<1>3. DiskInv
  BY <1>1 DEF DiskInv
<1>4. ASSUME NEW c \in Clients PROVE ClientInv(c)
  BY DEF ClientInv, NewHelper
<1> QED BY <1>2, <1>3, <1>4 DEF Inv

-----------------------------------------------------------------------------
\* The files: what each of the display's steps leaves of them.
LEMMA FilesStep ==
  ASSUME Inv, DisplayStep
  PROVE  /\ shown' \in 1 .. MaxFrames /\ shown' >= shown
         /\ saves' \in 0 .. MaxSaves
         /\ kept' \subseteq Files \cup {NoFile}
         /\ DiskInv'
         /\ \A e \in kept' \ {NoFile} : e \in kept \/ e.frame = shown
<1> USE CaptureAssumption DEF Inv, Types, DiskInv, Files
<1>1. CASE Draw BY <1>1 DEF Draw
<1>2. CASE BeginSave BY <1>2 DEF BeginSave
<1>3. CASE Rename
  <2>1. debug' \in Files /\ debug'.modified = saves + 1 /\ debug'.frame = shown
    BY <1>3 DEF Rename, AppType
  <2>2. kept' = kept \cup {debug'} /\ debug' # NoFile
    BY <1>3, <2>1 DEF Rename
  <2>3. ASSUME NEW e \in kept' \ {NoFile}
        PROVE  /\ e.modified <= saves' /\ e.frame <= shown'
               /\ e = debug' \/ e.modified < debug'.modified
               /\ e \in kept \/ e.frame = shown
    <3>1. CASE e = debug' BY <1>3, <2>1, <3>1 DEF Rename
    <3>2. CASE e \in kept BY <1>3, <2>1, <3>2 DEF Rename
    <3> QED BY <2>2, <2>3, <3>1, <3>2
  <2>4. saves' \in 0 .. MaxSaves /\ shown' = shown
    BY <1>3 DEF Rename
  <2> QED BY <2>1, <2>2, <2>3, <2>4
<1>4. CASE EndSave
  <2>1. kept' = kept \/ kept' = {debug} BY <1>4 DEF EndSave
  <2>2. saves' = saves /\ shown' = shown /\ debug' = debug
    BY <1>4 DEF EndSave
  <2> QED BY <2>1, <2>2
<1>5. CASE Crash BY <1>5 DEF Crash, Killed
<1>6. CASE PowerCut BY <1>6 DEF PowerCut, Killed
<1>7. CASE Restart BY <1>7 DEF Restart
<1> QED BY <1>1, <1>2, <1>3, <1>4, <1>5, <1>6, <1>7 DEF DisplayStep

\* The display's steps change nothing of a command, but for the helpers that
\* go with the power.
LEMMA DisplayInv ==
  ASSUME Inv, DisplayStep
  PROVE  Inv'
<1> USE CaptureAssumption
<1>1. /\ published' = published /\ mac' = mac /\ picture' = picture
      /\ \/ pi' = pi
         \/ pi' = [c \in Clients |-> IF pi[c].pc = "none" THEN pi[c]
                                     ELSE [NewHelper EXCEPT !.pc = "failed"]]
  BY DEF DisplayStep, Draw, BeginSave, Rename, EndSave, Crash, PowerCut, Restart
<1>2. Types'
  BY <1>1, FilesStep, AppStep DEF Inv, Types, NewHelper, HelperStates, Helpers
<1>3. ASSUME NEW c \in Clients PROVE ClientInv(c)'
  <2> USE DEF Inv
  <2>1. ASSUME NEW b, Dated(c, b) PROVE Dated(c, b)'
    <3> SUFFICES ASSUME NEW e \in kept' \ {NoFile}, IsFresh(b, e)
                 PROVE  e.frame >= mac[c].since
      BY <1>1 DEF Dated, IsFresh
    <3>1. CASE e \in kept BY <2>1, <3>1 DEF Dated
    <3>2. CASE e.frame = shown BY <3>2 DEF ClientInv, Types
    <3> QED BY <3>1, <3>2, FilesStep
  <2>2. shown' >= shown /\ shown' \in Nat /\ shown \in Nat /\ mac[c].since \in Nat
    BY FilesStep DEF Types
  <2>3. pi'[c] = pi[c] \/ (pi'[c].pc = "failed" /\ pi'[c].open = NoFile /\ pi[c].pc # "none")
    BY <1>1 DEF NewHelper
  <2>4. ClientInv(c) OBVIOUS
  <2>5. pi[c].source \in Files \cup {NoFile} /\ mac[c].got \in Nat \cup {NoPicture}
    BY DEF Types, Helpers
  <2>6. CASE pi'[c] = pi[c]
    BY <1>1, <2>1, <2>2, <2>4, <2>5, <2>6 DEF ClientInv, Files
  <2>7. CASE pi'[c].pc = "failed" /\ pi'[c].open = NoFile /\ pi[c].pc # "none"
    BY <1>1, <2>1, <2>2, <2>4, <2>7 DEF ClientInv
  <2> QED BY <2>3, <2>6, <2>7
<1> QED BY <1>2, <1>3, FilesStep DEF Inv
-----------------------------------------------------------------------------
\* The helper's steps.
LEMMA HelperInv ==
  ASSUME Inv, NEW c \in Clients, HelperStep(c)
  PROVE  Inv' /\ UNCHANGED <<shown, mac, picture>>
<1> USE CaptureAssumption DEF Inv
<1>1. /\ UNCHANGED <<shown, app, debug, kept, saves, mac, picture>>
      /\ pi' = [pi EXCEPT ![c] = pi'[c]]
  BY DEF HelperStep, Open, Read, Publish, Check, Recheck, Expire, HelperOnly, displayVars,
         Becomes, Types
<1>2. DiskInv'
  BY <1>1 DEF DiskInv
<1>3. debug \in Files \cup {NoFile}
  BY DEF Types, DiskInv
<1>4. published' \in Shots \cup {NoFile} /\ pi'[c] \in Helpers
  <2> USE DEF Types, HelperStates, Helpers, Becomes, HelperOnly
  <2>0. pi[c] \in Helpers
    OBVIOUS
  <2>1. CASE Open(c)
    <3>1. CASE debug # NoFile /\ pi' = [pi EXCEPT ![c].open = debug.inode]
      <4>1. debug.inode \in Inodes BY <1>3, <3>1 DEF Files
      <4> QED BY <2>1, <3>1, <4>1 DEF Open
    <3>2. CASE Becomes(c, "answered")
      <4>1. UNCHANGED published BY <2>1 DEF Open
      <4>2. pi'[c] = [pi[c] EXCEPT !.pc = "answered", !.open = NoFile] BY <3>2
      <4> QED BY <2>0, <4>1, <4>2
    <3> QED BY <2>1, <3>1, <3>2 DEF Open
  <2>2. CASE Read(c)
    <3>1. CASE pi'[c] = [NewHelper EXCEPT
                 !.pc = IF pi[c].pc = "poll" THEN "publish" ELSE "answered", !.source = debug]
      BY <1>3, <2>2, <3>1 DEF Read, NewHelper
    <3>2. CASE \E pc \in {"failed", "poll"} : Becomes(c, pc)
      BY <2>2, <3>2 DEF Read
    <3> QED BY <2>2, <3>1, <3>2 DEF Read
  <2>3. CASE Publish(c)
    <3>1. published' = [by |-> c, frame |-> pi[c].source.frame] /\ Becomes(c, "check")
      BY <2>3 DEF Publish
    <3>2. pi[c].source.frame \in 0 .. MaxFrames
      BY <2>3, <2>0 DEF Publish, ClientInv, Files
    <3> QED BY <2>0, <3>1, <3>2 DEF Shots
  <2>4. CASE Check(c)
    <3>1. CASE pi' = [pi EXCEPT ![c].pc = "recheck", ![c].seen = published]
      BY <2>4, <3>1 DEF Check
    <3> QED BY <2>4, <3>1 DEF Check
  <2>5. CASE Recheck(c) BY <2>5 DEF Recheck
  <2>6. CASE Expire(c) BY <2>6 DEF Expire
  <2> QED BY <2>1, <2>2, <2>3, <2>4, <2>5, <2>6 DEF HelperStep
<1>5. Types'
  BY <1>1, <1>4 DEF Types, AppType, Helpers
<1>6. ASSUME NEW b PROVE Dated(c, b)' <=> Dated(c, b)
  BY <1>1 DEF Dated, IsFresh
<1>7. ClientInv(c)'
  <2> USE <1>1, <1>6 DEF Types, Helpers, Becomes, ClientInv
  <2>1. CASE Open(c)
    <3>1. CASE pi' = [pi EXCEPT ![c].open = debug.inode] BY <2>1, <3>1 DEF Open
    <3>2. CASE debug = NoFile /\ pi[c].pc = "metadata" /\ Becomes(c, "answered")
      <4>1. pi'[c].source = NoFile \/ Dated(c, pi'[c].source)
        BY <3>2 DEF Dated, DiskInv
      <4> QED BY <3>2, <4>1 DEF Dated, DiskInv
    <3> QED BY <2>1, <3>1, <3>2 DEF Open
  <2>2. CASE Read(c)
    <3>1. CASE \E pc \in {"failed", "poll"} : Becomes(c, pc) /\ (pc = "poll" => pi[c].pc = "poll")
      BY <3>1, <2>2 DEF Read
    <3>2. CASE /\ pi[c].pc = "poll" /\ pi'[c].pc = "publish"
               /\ pi'[c].source = debug /\ pi'[c].open = NoFile
               /\ Linked(c) /\ IsFresh(mac[c].before, debug)
      BY <3>2, <1>3 DEF Linked, Dated, DiskInv, Files
    <3>3. CASE /\ pi'[c].pc = "answered" /\ pi'[c].source = debug
               /\ pi'[c].open = NoFile /\ Linked(c)
      <4>1. Dated(c, debug)
        BY <1>3, <3>3 DEF Linked, Dated, DiskInv, Files, IsFresh
      <4>2. mac[c].pc # "idle"
        BY <2>2 DEF Read
      <4> QED BY <3>3, <4>1, <4>2
    <3>4. CASE pi'[c] = [NewHelper EXCEPT
                 !.pc = IF pi[c].pc = "poll" THEN "publish" ELSE "answered", !.source = debug]
               /\ Linked(c) /\ (pi[c].pc = "poll" => IsFresh(mac[c].before, debug))
      BY <3>2, <3>3, <3>4 DEF NewHelper
    <3> QED BY <2>2, <3>1, <3>4 DEF Read
  <2>3. CASE Publish(c) BY <2>3 DEF Publish
  <2>4. CASE Check(c)
    <3>1. CASE /\ pi[c].pc = "check" /\ published.frame = pi[c].source.frame
               /\ pi' = [pi EXCEPT ![c].pc = "recheck", ![c].seen = published]
      BY <3>1
    <3>2. CASE pi[c].pc = "check" /\ Becomes(c, "failed") BY <3>2
    <3> QED BY <2>4, <3>1, <3>2 DEF Check
  <2>5. CASE Recheck(c) BY <2>5 DEF Recheck
  <2>6. CASE Expire(c) BY <2>6 DEF Expire
  <2> QED BY <2>1, <2>2, <2>3, <2>4, <2>5, <2>6 DEF HelperStep
<1>8. ASSUME NEW d \in Clients \ {c} PROVE ClientInv(d)'
  BY <1>1, <1>6, <1>8 DEF ClientInv, Dated, IsFresh, Types
<1> QED BY <1>1, <1>2, <1>5, <1>7, <1>8
-----------------------------------------------------------------------------
\* The command's steps, and what the promise makes of them.
LEMMA MacInv ==
  ASSUME Inv, NEW c \in Clients, MacStep(c)
  PROVE  Inv'
<1> USE CaptureAssumption DEF Inv
<1>1. /\ UNCHANGED <<shown, debug, kept, saves, published>>
      /\ mac' = [mac EXCEPT ![c] = mac'[c]] /\ pi' = [pi EXCEPT ![c] = pi'[c]]
      /\ picture' = [picture EXCEPT ![c] = picture'[c]] \/ picture' = picture
  BY DEF MacStep, Ask, Learn, Signal, Fetch, Persist, GiveUp, MacOnly, Types
<1>2. DiskInv'
  BY <1>1 DEF DiskInv
<1>3. AppType'
  <2>1. UNCHANGED app \/ Signal(c)
    BY DEF MacStep, Ask, Learn, Fetch, Persist, GiveUp
  <2> QED BY <2>1, AppStep DEF Types, AppType
<1>4. mac'[c] \in [pc : MacStates, since : Nat, before : Files \cup {NoFile},
                   got : Nat \cup {NoPicture}]
      /\ pi'[c] \in Helpers
  <2> USE DEF Types, MacStates, HelperStates, Helpers, ClientInv
  <2>1. CASE Ask(c) BY <2>1 DEF Ask
  <2>2. CASE Learn(c)
    <3>1. mac'[c] = [mac[c] EXCEPT !.pc = "signal", !.before = pi[c].source]
          /\ pi'[c] = NewHelper
      BY <2>2 DEF Learn
    <3>2. pi[c].source \in Files \cup {NoFile}
          /\ mac[c] \in [pc : MacStates, since : Nat, before : Files \cup {NoFile},
                         got : Nat \cup {NoPicture}]
      OBVIOUS
    <3> HIDE DEF Inv, ClientInv, Types, Helpers
    <3>3. mac'[c] \in [pc : MacStates, since : Nat, before : Files \cup {NoFile},
                       got : Nat \cup {NoPicture}]
      BY <3>1, <3>2
    <3>4. NewHelper \in Helpers
      BY DEF NewHelper, Helpers
    <3> QED BY <3>1, <3>3, <3>4
  <2>3. CASE Signal(c)
    <3>1. mac'[c] = [mac[c] EXCEPT !.pc = "capture"] /\ pi'[c] = [pi[c] EXCEPT !.pc = "poll"]
      BY <2>3 DEF Signal
    <3> QED BY <3>1
  <2>4. CASE Fetch(c)
    <3>1. pi[c].seen.frame \in Nat BY <2>4 DEF Fetch
    <3>2. mac'[c] = [mac[c] EXCEPT !.pc = "persist", !.got = pi[c].seen.frame]
          /\ pi'[c] = pi[c]
      BY <2>4 DEF Fetch
    <3> QED BY <3>1, <3>2
  <2>5. CASE Persist(c) BY <2>5 DEF Persist
  <2>6. CASE GiveUp(c)
    <3>1. mac'[c] = [mac[c] EXCEPT !.pc = "ended"] /\ pi'[c] = pi[c]
      BY <2>6 DEF GiveUp
    <3> QED BY <3>1
  <2> QED BY <2>1, <2>2, <2>3, <2>4, <2>5, <2>6 DEF MacStep
<1>5. Types'
  <2>1. picture' \in [Clients -> Nat \cup {NoPicture}]
    BY DEF MacStep, Ask, Learn, Signal, Fetch, Persist, GiveUp, Types
  <2> QED BY <1>1, <1>3, <1>4, <2>1 DEF Types
<1>6. ASSUME NEW b, mac'[c].since = mac[c].since PROVE Dated(c, b)' <=> Dated(c, b)
  BY <1>1, <1>6 DEF Dated, IsFresh
<1>7. ClientInv(c)'
  <2> USE <1>1, <1>6 DEF Types, Helpers, ClientInv
  <2>1. CASE Ask(c) BY <2>1 DEF Ask
  <2>2. CASE Learn(c) BY <2>2 DEF Learn, NewHelper
  <2>3. CASE Signal(c) BY <2>3 DEF Signal
  <2>4. CASE Fetch(c) BY <2>4 DEF Fetch
  <2>5. CASE Persist(c) BY <2>5 DEF Persist
  <2>6. CASE GiveUp(c) BY <2>6 DEF GiveUp
  <2> QED BY <2>1, <2>2, <2>3, <2>4, <2>5, <2>6 DEF MacStep
<1>8. ASSUME NEW d \in Clients \ {c} PROVE ClientInv(d)'
  <2>1. mac'[d] = mac[d] /\ pi'[d] = pi[d] /\ picture'[d] = picture[d]
    BY <1>1 DEF Types
  <2>2. ASSUME NEW b PROVE Dated(d, b)' <=> Dated(d, b)
    BY <1>1, <2>1 DEF Dated, IsFresh
  <2>3. ClientInv(d)
    OBVIOUS
  <2> QED BY <1>1, <2>1, <2>2, <2>3 DEF ClientInv
<1> QED BY <1>2, <1>5, <1>7, <1>8

LEMMA StepInv == Inv /\ [Next]_vars => Inv'
<1> SUFFICES ASSUME Inv, [Next]_vars PROVE Inv'
  OBVIOUS
<1>1. CASE UNCHANGED vars
  BY <1>1 DEF vars, displayVars, Inv, Types, AppType, DiskInv, ClientInv, Dated, IsFresh
<1> QED BY <1>1, DisplayInv, HelperInv, MacInv DEF Next

\* Each step is one the promise allows, or changes nothing of it.
LEMMA StepPromised ==
  ASSUME Inv, [Next]_vars
  PROVE  [Promised!Next]_(Promised!vars)
<1> USE DEF Promised!Next, Promised!vars
<1> DEFINE sinces == [c \in Clients |-> mac[c].since]
<1>1. CASE DisplayStep
  <2>1. UNCHANGED <<mac, picture>>
    BY <1>1 DEF DisplayStep, Draw, BeginSave, Rename, EndSave, Crash, PowerCut, Restart
  <2>2. \/ UNCHANGED shown
        \/ shown < MaxFrames /\ shown' = shown + 1
    BY <1>1 DEF DisplayStep, Draw, BeginSave, Rename, EndSave, Crash, PowerCut, Restart
  <2> QED BY <2>1, <2>2 DEF Promised!Show
<1>2. ASSUME NEW c \in Clients, HelperStep(c) PROVE UNCHANGED <<shown, mac, picture>>
  BY <1>2, HelperInv
<1>3. ASSUME NEW c \in Clients, MacStep(c) PROVE [Promised!Next]_(Promised!vars)
  <2> USE DEF Inv, Types
  <2>1. CASE Ask(c)
    <3>1. mac[c].since = 0 /\ sinces' = [sinces EXCEPT ![c] = shown]
      BY <2>1 DEF Ask, ClientInv
    <3> QED BY <2>1, <3>1 DEF Ask, MacOnly, Promised!Ask
  <2>2. CASE Persist(c)
    <3>1. /\ mac[c].since # 0 /\ picture[c] = NoPicture
          /\ mac[c].got \in sinces[c] .. shown
      BY <2>2 DEF Persist, ClientInv
    <3>2. sinces' = sinces
      BY <2>2 DEF Persist
    <3> QED BY <2>2, <3>1, <3>2 DEF Persist, MacOnly, Promised!Deliver
  <2>3. CASE Learn(c) \/ Signal(c) \/ Fetch(c) \/ GiveUp(c)
    <3>1. sinces' = sinces
      BY <2>3 DEF Learn, Signal, Fetch, GiveUp
    <3> QED BY <2>3, <3>1 DEF Learn, Signal, Fetch, GiveUp, MacOnly
  <2> QED BY <1>3, <2>1, <2>2, <2>3 DEF MacStep
<1>4. CASE UNCHANGED vars BY <1>4 DEF vars, displayVars
<1> QED BY <1>1, <1>2, <1>3, <1>4 DEF Next

\* The pictures delivered are frames the display showed after their command was
\* given: fresh_after and capture_is_fresh see to it through other commands,
\* crashes, power cuts and inodes used again.
THEOREM CaptureKeepsItsPromise == Spec => PicturesAreFresh
<1>1. Init => Promised!Init
  BY DEF Init, Promised!Init
<1>2. Spec => []Inv
  BY InitInv, StepInv, PTL DEF Spec
<1> QED BY <1>1, <1>2, StepPromised, PTL DEF Spec, PicturesAreFresh, Promised!Spec
====
