---- MODULE Capture ----
(***************************************************************************)
(* Screenshots: the display's answer to SIGUSR1 (src/src/app.rs), the      *)
(* privileged helper on the Pi (src/src/capture.rs) and the command on the *)
(* Mac (src/crates/planeradarctl/src/operations.rs).  Several commands may *)
(* run at once; each has a helper, which outlives it when it gives up.     *)
(* Whether a deadline has passed is open wherever the code asks.           *)
(***************************************************************************)
EXTENDS Naturals, FiniteSets

CONSTANTS
  Clients,     \* screenshot commands
  Inodes,      \* of the file system that holds debug.png
  MaxFrames,   \* bound on the frames the display shows
  MaxSaves,    \* bound on the frames it saves
  MaxCrashes,  \* bound on crashes of the service and power cuts
  NoFile, NoPicture

ASSUME CaptureAssumption ==
  /\ MaxFrames \in Nat \ {0} /\ MaxSaves \in Nat /\ MaxCrashes \in Nat
  /\ NoPicture \notin 1 .. MaxFrames
  /\ NoFile \notin Inodes
  /\ NoFile \notin [inode : Inodes, frame : 0 .. MaxFrames, modified : 0 .. MaxSaves]

VARIABLES
  shown,       \* the frame on the display
  app,         \* [pc, requested, temp]: the display thread, debug_requested, its temporary
  debug,       \* the entry debug.png
  kept,        \* the entries a power cut may leave in its place
  saves,       \* renames of debug.png so far: the clock of modification times
  litter,      \* inodes of temporaries that killed processes left behind
  published,   \* captures/current.png: [by, frame]
  crashes,
  mac,         \* mac[c]: [pc, since, before, got], the command
  pi,          \* pi[c]: [pc, open, source, seen], its helper
  picture      \* picture[c]: what is at the destination

displayVars == <<shown, app, debug, kept, saves, litter, crashes>>
vars == <<displayVars, published, mac, pi, picture>>

\* Frame 0 is any frame of an earlier run, saved at time 0.
Files == [inode : Inodes, frame : 0 .. MaxFrames, modified : 0 .. MaxSaves]

NewHelper == [pc |-> "none", open |-> NoFile, source |-> NoFile, seen |-> NoFile]

Init ==
  /\ shown = 1
  /\ app = [pc |-> "running", requested |-> FALSE, temp |-> NoFile]
  /\ debug \in {NoFile} \cup [inode : Inodes, frame : {0}, modified : {0}]
  /\ kept = {debug} /\ saves = 0 /\ litter = {}
  /\ published = NoFile
  /\ crashes = 0
  /\ mac = [c \in Clients |-> [pc |-> "idle", since |-> 0, before |-> NoFile, got |-> NoPicture]]
  /\ pi = [c \in Clients |-> NewHelper]
  /\ picture = [c \in Clients |-> NoPicture]

-----------------------------------------------------------------------------
(* The display.  One step draws what has changed, then looks at the flag.  *)

Draw ==
  /\ app.pc = "running" /\ shown < MaxFrames
  /\ shown' = shown + 1
  /\ UNCHANGED <<app, debug, kept, saves, litter, crashes, published, mac, pi, picture>>

\* Inodes a new file can get.  A file that is open is not freed.
Free == Inodes \ (litter \cup {app.temp} \cup {pi[c].open : c \in Clients}
                         \cup (IF debug = NoFile THEN {} ELSE {debug.inode}))

\* The flag is taken, and the frame is written to a temporary; or that fails.
BeginSave ==
  /\ app.pc = "running" /\ app.requested
  /\ \/ app' = [app EXCEPT !.requested = FALSE]
     \/ \E i \in Free : app' = [pc |-> "saving", requested |-> FALSE, temp |-> i]
  /\ UNCHANGED <<shown, debug, kept, saves, litter, crashes, published, mac, pi, picture>>

\* The temporary, synced, takes the place of debug.png.
Rename ==
  /\ app.pc = "saving" /\ app.temp # NoFile /\ saves < MaxSaves
  /\ saves' = saves + 1
  /\ debug' = [inode |-> app.temp, frame |-> shown, modified |-> saves']
  /\ kept' = kept \cup {debug'}
  /\ app' = [app EXCEPT !.temp = NoFile]
  /\ UNCHANGED <<shown, litter, crashes, published, mac, pi, picture>>

\* The save ends: with the sync of the directory, or with an error, which is
\* only logged.
EndSave ==
  /\ app.pc = "saving"
  /\ app' = [app EXCEPT !.pc = "running", !.temp = NoFile]
  /\ kept' \in {kept} \cup (IF app.temp = NoFile THEN {{debug}} ELSE {})
  /\ UNCHANGED <<shown, debug, saves, litter, crashes, published, mac, pi, picture>>

Killed ==
  /\ app' = [pc |-> "down", requested |-> FALSE, temp |-> NoFile]
  /\ litter' = litter \cup ({app.temp} \ {NoFile})

Crash ==
  /\ crashes < MaxCrashes /\ crashes' = crashes + 1
  /\ app.pc # "down" /\ Killed
  /\ UNCHANGED <<shown, debug, kept, saves, published, mac, pi, picture>>

\* Every connection is lost with the power.
PowerCut ==
  /\ crashes < MaxCrashes /\ crashes' = crashes + 1
  /\ Killed
  /\ debug' \in kept /\ kept' = {debug'}
  /\ pi' = [c \in Clients |-> IF pi[c].pc = "none" THEN pi[c]
                              ELSE [NewHelper EXCEPT !.pc = "failed"]]
  /\ UNCHANGED <<shown, saves, published, mac, picture>>

\* systemd starts the service again; SIGUSR1 has its default action until
\* install_debug_signal, shortly before the first frame is drawn.
Restart ==
  /\ \/ app.pc = "down" /\ app' = [app EXCEPT !.pc = "starting"] /\ UNCHANGED shown
     \/ /\ app.pc = "starting" /\ shown < MaxFrames
        /\ app' = [app EXCEPT !.pc = "running"] /\ shown' = shown + 1
  /\ UNCHANGED <<debug, kept, saves, litter, crashes, published, mac, pi, picture>>

-----------------------------------------------------------------------------
(* The helper. *)

HelperOnly == UNCHANGED <<displayVars, mac, picture>>

Becomes(c, pc) == pi' = [pi EXCEPT ![c].pc = pc, ![c].open = NoFile]

\* open_source.  A file that is absent is an answer to capture-metadata; the
\* loop of capture-snapshot polls again.
Open(c) ==
  /\ pi[c].pc \in {"metadata", "poll"} /\ pi[c].open = NoFile
  /\ \/ debug # NoFile /\ pi' = [pi EXCEPT ![c].open = debug.inode]
     \/ debug = NoFile /\ pi[c].pc = "metadata" /\ Becomes(c, "answered")
  /\ UNCHANGED published /\ HelperOnly

\* read_stable_source: the file must still be linked when it has been read.
Linked(c) == debug # NoFile /\ debug.inode = pi[c].open

\* Mutant: a file that replaced the earlier one is taken for a later one.
IsReplaced(before, file) == before # NoFile => file.inode # before.inode

\* fresh_after, and on the Mac capture_is_fresh.
IsFresh(before, file) ==
  before # NoFile => file.inode # before.inode /\ file.modified >= before.modified

\* What has been read answers capture-metadata, or is a fresh source, or the
\* loop polls again.
Read(c) ==
  /\ pi[c].open # NoFile
  /\ IF ~Linked(c) THEN Becomes(c, "failed")
     ELSE IF pi[c].pc = "poll" /\ ~IsFresh(mac[c].before, debug) THEN Becomes(c, "poll")
     ELSE pi' = [pi EXCEPT ![c] = [NewHelper EXCEPT
                   !.pc = IF pi[c].pc = "poll" THEN "publish" ELSE "answered",
                   !.source = debug]]
  /\ UNCHANGED published /\ HelperOnly

\* publish_snapshot: a temporary renamed over current.png.
Publish(c) ==
  /\ pi[c].pc = "publish"
  /\ published' = [by |-> c, frame |-> pi[c].source.frame]
  /\ Becomes(c, "check")
  /\ HelperOnly

\* read_published: the bytes must be those of the source.  Another command's
\* helper may have published since; a file it replaces while it is read ends
\* the capture too.
Check(c) ==
  /\ pi[c].pc = "check"
  /\ \/ /\ published.frame = pi[c].source.frame
        /\ pi' = [pi EXCEPT ![c].pc = "recheck", ![c].seen = published]
     \/ published.by # c /\ Becomes(c, "failed")
  /\ UNCHANGED published /\ HelperOnly

\* read_published again: still the same file.
Recheck(c) ==
  /\ pi[c].pc = "recheck"
  /\ Becomes(c, IF published = pi[c].seen THEN "sent" ELSE "failed")
  /\ UNCHANGED published /\ HelperOnly

\* Its deadline, looked at between these steps, the limit of timeout(1), or an
\* error of the file system.
Expire(c) ==
  /\ pi[c].pc \in {"metadata", "poll", "publish", "check", "recheck"}
  /\ Becomes(c, "expired")
  /\ UNCHANGED published /\ HelperOnly

-----------------------------------------------------------------------------
(* The command: OperationsClient::screenshot. *)

MacOnly == UNCHANGED <<shown, debug, kept, saves, published>>

\* The destination is pinned, and capture-metadata is started.
Ask(c) ==
  /\ mac[c].pc = "idle"
  /\ mac' = [mac EXCEPT ![c].pc = "metadata", ![c].since = shown]
  /\ pi' = [pi EXCEPT ![c].pc = "metadata"]
  /\ UNCHANGED <<app, litter, crashes, picture>> /\ MacOnly

Learn(c) ==
  /\ mac[c].pc = "metadata" /\ pi[c].pc = "answered"
  /\ mac' = [mac EXCEPT ![c].pc = "signal", ![c].before = pi[c].source]
  /\ pi' = [pi EXCEPT ![c] = NewHelper]
  /\ UNCHANGED <<app, litter, crashes, picture>> /\ MacOnly

\* systemctl kill, then capture-snapshot.  Before install_debug_signal SIGUSR1
\* ends the process; without one it goes nowhere.
Signal(c) ==
  /\ mac[c].pc = "signal"
  /\ \/ /\ app.pc \in {"running", "saving"}
        /\ app' = [app EXCEPT !.requested = TRUE] /\ UNCHANGED litter
     \/ app.pc = "starting" /\ Killed
     \/ app.pc = "down" /\ UNCHANGED <<app, litter>>
  /\ mac' = [mac EXCEPT ![c].pc = "capture"]
  /\ pi' = [pi EXCEPT ![c].pc = "poll"]
  /\ UNCHANGED <<crashes, picture>> /\ MacOnly

\* The transfer, parsed and validated once more.
Fetch(c) ==
  /\ mac[c].pc = "capture" /\ pi[c].pc = "sent"
  /\ IsFresh(mac[c].before, pi[c].source)
  /\ mac' = [mac EXCEPT ![c].pc = "persist", ![c].got = pi[c].seen.frame]
  /\ UNCHANGED <<app, litter, crashes, pi, picture>> /\ MacOnly

\* PinnedDestination::persist: a synced temporary renamed over the destination.
Persist(c) ==
  /\ mac[c].pc = "persist"
  /\ picture' = [picture EXCEPT ![c] = mac[c].got]
  /\ mac' = [mac EXCEPT ![c].pc = "ended"]
  /\ UNCHANGED <<app, litter, crashes, pi>> /\ MacOnly

\* An error of the helper, a deadline, a lost connection, or ^C; the helper
\* runs on.
GiveUp(c) ==
  /\ mac[c].pc \in {"metadata", "signal", "capture", "persist"}
  /\ mac' = [mac EXCEPT ![c].pc = "ended"]
  /\ UNCHANGED <<app, litter, crashes, pi, picture>> /\ MacOnly

DisplayStep == Draw \/ BeginSave \/ Rename \/ EndSave \/ Crash \/ PowerCut \/ Restart

HelperStep(c) == Open(c) \/ Read(c) \/ Publish(c) \/ Check(c) \/ Recheck(c) \/ Expire(c)

MacStep(c) == Ask(c) \/ Learn(c) \/ Signal(c) \/ Fetch(c) \/ Persist(c) \/ GiveUp(c)

Next == DisplayStep \/ \E c \in Clients : HelperStep(c) \/ MacStep(c)

Spec == Init /\ [][Next]_vars

-----------------------------------------------------------------------------
Promised == INSTANCE Screenshot WITH since <- [c \in Clients |-> mac[c].since]

\* The pictures delivered are frames the display showed after their command
\* was given, whatever other commands, crashes and power cuts do to the files
\* in between, and a command that ends otherwise leaves its destination alone.
PicturesAreFresh == Promised!Spec
====
