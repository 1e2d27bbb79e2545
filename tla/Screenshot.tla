---- MODULE Screenshot ----
(***************************************************************************)
(* What `planeradarctl screenshot` promises (README.md:128-130: a new      *)
(* frame of the running renderer, nothing stale): the destination is left  *)
(* alone, or replaced at once by one whole frame that the display showed   *)
(* after the command was given.                                            *)
(***************************************************************************)
EXTENDS Naturals

CONSTANTS
  Clients,     \* commands that may be given
  MaxFrames,   \* bound on the frames the display shows
  NoPicture    \* what was at the destination before

VARIABLES
  shown,       \* the frame on the display, numbered as they come
  since,       \* since[c]: the frame on the display when c was given, 0 before
  picture      \* picture[c]: what is at c's destination

vars == <<shown, since, picture>>

Init ==
  /\ shown = 1
  /\ since = [c \in Clients |-> 0]
  /\ picture = [c \in Clients |-> NoPicture]

Show ==
  /\ shown < MaxFrames
  /\ shown' = shown + 1
  /\ UNCHANGED <<since, picture>>

Ask(c) ==
  /\ since[c] = 0
  /\ since' = [since EXCEPT ![c] = shown]
  /\ UNCHANGED <<shown, picture>>

Deliver(c) ==
  /\ since[c] # 0 /\ picture[c] = NoPicture
  /\ \E frame \in since[c] .. shown : picture' = [picture EXCEPT ![c] = frame]
  /\ UNCHANGED <<shown, since>>

Next ==
  \/ Show
  \/ \E c \in Clients : Ask(c) \/ Deliver(c)

Spec == Init /\ [][Next]_vars
====
