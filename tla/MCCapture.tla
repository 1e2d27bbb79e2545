---- MODULE MCCapture ----
(***************************************************************************)
(* Two screenshot commands at once, few enough inodes that they are used   *)
(* again.                                                                  *)
(***************************************************************************)
EXTENDS Capture, TLC

Symmetry == Permutations(Clients) \cup Permutations(Inodes)
====
