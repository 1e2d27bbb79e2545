---- MODULE MCInstaller ----
(***************************************************************************)
(* Instances of Installer: which misfortunes may happen, and how often.    *)
(***************************************************************************)
EXTENDS Installer

Misfortunes(crash, lost, powerCycle, drift) ==
  [k \in Kinds |-> CASE k = "crash" -> crash [] k = "lost" -> lost
                     [] k = "powerCycle" -> powerCycle [] k = "drift" -> drift]

EverythingTwice == Misfortunes(2, 2, 2, 2)
OnePowerCycle == Misfortunes(0, 0, 1, 0)
====
