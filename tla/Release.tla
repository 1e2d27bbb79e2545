---- MODULE Release ----
(***************************************************************************)
(* The application's files on the Pi (src/src/install.rs): the installed   *)
(* binary with its REVISION and SHA256, the retained release files, the    *)
(* service; and what the helper's lifecycle commands do to them.  Each     *)
(* command is an operator on the files; Lifecycle decides when it runs.    *)
(*                                                                         *)
(* A release stands for an application artifact: its bytes, its digest and *)
(* its release path.  REVISION and SHA256 are one field, `meta`.           *)
(***************************************************************************)
EXTENDS Naturals, Sequences, SequencesExt

CONSTANTS
  Releases,
  Absent,        \* no file, no process
  MaxReleases    \* MAX_ACCEPTED_APPLICATION_RELEASES

ASSUME ReleasesAssumption == Releases # {} /\ Absent \notin Releases
\* The running release and the one before it are retained.
ASSUME MaxReleasesAssumption == MaxReleases \in Nat /\ MaxReleases >= 2

MaybeRelease == Releases \cup {Absent}

Disk ==
  [ bin     : MaybeRelease,       \* /opt/planeradar/bin/planeradar
    meta    : MaybeRelease,       \* REVISION and SHA256
    kept    : SUBSET Releases,    \* /opt/planeradar/releases/<version>/<sha256>/planeradar
    enabled : BOOLEAN,            \* planeradar.service
    running : MaybeRelease,       \* the application the service runs
    seeded  : BOOLEAN ]           \* the installer created settings.json and its marker

\* An ownership manifest: the binary and its metadata, the release files in
\* their order.  The unit is in every manifest; settings.json and its marker
\* are in every manifest of a Pi where the installer created them.
Ownership == [bin : Releases, kept : Seq(Releases)]

Installed(d, r) == d.bin = r /\ d.meta = r

Started(d) == [d EXCEPT !.running = d.bin]

Stopped(d) == [d EXCEPT !.running = Absent]

\* A reboot starts the service when it is enabled.
Rebooted(d) == [d EXCEPT !.running = IF d.enabled THEN d.bin ELSE Absent]

----
(* lifecycle-activate *)

\* The elements of s that are not in gone, in their order.
Without(s, gone) ==
  LET f[n \in 0 .. Len(s)] ==
        IF n = 0 THEN <<>> ELSE IF s[n] \in gone THEN f[n - 1] ELSE Append(f[n - 1], s[n])
  IN  f[Len(s)]

Drop(s, r) == Without(s, {r})

\* Mutant: at most n, the oldest.
FirstOf(s, n) == IF Len(s) <= n THEN s ELSE SubSeq(s, 1, n)

\* At most n, the newest.
LastOf(s, n) == IF Len(s) <= n THEN s ELSE SubSeq(s, Len(s) - n + 1, Len(s))

ProspectiveOwnership(owned, r) ==
  [bin |-> r, kept |-> Append(LastOf(Drop(owned.kept, r), MaxReleases - 1), r)]

\* verify_owned_manifest: what is there has the recorded bytes.  The settings
\* may have changed, and no other file of the manifest ever does.
ManifestHolds(d, owned) ==
  d.bin \in {owned.bin, Absent} /\ d.meta \in {owned.bin, Absent}

\* The recorded transaction explains the drift: every file of the manifest is
\* there, owned by root, with the recorded bytes or the candidate's.  Settings
\* that the installer created belong to the service's user, so a manifest that
\* lists them never passes.
InterruptedSwitch(d, tx, owned, r) ==
  /\ tx # Absent
  /\ tx.prior.owned = owned
  /\ r \in {tx.prior.release, tx.cand}
  /\ d.bin \in {owned.bin, tx.cand} /\ d.meta \in {owned.bin, tx.cand}
  /\ ToSet(owned.kept) \subseteq d.kept
  /\ ~d.seeded

\* The files during an activation of r, in the order of the writes.
ActivationSteps(d, owned, r) ==
  LET kept     == [d    EXCEPT !.kept = @ \cup {r}]
      switched == [kept EXCEPT !.bin = r]
      recorded == [switched EXCEPT !.meta = r]
      retired  == ToSet(owned.kept) \ ToSet(ProspectiveOwnership(owned, r).kept)
  IN  <<d, kept, switched, recorded, [recorded EXCEPT !.kept = @ \ retired]>>

----
(* lifecycle-retire, lifecycle-uninstall *)

Retired(d, r) == [d EXCEPT !.kept = @ \ {r}]

\* The settings can be purged only where the installer created them.
Uninstallable(d, owned, purge) == ManifestHolds(d, owned) /\ (purge => d.seeded)

UninstallSteps(d, owned) ==
  LET disabled == [d EXCEPT !.enabled = FALSE, !.running = Absent]
      unbound  == [disabled EXCEPT !.bin = Absent]
      bare     == [unbound EXCEPT !.meta = Absent]
  IN  <<d, disabled, unbound, bare, [bare EXCEPT !.kept = @ \ ToSet(owned.kept)]>>
====
