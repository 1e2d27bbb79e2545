---- MODULE Acquire ----
(***************************************************************************)
(* How control processes obtain a release and the display driver: two      *)
(* caches shared by every process of the user, whose entries appear whole  *)
(* or not at all, and the checks between a download and its use.           *)
(*                                                                         *)
(* One entry stands for each cache: the application's archive (release.rs) *)
(* and the driver's archives (driver.rs).  A file is judged by its length  *)
(* and digest, so its content is either released or damaged.               *)
(***************************************************************************)
EXTENDS Naturals

CONSTANTS
  Tools,   \* control processes that share the caches
  MaxRot   \* how often an entry is damaged or removed from outside

ASSUME AcquireAssumption == Tools # {} /\ MaxRot \in Nat

VARIABLES
  cache,    \* the entry of each item
  tree,     \* the driver's extracted sources, shared like the entries
  rot,      \* how often an entry was touched from outside
  step,     \* where a process is
  item,     \* which item it is acquiring
  payload,  \* its private copy of the application, the one it will send
  fresh,    \* the driver's sources as it has just extracted them
  own       \* whether its own download or verification has failed

acquireVars == <<cache, tree, rot, step, item, payload, fresh, own>>

Items == {"release", "driver"}
Contents == {"absent", "released", "damaged"}
Steps == {"lookup", "fetch", "publish", "attest", "recheck", "unpack",
          "place", "ready", "failed"}

Set(p, f, v) == [f EXCEPT ![p] = v]
To(p, s) == step' = Set(p, step, s)
Entry(p) == cache[item[p]]

AcquireInit ==
  /\ cache = [i \in Items |-> "absent"]
  /\ tree = "absent"
  /\ rot = 0
  /\ step = [p \in Tools |-> "lookup"]
  /\ item = [p \in Tools |-> "release"]
  /\ payload = [p \in Tools |-> "absent"]
  /\ fresh = [p \in Tools |-> "absent"]
  /\ own = [p \in Tools |-> FALSE]

\* A valid entry is used as it is, an invalid one is an error and is never
\* replaced, and only an absent one is downloaded.
Lookup(p) ==
  /\ step[p] = "lookup"
  /\ To(p, CASE Entry(p) = "released" -> "attest"
             [] Entry(p) = "damaged" -> "failed"
             [] Entry(p) = "absent" -> "fetch")
  /\ UNCHANGED <<cache, tree, rot, item, payload, fresh, own>>

\* The stream is counted and hashed on its way into a temporary file, which
\* is dropped unless length and digest are those of the manifest.
Fetch(p) ==
  /\ step[p] = "fetch"
  /\ \E whole \in BOOLEAN :
       /\ To(p, IF whole THEN "publish" ELSE "failed")
       /\ own' = Set(p, own, ~whole)
  /\ UNCHANGED <<cache, tree, rot, item, payload, fresh>>

\* Mutant: an entry published meanwhile is an error in both caches.
AlwaysLosesRace(p) == TRUE

\* The driver's cache takes an entry another process has published meanwhile
\* for an unsafe cache; the release's cache validates it and goes on.
LosesRace(p) == item[p] = "driver"

\* The temporary file becomes the entry unless there is one.
Publish(p) ==
  /\ step[p] = "publish"
  /\ IF Entry(p) = "absent"
     THEN To(p, "attest") /\ cache' = [cache EXCEPT ![item[p]] = "released"]
     ELSE To(p, IF LosesRace(p) THEN "failed" ELSE "attest") /\ UNCHANGED cache
  /\ UNCHANGED <<tree, rot, item, payload, fresh, own>>

\* The entry is validated, and GitHub's attestation is verified for the file
\* at its path, which the verifying program opens by itself.
Attest(p) ==
  /\ step[p] = "attest"
  /\ \E vouched \in BOOLEAN :
       /\ To(p, IF vouched /\ Entry(p) = "released" THEN "recheck" ELSE "failed")
       /\ own' = Set(p, own, ~vouched)
  /\ UNCHANGED <<cache, tree, rot, item, payload, fresh>>

\* The entry is validated again, for it could have changed under the verifier.
Recheck(p) ==
  /\ step[p] = "recheck"
  /\ To(p, IF Entry(p) = "released" THEN "unpack" ELSE "failed")
  /\ UNCHANGED <<cache, tree, rot, item, payload, fresh, own>>

\* Mutant: the archive is unpacked without another look at its digest.
UnpackAsIs(p) ==
  /\ step[p] = "unpack" /\ item[p] = "release"
  /\ To(p, IF Entry(p) # "absent" THEN "ready" ELSE "failed")
  /\ payload' = Set(p, payload, Entry(p))
  /\ UNCHANGED <<cache, tree, rot, item, fresh, own>>

\* The application's archive is read into memory, what was read must have the
\* digest, and the payload goes to a private directory of the process.
Unpack(p) ==
  /\ step[p] = "unpack" /\ item[p] = "release"
  /\ IF Entry(p) = "released"
     THEN To(p, "ready") /\ payload' = Set(p, payload, "released")
     ELSE To(p, "failed") /\ UNCHANGED payload
  /\ UNCHANGED <<cache, tree, rot, item, fresh, own>>

\* The driver's archive is extracted to a temporary directory, by path and
\* without a look at its digest: damage may or may not show.  If there is a
\* tree already it must be the same, file by file, and is used; otherwise the
\* new one is put in its place in a later step.
Extract(p) ==
  /\ step[p] = "unpack" /\ item[p] = "driver"
  /\ \E decoded \in {Entry(p) # "absent"} \cup (IF Entry(p) = "damaged" THEN {FALSE} ELSE {}) :
       /\ To(p, IF ~decoded \/ tree \notin {"absent", Entry(p)} THEN "failed"
                ELSE IF tree = "absent" THEN "place" ELSE "ready")
       /\ fresh' = Set(p, fresh, IF decoded /\ tree = "absent" THEN Entry(p) ELSE "absent")
  /\ UNCHANGED <<cache, tree, rot, item, payload, own>>

\* The rename fails on a tree that another process has placed meanwhile.
Place(p) ==
  /\ step[p] = "place"
  /\ IF tree = "absent"
     THEN To(p, "ready") /\ tree' = fresh[p]
     ELSE To(p, "failed") /\ UNCHANGED tree
  /\ fresh' = Set(p, fresh, "absent")
  /\ UNCHANGED <<cache, rot, item, payload, own>>

\* With the application at hand the process goes on to the driver, and asks for
\* it again when the board has another name (the tool is kept for one target).
SyncDriver(p) ==
  /\ step[p] = "ready"
  /\ To(p, "lookup")
  /\ item' = Set(p, item, "driver")
  /\ UNCHANGED <<cache, tree, rot, payload, fresh, own>>

\* The command is given again, after a failure or an interruption.
Again(p) ==
  /\ To(p, "lookup")
  /\ item' = Set(p, item, "release")
  /\ payload' = Set(p, payload, "absent")
  /\ fresh' = Set(p, fresh, "absent")
  /\ own' = Set(p, own, FALSE)
  /\ UNCHANGED <<cache, tree, rot>>

\* A disk, a person or another program.
Rot ==
  /\ rot < MaxRot
  /\ \E i \in Items, c \in {"absent", "damaged"} :
       cache[i] = "released" /\ cache' = [cache EXCEPT ![i] = c]
  /\ rot' = rot + 1
  /\ UNCHANGED <<tree, step, item, payload, fresh, own>>

AcquireStep(p) ==
  \/ Lookup(p) \/ Fetch(p) \/ Publish(p) \/ Attest(p) \/ Recheck(p)
  \/ Unpack(p) \/ Extract(p) \/ Place(p)

AcquireTypeOK ==
  /\ cache \in [Items -> Contents]
  /\ tree \in Contents
  /\ rot \in 0..MaxRot
  /\ step \in [Tools -> Steps]
  /\ item \in [Tools -> Items]
  /\ payload \in [Tools -> Contents]
  /\ fresh \in [Tools -> Contents]
  /\ own \in [Tools -> BOOLEAN]

\* Two commands at once share the release cache without harm: while nothing
\* outside touches the entries, a process fails to acquire a release only
\* through its own download or its own verification, whatever the other one
\* has published, is downloading or has failed to do meanwhile.
OthersDoNoHarm ==
  \A p \in Tools :
    rot = 0 /\ step[p] = "failed" /\ item[p] = "release" => own[p]
====
