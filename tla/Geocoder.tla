---- MODULE Geocoder ----
(***************************************************************************)
(* Geocoder::search (src/src/geocode.rs) under the mutex of the settings   *)
(* server (src/src/web.rs, ServerState::search): a cache file, at most one *)
(* request to the provider per Interval, and an answer that is kept only   *)
(* when it could be saved.                                                 *)
(*                                                                         *)
(* Each caller is one handler thread.  A search that succeeds releases the *)
(* mutex at once; one that fails holds it until its page is rendered,      *)
(* because the guard lives in the scrutinee of the match.                  *)
(***************************************************************************)
EXTENDS Integers

CONSTANTS
  Callers,     \* handler threads
  Queries,     \* searches after normalisation
  Blank,       \* a search that is blank or has control characters
  Nobody,      \* the mutex is free
  Interval     \* MINIMUM_REQUEST_INTERVAL in ticks

ASSUME GeocoderAssumption ==
  Blank \notin Queries /\ Nobody \notin Callers /\ Interval \in Nat \ {0}

VARIABLES
  search,        \* [Callers]: where the thread is in search, and for what
  owner,         \* who holds the mutex
  memory,        \* <<Geocoder.cache>>, or empty before the file is read
  cacheFile,     \* <<the entries on file>>, or empty when it cannot be read
  rest,          \* [Callers]: ticks its wait_for_rate_limit has still to sleep
  lastRequest,   \* ticks since last_request_at; Interval: that or more, or never
  lastCall       \* the same since the provider was really asked

geocoderVars == <<search, owner, memory, cacheFile, rest, lastRequest, lastCall>>

Entries == {"none", "fresh", "expired"}
Caches == [Queries -> Entries]
Files == {<<>>} \cup {<<c>> : c \in Caches}

SearchSteps ==
  {"idle", "waiting", "locked", "limited", "sleeping", "calling", "saving", "found", "failed"}

GeocoderTypeOK ==
  /\ search \in [Callers -> [at : SearchSteps, query : Queries \cup {Blank}]]
  /\ owner \in Callers \cup {Nobody}
  /\ memory \in Files /\ cacheFile \in Files
  /\ rest \in [Callers -> 0 .. Interval]
  /\ lastRequest \in 0 .. Interval /\ lastCall \in 0 .. Interval

GeocoderInit(files) ==
  /\ search = [c \in Callers |-> [at |-> "idle", query |-> Blank]]
  /\ owner = Nobody
  /\ memory = <<>>
  /\ cacheFile \in files
  /\ rest = [c \in Callers |-> 0]
  /\ lastRequest = Interval /\ lastCall = Interval

At(c, step) == search[c].at = step

Goes(c, step) == search' = [search EXCEPT ![c].at = step]

\* A handler asks: it queues for the mutex.
Ask(c, query) ==
  /\ search' = [search EXCEPT ![c] = [at |-> "waiting", query |-> query]]
  /\ UNCHANGED <<owner, memory, cacheFile, rest, lastRequest, lastCall>>

\* Mutant: the mutex is not waited for.
LockAnyway(c) ==
  /\ At(c, "waiting")
  /\ owner' = c
  /\ Goes(c, "locked")
  /\ UNCHANGED <<memory, cacheFile, rest, lastRequest, lastCall>>

Lock(c) ==
  /\ At(c, "waiting") /\ owner = Nobody
  /\ owner' = c
  /\ Goes(c, "locked")
  /\ UNCHANGED <<memory, cacheFile, rest, lastRequest, lastCall>>

Fails(c) == Goes(c, "failed") /\ UNCHANGED owner

Finds(c) == Goes(c, "found") /\ owner' = Nobody

\* ensure_cache_loaded: a file that is absent is an empty cache.
Loaded == IF memory # <<>> THEN memory ELSE cacheFile

\* normalize_query, ensure_cache_loaded, and the look-up.
LookUp(c) ==
  /\ At(c, "locked")
  /\ IF search[c].query = Blank THEN Fails(c) /\ UNCHANGED memory
     ELSE /\ memory' = Loaded
          /\ IF Loaded = <<>> THEN Fails(c)
             ELSE IF Loaded[1][search[c].query] = "fresh" THEN Finds(c)
             ELSE Goes(c, "limited") /\ UNCHANGED owner
  /\ UNCHANGED <<cacheFile, rest, lastRequest, lastCall>>

\* wait_for_rate_limit reads the time of the last request once and sleeps for
\* the rest of its interval.
Limit(c) ==
  /\ At(c, "limited")
  /\ rest' = [rest EXCEPT ![c] = Interval - lastRequest]
  /\ Goes(c, "sleeping")
  /\ UNCHANGED <<owner, memory, cacheFile, lastRequest, lastCall>>

\* Mutant: the time of a request is noted only when it is answered.
ThrottleUnstamped(c) ==
  /\ At(c, "sleeping") /\ rest[c] = 0
  /\ lastCall' = 0
  /\ Goes(c, "calling")
  /\ UNCHANGED <<owner, memory, cacheFile, rest, lastRequest>>

\* It wakes and notes the time, and the request is sent.
Throttle(c) ==
  /\ At(c, "sleeping") /\ rest[c] = 0
  /\ lastRequest' = 0 /\ lastCall' = 0
  /\ Goes(c, "calling")
  /\ UNCHANGED <<owner, memory, cacheFile, rest>>

\* An error, a time-out or a status other than 200; no place; or places.
Answer(c) ==
  /\ At(c, "calling")
  /\ \/ Fails(c)
     \/ Finds(c)
     \/ Goes(c, "saving") /\ UNCHANGED owner
  /\ UNCHANGED <<memory, cacheFile, rest, lastRequest, lastCall>>

Updated(c) == <<[memory[1] EXCEPT ![search[c].query] = "fresh"]>>

\* Mutant: the answer is used before it is saved.
SaveLater(c) ==
  /\ At(c, "saving")
  /\ memory' = Updated(c)
  /\ \/ cacheFile' = Updated(c) /\ Finds(c)
     \/ UNCHANGED cacheFile /\ Fails(c)
  /\ UNCHANGED <<rest, lastRequest, lastCall>>

\* save_cache renames a synced file and then syncs the directory; if either
\* fails the answer is dropped, although the file may have it.
Save(c) ==
  /\ At(c, "saving")
  /\ \/ cacheFile' = Updated(c) /\ memory' = Updated(c) /\ Finds(c)
     \/ cacheFile' \in {cacheFile, Updated(c)} /\ UNCHANGED memory /\ Fails(c)
  /\ UNCHANGED <<rest, lastRequest, lastCall>>

\* The handler has its page: it leaves search, with the mutex if it failed.
Leave(c) ==
  /\ search' = [search EXCEPT ![c] = [at |-> "idle", query |-> Blank]]
  /\ owner' = IF At(c, "failed") THEN Nobody ELSE owner
  /\ UNCHANGED <<memory, cacheFile, rest, lastRequest, lastCall>>

SearchStep(c) == Lock(c) \/ LookUp(c) \/ Limit(c) \/ Throttle(c) \/ Answer(c) \/ Save(c)

Waited(ticks) == IF ticks < Interval THEN ticks + 1 ELSE ticks

Tick ==
  /\ lastRequest < Interval \/ lastCall < Interval \/ \E c \in Callers : rest[c] > 0
  /\ rest' = [c \in Callers |-> IF rest[c] > 0 THEN rest[c] - 1 ELSE 0]
  /\ lastRequest' = Waited(lastRequest) /\ lastCall' = Waited(lastCall)
  /\ UNCHANGED <<search, owner, memory, cacheFile>>

Expire(q, cache) ==
  IF cache = <<>> \/ cache[1][q] # "fresh" THEN cache
  ELSE <<[cache[1] EXCEPT ![q] = "expired"]>>

\* Seven days after an answer.
EntryExpires(q) ==
  /\ memory' = Expire(q, memory) /\ cacheFile' = Expire(q, cacheFile)
  /\ <<memory, cacheFile>>' # <<memory, cacheFile>>
  /\ UNCHANGED <<search, owner, rest, lastRequest, lastCall>>

\* The process ends at any point, in a save before or after the rename, and is
\* started again RestartSec later, which is longer than Interval.
GeocoderCrash ==
  /\ search' = [c \in Callers |-> [at |-> "idle", query |-> Blank]]
  /\ owner' = Nobody
  /\ memory' = <<>>
  /\ cacheFile' \in {cacheFile} \cup {Updated(c) : c \in {d \in Callers : At(d, "saving")}}
  /\ rest' = [c \in Callers |-> 0]
  /\ lastRequest' = Interval /\ lastCall' = Interval

----
Calls(c) == At(c, "sleeping") /\ search'[c].at = "calling"

\* However many browsers search at once, and whatever the provider answers,
\* it is never asked twice within Interval.
RateIsKept == [][\A c \in Callers : Calls(c) => lastCall = Interval]_geocoderVars

\* Answers in use are on file, so that a crash forgets none of them, and no
\* two threads are past the mutex.
AnswersAreOnFile ==
  /\ memory # <<>> =>
       /\ cacheFile # <<>>
       /\ \A q \in Queries : memory[1][q] = "fresh" => cacheFile[1][q] = "fresh"
  /\ \A c \in Callers :
       search[c].at \notin {"idle", "waiting", "found"} => owner = c
====
