---- MODULE Web_proofs ----
(***************************************************************************)
(* What the settings server promises for any browsers, requests, sessions, *)
(* crashes and answers of the provider: answers in use are on file, the    *)
(* provider's interval is kept, the last page received is accepted, and a  *)
(* form changes what its page offers and nothing else.                     *)
(***************************************************************************)
EXTENDS Web, FiniteSetTheorems, WellFoundedInduction, TLAPS

Holding == {"locked", "limited", "sleeping", "calling", "saving", "failed"}
Asking == {"limited", "sleeping", "calling", "saving"}

\* A search holds the mutex from the lock on, knows its cache once it is past
\* the look-up; one that sleeps wakes no earlier than Interval after the last
\* request; and the time of that is never forgotten before the last call's.
SearchInv ==
  /\ GeocoderTypeOK
  /\ \A c \in Callers :
       /\ search[c].at \in Holding => owner = c
       /\ search[c].at \in Asking => memory # <<>> /\ search[c].query \in Queries
       /\ search[c].at = "sleeping" => rest[c] + lastRequest >= Interval
  /\ memory # <<>> =>
       /\ cacheFile # <<>>
       /\ \A q \in Queries : memory[1][q] = "fresh" => cacheFile[1][q] = "fresh"
  /\ lastRequest <= lastCall

Requests ==
  [ at : Steps, from : SUBSET Browsers, input : Inputs, csrf : Nat, cookie : Nat,
    opened : Nat, base : SUBSET Settings, status : Statuses ]

\* In mutation, before its handler.
Posting == {"checking", "reading", "validating"}

\* A thread that has not answered has no status, and only one that searches
\* is in the geocoder.
RequestInv ==
  /\ request = [r \in Callers |-> request[r]]
  /\ settings \in Settings
  /\ traffic \in Traffics
  /\ \A r \in Callers :
       /\ IF request[r].at = "idle" THEN request[r] = Fresh ELSE request[r] \in Requests
       /\ request[r].at \in {"queued", "routing"} \cup Posting => request[r].status = 0
       /\ request[r].at \in Posting => request[r].input.route \in {"search", "settings"}
       /\ request[r].at # "searching" => search[r].at = "idle"

\* The slots in use are those of the threads.
SlotInv ==
  /\ IsFiniteSet({r \in Callers : Handling(r)})
  /\ slots = Cardinality({r \in Callers : Handling(r)})
  /\ slots <= MaxInFlight

\* Serials are given in order, and of those of this process the ones that are
\* gone are old or MaxSessions behind.
SessionInv ==
  /\ pages \in Nat /\ booted \in 0 .. pages
  /\ sessions \subseteq 1 .. pages
  /\ Cardinality(sessions) <= MaxSessions
  /\ \A s \in booted + 1 .. pages : s \in sessions \cup aged \/ pages - s >= MaxSessions
  /\ browser \in [Browsers -> [cookie : 0 .. pages, tabs : SUBSET (1 .. pages)]]
  /\ \A r \in Callers : request[r].cookie <= pages /\ request[r].opened <= pages

IInv == SearchInv /\ RequestInv /\ SlotInv /\ SessionInv

----
(* The geocoder behind its mutex *)

\* A cache file with one entry renewed is a cache file.
LEMMA UpdatedIsFile ==
  ASSUME SearchInv, NEW c \in Callers, search[c].at = "saving"
  PROVE  /\ Updated(c) \in Files /\ Updated(c) # <<>>
         /\ \A q \in Queries : Updated(c)[1][q] =
              IF q = search[c].query THEN "fresh" ELSE memory[1][q]
<1>1. memory # <<>> /\ search[c].query \in Queries
  BY DEF SearchInv, Asking
<1>2. PICK m \in Caches : memory = <<m>>
  BY <1>1 DEF SearchInv, GeocoderTypeOK, Files
<1>3. Updated(c) = <<[m EXCEPT ![search[c].query] = "fresh"]>>
  BY <1>2 DEF Updated
<1>4. [m EXCEPT ![search[c].query] = "fresh"] \in Caches
  BY DEF Caches, Entries
<1>5. QED BY <1>1, <1>2, <1>3, <1>4 DEF Files, Caches

\* ... and so is one with an entry that has grown old.
LEMMA ExpireIsFile ==
  ASSUME NEW file \in Files, NEW q \in Queries
  PROVE  /\ Expire(q, file) \in Files
         /\ Expire(q, file) = <<>> <=> file = <<>>
         /\ file # <<>> => \A p \in Queries :
              Expire(q, file)[1][p] =
                IF p = q /\ file[1][p] = "fresh" THEN "expired" ELSE file[1][p]
<1>1. CASE file = <<>>
  BY <1>1 DEF Expire, Files
<1>2. CASE file # <<>>
  <2>1. PICK m \in Caches : file = <<m>>
    BY <1>2 DEF Files
  <2>2. [m EXCEPT ![q] = "expired"] \in Caches
    BY DEF Caches, Entries
  <2>3. Expire(q, file) = IF m[q] # "fresh" THEN file ELSE <<[m EXCEPT ![q] = "expired"]>>
    BY <1>2, <2>1 DEF Expire
  <2>4. QED BY <1>2, <2>1, <2>2, <2>3 DEF Files, Caches
<1>3. QED BY <1>1, <1>2

\* The steps of the thread c that leave files and times alone: what it must
\* know of the mutex and of the cache where it goes.
LEMMA ThreadMoves ==
  ASSUME SearchInv, NEW c \in Callers,
         NEW step \in SearchSteps, NEW query \in Queries \cup {Blank},
         search' = [search EXCEPT ![c] = [at |-> step, query |-> query]],
         owner' \in Callers \cup {Nobody},
         owner' # owner => owner \in {c, Nobody},
         step \in Holding => owner' = c,
         step \in Asking => memory' # <<>> /\ query \in Queries,
         step # "sleeping", rest' = rest,
         memory' = memory, cacheFile' = cacheFile,
         lastRequest' = lastRequest, lastCall' = lastCall
  PROVE  SearchInv'
<1>1. GeocoderTypeOK'
  BY DEF SearchInv, GeocoderTypeOK
<1>2. \A d \in Callers \ {c} : search'[d] = search[d]
  BY DEF SearchInv, GeocoderTypeOK
<1>3. search'[c] = [at |-> step, query |-> query]
  BY DEF SearchInv, GeocoderTypeOK
<1>4. \A d \in Callers \ {c} : search[d].at \in Holding => owner' = d
  BY GeocoderAssumption DEF SearchInv
<1>5. QED BY <1>1, <1>2, <1>3, <1>4 DEF SearchInv

\* Ask
LEMMA AskKeeps ==
  ASSUME SearchInv, NEW c \in Callers, NEW query \in Queries \cup {Blank}, Ask(c, query)
  PROVE  SearchInv'
BY ThreadMoves, "waiting" \in SearchSteps, "waiting" \notin Holding, "waiting" \notin Asking
   DEF Ask, SearchInv, GeocoderTypeOK, SearchSteps, Holding, Asking

\* What Goes does, in the form of ThreadMoves.
LEMMA GoesMoves ==
  ASSUME SearchInv, NEW c \in Callers, NEW step, Goes(c, step)
  PROVE  /\ search' = [search EXCEPT ![c] = [at |-> step, query |-> search[c].query]]
         /\ search[c].query \in Queries \cup {Blank}
<1>1. search[c] \in [at : SearchSteps, query : Queries \cup {Blank}]
  BY DEF SearchInv, GeocoderTypeOK
<1>2. [search[c] EXCEPT !.at = step] = [at |-> step, query |-> search[c].query]
  BY <1>1
<1>3. search' = [search EXCEPT ![c] = [search[c] EXCEPT !.at = step]]
  BY DEF Goes, SearchInv, GeocoderTypeOK
<1>4. QED BY <1>1, <1>2, <1>3

\* The mutex is taken, the cache looked up, the interval waited for, the
\* provider answers, and the answer is saved.
LEMMA SearchStepKeeps ==
  ASSUME SearchInv, NEW c \in Callers, SearchStep(c)
  PROVE  SearchInv'
<1> USE DEF SearchSteps, Holding, Asking
<1>0. /\ search[c] \in [at : SearchSteps, query : Queries \cup {Blank}]
      /\ owner \in Callers \cup {Nobody}
  BY DEF SearchInv, GeocoderTypeOK
<1>1. CASE Lock(c)
  BY <1>0, <1>1, GoesMoves, ThreadMoves DEF Lock
<1>2. CASE LookUp(c)
  <2>1. owner = c
    BY <1>2 DEF SearchInv, LookUp, At
  <2>2. CASE search[c].query = Blank
    BY <1>0, <1>2, <2>1, <2>2, GoesMoves, ThreadMoves DEF LookUp, Fails
  <2>3. CASE search[c].query # Blank
    <3> DEFINE to == IF Loaded = <<>> THEN "failed"
                     ELSE IF Loaded[1][search[c].query] = "fresh" THEN "found" ELSE "limited"
    <3>1. /\ Goes(c, to)
          /\ to \in {"failed", "found", "limited"}
          /\ to = "limited" => Loaded # <<>> /\ owner' = owner
          /\ to = "failed" => owner' = owner
          /\ to = "found" => owner' = Nobody
          /\ memory' = Loaded
          /\ cacheFile' = cacheFile /\ rest' = rest
          /\ lastRequest' = lastRequest /\ lastCall' = lastCall
      BY <1>2, <2>3 DEF LookUp, Fails, Finds
    <3> HIDE DEF to
    <3>2. search' = [search EXCEPT ![c] = [at |-> to, query |-> search[c].query]]
      BY <3>1, GoesMoves
    <3>3. \A d \in Callers \ {c} : search'[d] = search[d] /\ search[d].at \notin Holding
      BY <2>1, <3>2 DEF SearchInv, GeocoderTypeOK
    <3>4. search'[c] = [at |-> to, query |-> search[c].query]
      BY <3>2 DEF SearchInv, GeocoderTypeOK
    <3>5. GeocoderTypeOK'
      BY <1>0, <2>1, <3>1, <3>2, <3>4 DEF SearchInv, GeocoderTypeOK, Loaded
    <3>6. \A d \in Callers :
            /\ search'[d].at \in Holding => owner' = d
            /\ search'[d].at \in Asking => memory' # <<>> /\ search'[d].query \in Queries
            /\ search'[d].at # "sleeping"
      BY <1>0, <2>1, <2>3, <3>1, <3>3, <3>4
    <3>7. memory' # <<>> =>
            /\ cacheFile' # <<>>
            /\ \A q \in Queries : memory'[1][q] = "fresh" => cacheFile'[1][q] = "fresh"
      BY <3>1 DEF Loaded, SearchInv
    <3>8. QED BY <3>1, <3>5, <3>6, <3>7 DEF SearchInv
  <2>4. QED BY <2>2, <2>3
<1>3. CASE Throttle(c)
  <2>1. owner = c /\ memory # <<>> /\ search[c].query \in Queries
    BY <1>3 DEF SearchInv, Throttle, At
  <2>2. search' = [search EXCEPT ![c] = [at |-> "calling", query |-> search[c].query]]
    BY <1>3, GoesMoves DEF Throttle
  <2>3. \A d \in Callers \ {c} : search'[d] = search[d]
    BY <2>2 DEF SearchInv, GeocoderTypeOK
  <2>4. search'[c] = [at |-> "calling", query |-> search[c].query]
    BY <2>2 DEF SearchInv, GeocoderTypeOK
  <2>5. GeocoderTypeOK'
    BY <1>0, <1>3, <2>2, GeocoderAssumption DEF SearchInv, GeocoderTypeOK, Throttle
  <2>6. \A d \in Callers \ {c} : search[d].at \notin Holding
    BY <2>1 DEF SearchInv
  <2>7. QED BY <1>3, <2>1, <2>3, <2>4, <2>5, <2>6 DEF SearchInv, Throttle
<1>4. CASE Answer(c)
  <2>1. owner = c /\ memory # <<>> /\ search[c].query \in Queries
    BY <1>4 DEF SearchInv, Answer, At
  <2>2. PICK step \in {"failed", "found", "saving"} :
          /\ Goes(c, step)
          /\ owner' = IF step = "found" THEN Nobody ELSE owner
    BY <1>4 DEF Answer, Fails, Finds
  <2>3. QED BY <1>0, <1>4, <2>1, <2>2, GoesMoves, ThreadMoves DEF Answer
<1>5. CASE Save(c)
  <2>1. owner = c /\ memory # <<>> /\ search[c].query \in Queries /\ search[c].at = "saving"
    BY <1>5 DEF SearchInv, Save, At
  <2>2. PICK step \in {"failed", "found"} :
          /\ Goes(c, step)
          /\ step = "found" => owner' = Nobody /\ cacheFile' = Updated(c) /\ memory' = Updated(c)
          /\ step = "failed" => owner' = owner /\ cacheFile' \in {cacheFile, Updated(c)}
                                               /\ memory' = memory
    BY <1>5 DEF Save, Fails, Finds
  <2>3. search' = [search EXCEPT ![c] = [at |-> step, query |-> search[c].query]]
    BY <2>2, GoesMoves
  <2>4. \A d \in Callers \ {c} : search'[d] = search[d] /\ search[d].at \notin Holding
    BY <2>1, <2>3 DEF SearchInv, GeocoderTypeOK
  <2>5. search'[c] = [at |-> step, query |-> search[c].query]
    BY <2>3 DEF SearchInv, GeocoderTypeOK
  <2>6. Updated(c) \in Files /\ Updated(c) # <<>>
    BY <2>1, UpdatedIsFile
  <2>7. \A q \in Queries : memory[1][q] = "fresh" => Updated(c)[1][q] = "fresh"
    BY <2>1, UpdatedIsFile
  <2>8. lastRequest' = lastRequest /\ lastCall' = lastCall /\ rest' = rest
    BY <1>5 DEF Save
  <2>9. GeocoderTypeOK'
    BY <1>0, <2>1, <2>2, <2>3, <2>6, <2>8 DEF SearchInv, GeocoderTypeOK
  <2>10. \A d \in Callers :
            /\ search'[d].at \in Holding => owner' = d
            /\ search'[d].at \in Asking => memory' # <<>> /\ search'[d].query \in Queries
            /\ search'[d].at # "sleeping"
    BY <2>1, <2>2, <2>4, <2>5
  <2>11. memory' # <<>> =>
            /\ cacheFile' # <<>>
            /\ \A q \in Queries : memory'[1][q] = "fresh" => cacheFile'[1][q] = "fresh"
    BY <2>2, <2>6, <2>7 DEF SearchInv
  <2>12. QED BY <2>8, <2>9, <2>10, <2>11 DEF SearchInv
<1>6. CASE Limit(c)
  <2>1. owner = c /\ memory # <<>> /\ search[c].query \in Queries
    BY <1>6 DEF SearchInv, Limit, At
  <2>2. search' = [search EXCEPT ![c] = [at |-> "sleeping", query |-> search[c].query]]
    BY <1>6, GoesMoves DEF Limit
  <2>3. \A d \in Callers \ {c} : search'[d] = search[d] /\ search[d].at \notin Holding
    BY <2>1, <2>2 DEF SearchInv, GeocoderTypeOK
  <2>4. search'[c] = [at |-> "sleeping", query |-> search[c].query]
    BY <2>2 DEF SearchInv, GeocoderTypeOK
  <2>5. lastRequest \in 0 .. Interval /\ Interval - lastRequest \in 0 .. Interval
    BY GeocoderAssumption DEF SearchInv, GeocoderTypeOK
  <2>6. rest' \in [Callers -> 0 .. Interval] /\ rest'[c] + lastRequest = Interval
    BY <1>6, <2>5, GeocoderAssumption DEF SearchInv, GeocoderTypeOK, Limit
  <2>7. GeocoderTypeOK'
    BY <1>0, <1>6, <2>2, <2>6 DEF SearchInv, GeocoderTypeOK, Limit
  <2>8. QED
    BY <1>6, <2>1, <2>3, <2>4, <2>6, <2>7, GeocoderAssumption DEF SearchInv, Limit
<1>7. QED BY <1>1, <1>2, <1>3, <1>4, <1>5, <1>6 DEF SearchStep

\* The handler leaves search.
LEMMA LeaveKeeps ==
  ASSUME SearchInv, NEW c \in Callers, Leave(c)
  PROVE  SearchInv'
<1>1. search[c].at = "failed" => owner = c
  BY DEF SearchInv, Holding
<1>2. QED
  BY <1>1, ThreadMoves, "idle" \in SearchSteps, "idle" \notin Holding, "idle" \notin Asking
     DEF Leave, At, SearchInv, GeocoderTypeOK, SearchSteps, Holding, Asking

\* Time passes.
LEMMA TickKeeps ==
  ASSUME SearchInv, Tick
  PROVE  SearchInv'
<1>1. GeocoderTypeOK'
  BY GeocoderAssumption DEF SearchInv, GeocoderTypeOK, Tick, Waited
<1>2. lastRequest' <= lastCall'
  BY GeocoderAssumption DEF SearchInv, GeocoderTypeOK, Tick, Waited
<1>3. ASSUME NEW c \in Callers, search[c].at = "sleeping"
      PROVE  rest'[c] + lastRequest' >= Interval
  <2>1. rest[c] + lastRequest >= Interval /\ rest[c] \in 0 .. Interval
        /\ lastRequest \in 0 .. Interval
    BY <1>3 DEF SearchInv, GeocoderTypeOK
  <2>2. /\ rest'[c] = IF rest[c] > 0 THEN rest[c] - 1 ELSE 0
        /\ lastRequest' = IF lastRequest < Interval THEN lastRequest + 1 ELSE lastRequest
    BY DEF Tick, Waited
  <2>3. QED BY <2>1, <2>2, GeocoderAssumption
<1>4. QED BY <1>1, <1>2, <1>3 DEF SearchInv, Tick

\* An answer grows old, in memory and on file.
LEMMA EntryExpiresKeeps ==
  ASSUME SearchInv, NEW q \in Queries, EntryExpires(q)
  PROVE  SearchInv'
<1>1. memory \in Files /\ cacheFile \in Files
  BY DEF SearchInv, GeocoderTypeOK
<1>2. memory' = Expire(q, memory) /\ cacheFile' = Expire(q, cacheFile)
  BY DEF EntryExpires
<1>3. GeocoderTypeOK'
  BY <1>1, <1>2, ExpireIsFile DEF SearchInv, GeocoderTypeOK, EntryExpires
<1>4. (memory' = <<>> <=> memory = <<>>) /\ (cacheFile' = <<>> <=> cacheFile = <<>>)
  BY <1>1, <1>2, ExpireIsFile
<1>5. memory # <<>> /\ cacheFile # <<>> => \A p \in Queries :
        /\ memory'[1][p] = IF p = q /\ memory[1][p] = "fresh" THEN "expired" ELSE memory[1][p]
        /\ cacheFile'[1][p] =
             IF p = q /\ cacheFile[1][p] = "fresh" THEN "expired" ELSE cacheFile[1][p]
  BY <1>1, <1>2, ExpireIsFile
<1>6. memory' # <<>> =>
        /\ cacheFile' # <<>>
        /\ \A p \in Queries : memory'[1][p] = "fresh" => cacheFile'[1][p] = "fresh"
  BY <1>4, <1>5 DEF SearchInv
<1>7. QED BY <1>3, <1>4, <1>6 DEF SearchInv, EntryExpires

\* The process ends, in a save before or after the rename.
LEMMA GeocoderCrashKeeps ==
  ASSUME SearchInv, GeocoderCrash
  PROVE  SearchInv'
<1>1. cacheFile' \in Files
  <2>1. CASE cacheFile' = cacheFile
    BY <2>1 DEF SearchInv, GeocoderTypeOK
  <2>2. CASE \E c \in Callers : search[c].at = "saving" /\ cacheFile' = Updated(c)
    BY <2>2, UpdatedIsFile
  <2>3. QED BY <2>1, <2>2 DEF GeocoderCrash, At
<1>2. GeocoderTypeOK'
  BY <1>1, GeocoderAssumption DEF SearchInv, GeocoderTypeOK, GeocoderCrash, Files, SearchSteps
<1>3. \A c \in Callers : search'[c].at = "idle"
  BY DEF GeocoderCrash
<1>4. QED
  BY <1>2, <1>3, GeocoderAssumption DEF SearchInv, GeocoderCrash, Holding, Asking

----
(* Forms *)

\* What a form that is read makes has the settings' types.
LEMMA DeriveIsTyped ==
  ASSUME NEW s \in Settings, NEW form \in [Fields -> Seq(STRING)], Reads(form)
  PROVE  Derive(s, form) \in
           [ location : Coordinates, range : Numerals, runways : BOOLEAN, callsign : BOOLEAN,
             time : BOOLEAN, day : Numerals, start : Numerals, night : BOOLEAN, red : BOOLEAN,
             low : Limits, high : Limits ]
<1>1. form["coordinates"][1] \in Coordinates
  BY DEF Reads
<1>2. \A f \in {"range", "day", "start"} : \A current \in Numerals :
        NumberValue(form, f, current) \in Numerals
  <2>1. NumberReads(form, "range")
    BY DEF Reads
  <2>2. Submitted(form, "day") => NumberReads(form, "day")
    BY DEF Reads, BrightnessSubmitted, BrightnessFields
  <2>3. Submitted(form, "start") => NumberReads(form, "start")
    BY DEF Reads, BrightnessSubmitted, BrightnessFields
  <2>4. QED BY <2>1, <2>2, <2>3 DEF NumberValue, NumberReads, Numerals
<1>3. \A f \in {"low", "high"} : \A current \in Limits :
        LimitValue(form, f, current) \in Limits
  <2>1. LimitReads(form, "low") /\ LimitReads(form, "high")
    BY DEF Reads
  <2>2. QED BY <2>1 DEF LimitValue, LimitReads, Limits, Numerals
<1>4. \A b \in Boxes : \A current \in BOOLEAN : BoxValue(form, b, current) \in BOOLEAN
  BY DEF BoxValue, Submitted
<1>5. \A current \in BOOLEAN : RunwaysValue(form, current) \in BOOLEAN
  <2>1. ASSUME NEW current \in BOOLEAN PROVE RunwaysValue(form, current) \in BOOLEAN
    <3>1. CASE Submitted(form, "runways")
      <4>1. RunwaysValue(form, current) = (form["runways"][1] \in On)
        BY <3>1 DEF RunwaysValue
      <4>2. (form["runways"][1] \in On) \in BOOLEAN
        OBVIOUS
      <4>3. QED BY <4>1, <4>2
    <3>2. CASE ~ Submitted(form, "runways")
      <4>1. RunwaysValue(form, current) = (~ Submitted(form, "runways_present") /\ current)
        BY <3>2 DEF RunwaysValue
      <4>2. (~ Submitted(form, "runways_present") /\ current) \in BOOLEAN
        OBVIOUS
      <4>3. QED BY <4>1, <4>2
    <3>3. QED BY <3>1, <3>2
  <2>2. QED BY <2>1
<1>6. s.range \in Numerals /\ s.day \in Numerals /\ s.start \in Numerals /\ s.low \in Limits
      /\ s.high \in Limits /\ s.runways \in BOOLEAN /\ s.callsign \in BOOLEAN
      /\ s.time \in BOOLEAN /\ s.night \in BOOLEAN /\ s.red \in BOOLEAN
  BY DEF Settings
<1>7. QED BY <1>1, <1>2, <1>3, <1>4, <1>5, <1>6 DEF Derive, Boxes

\* What is saved can be in use.
LEMMA CandidatesAreSettings ==
  ASSUME NEW s \in Settings, NEW form \in [Fields -> Seq(STRING)]
  PROVE  Candidates(s, form) \subseteq Settings
BY DeriveIsTyped DEF Candidates, Settings

\* KeepsTheRest holds of any settings and any form, whoever made it.
LEMMA FormsKeep ==
  ASSUME NEW s \in Settings, NEW form \in [Fields -> Seq(STRING)]
  PROVE  KeepsTheRest(s, form)
<1> SUFFICES ASSUME Reads(form), NEW k \in DOMAIN s,
                    \A f \in Controls(k) : Submitted(form, f) => k \in Boxes /\ f # Present[k]
             PROVE  Derive(s, form)[k] = s[k]
  BY DEF KeepsTheRest, Candidates
<1>1. DOMAIN s = { "location", "range", "runways", "callsign", "time", "day", "start",
                   "night", "red", "low", "high" }
  BY DEF Settings
<1>2. DOMAIN Present = {"runways", "callsign", "time", "night", "red"}
  BY DEF Present
<1>3. CASE k = "location"
  <2>1. Controls(k) = {"coordinates"}
    BY <1>3 DEF Controls
  <2>2. ~ Submitted(form, "coordinates")
    BY <1>3, <2>1 DEF Boxes
  <2>3. QED BY <2>2 DEF Reads
<1>4. CASE k \in {"range", "day", "start"}
  <2>1. ~ Submitted(form, k)
    BY <1>2, <1>4 DEF Controls, Boxes
  <2>2. QED BY <1>4, <2>1 DEF Derive, NumberValue
<1>5. CASE k \in {"low", "high"}
  <2>1. ~ Submitted(form, k)
    BY <1>2, <1>5 DEF Controls, Boxes
  <2>2. LimitValue(form, k, s[k]) = s[k]
    BY <2>1 DEF LimitValue
  <2>3. QED BY <1>5, <2>2 DEF Derive
<1>6. CASE k = "runways"
  <2>1. ~ Submitted(form, "runways") /\ ~ Submitted(form, "runways_present")
    BY <1>2, <1>6 DEF Controls, Boxes, Present
  <2>2. s.runways \in BOOLEAN
    BY DEF Settings
  <2>3. RunwaysValue(form, s.runways) = s.runways
    BY <2>1, <2>2 DEF RunwaysValue
  <2>4. QED BY <1>6, <2>3 DEF Derive
<1>7. CASE k \in Boxes
  <2>1. k \in DOMAIN Present /\ k # "location"
    BY <1>2, <1>7 DEF Boxes
  <2>2. ~ Submitted(form, Present[k])
    BY <2>1 DEF Controls
  <2>3. BoxValue(form, k, s[k]) = s[k]
    BY <2>2 DEF BoxValue
  <2>4. QED BY <1>7, <2>3 DEF Derive, Boxes
<1>8. QED BY <1>1, <1>3, <1>4, <1>5, <1>6, <1>7 DEF Boxes

\* Lengths of fields that hold one value or none.
LEMMA OneOrNone ==
  /\ \A v : v = <<>> => Len(v) <= 1
  /\ \A v, x : v = <<x>> => Len(v) <= 1
<1>1. Len(<<>>) = 0 /\ 0 <= 1
  OBVIOUS
<1>2. ASSUME NEW v, v = <<>> PROVE Len(v) <= 1
  <2>1. Len(v) = 0
    BY <1>1, <1>2, Zenon
  <2>2. QED BY <2>1
<1>3. ASSUME NEW v, NEW x, v = <<x>> PROVE Len(v) <= 1
  <2>1. Len(<<x>>) = 1
    OBVIOUS
  <2>2. Len(v) = 1
    BY <1>3, <2>1, Zenon
  <2>3. QED BY <2>2
<1>4. QED BY <1>2, <1>3, Zenon

\* A number in use has a text that reads as it, and not the empty one.
LEMMA ShowsReads ==
  ASSUME NEW n \in Numerals
  PROVE  /\ Shows(n) # <<>> /\ Len(Shows(n)) <= 1
         /\ Shows(n)[1] \in DOMAIN Number /\ Number[Shows(n)[1]] = n
         /\ Shows(n)[1] # NoText
<1> DEFINE t == CHOOSE t \in DOMAIN Number : Number[t] = n
<1>1. t \in DOMAIN Number /\ Number[t] = n
  BY DEF Numerals
<1>2. Shows(n) = <<t>>
  BY DEF Shows
<1> HIDE DEF t
<1>3. Shows(n)[1] = t /\ Len(Shows(n)) <= 1 /\ Shows(n) # <<>>
  BY <1>2, OneOrNone
<1>4. t # NoText
  BY <1>1, FormAssumption
<1>5. QED BY <1>1, <1>2, <1>3, <1>4

\* The sentinel of a box is the field named after it.
LEMMA SentinelOf ==
  ASSUME NEW b \in DOMAIN Present
  PROVE  BoxOf(Present[b]) = b
<1>1. \A k, j \in DOMAIN Present : Present[k] = Present[j] => k = j
  BY DEF Present
<1>2. QED BY <1>1 DEF BoxOf

\* What the settings page sends, field by field.
LEMMA PageShows ==
  ASSUME NEW w \in Settings
  PROVE  /\ PageForm(w)["coordinates"] = <<w.location>>
         /\ \A f \in {"range", "day", "start"} : PageForm(w)[f] = Shows(w[f])
         /\ \A f \in {"low", "high"} : PageForm(w)[f] = ShowsLimit(w[f])
         /\ \A b \in Boxes \cup {"runways"} :
              /\ PageForm(w)[b] = IF w[b] THEN <<"true">> ELSE <<>>
              /\ PageForm(w)[Present[b]] = <<"true">>
         /\ PageForm(w)["unknown"] = <<>>
<1>1. \A f \in {"coordinates", "range", "day", "start", "low", "high", "unknown"} :
        PageForm(w)[f] = PageSends(w, f)
  BY DEF Fields, Optional, PageForm
<1>2. \A b \in Boxes \cup {"runways"} :
        PageForm(w)[b] = PageSends(w, b) /\ PageForm(w)[Present[b]] = PageSends(w, Present[b])
  <2>1. \A b \in Boxes \cup {"runways"} : b \in Fields /\ Present[b] \in Fields
    BY DEF Fields, Boxes, Optional, Present
  <2>2. QED BY <2>1 DEF PageForm
<1>3. PageForm(w)["coordinates"] = <<w.location>>
  <2>1. PageSends(w, "coordinates") = <<w.location>>
    BY DEF PageSends, Boxes
  <2>2. QED BY <1>1, <2>1
<1>4. \A f \in {"range", "day", "start"} : PageForm(w)[f] = Shows(w[f])
  <2>1. \A f \in {"range", "day", "start"} : PageSends(w, f) = Shows(w[f])
    BY DEF PageSends, Boxes
  <2>2. QED BY <1>1, <2>1
<1>5. \A f \in {"low", "high"} : PageForm(w)[f] = ShowsLimit(w[f])
  <2>1. \A f \in {"low", "high"} : PageSends(w, f) = ShowsLimit(w[f])
    BY DEF PageSends, Boxes
  <2>2. QED BY <1>1, <2>1
<1>6. PageForm(w)["unknown"] = <<>>
  BY <1>1 DEF PageSends, Boxes
<1>7. ASSUME NEW b \in Boxes \cup {"runways"}
      PROVE  PageForm(w)[b] = IF w[b] THEN <<"true">> ELSE <<>>
  <2>1. b \notin {"coordinates", "range", "day", "start", "low", "high"}
    BY DEF Boxes
  <2>2. PageForm(w)[b] = BoxSends(w[b]).box
    <3>1. PageSends(w, b) = BoxSends(w[b]).box
      BY <2>1 DEF PageSends, Boxes
    <3>2. QED BY <1>2, <3>1
  <2>3. QED BY <2>2 DEF BoxSends, Checked
<1>8. ASSUME NEW b \in Boxes \cup {"runways"}
      PROVE  PageForm(w)[Present[b]] = <<"true">>
  <2>1. b \in DOMAIN Present
    BY DEF Boxes, Present
  <2>2. /\ Present[b] \notin {"coordinates", "range", "day", "start", "low", "high", "unknown"}
        /\ Present[b] \notin Boxes \cup {"runways"}
    BY DEF Boxes, Present
  <2>3. PageForm(w)[Present[b]] = BoxSends(w[BoxOf(Present[b])]).present
    BY <1>2, <2>2 DEF PageSends
  <2>4. PageForm(w)[Present[b]] = BoxSends(w[b]).present
    BY <2>1, <2>3, SentinelOf
  <2>5. QED BY <2>4 DEF BoxSends
<1>9. \A b \in Boxes \cup {"runways"} :
        /\ PageForm(w)[b] = IF w[b] THEN <<"true">> ELSE <<>>
        /\ PageForm(w)[Present[b]] = <<"true">>
  BY <1>7, <1>8
<1>10. QED BY <1>3, <1>4, <1>5, <1>6, <1>9

\* The settings page is read, once its place has been filled in ...
LEMMA PageIsRead ==
  ASSUME NEW w \in Settings, w.location # NoText
  PROVE  Reads(PageForm(w))
<1>1. \A b \in Boxes \cup {"runways"} :
        /\ Submitted(PageForm(w), b) <=> w[b]
        /\ w[b] => PageForm(w)[b][1] = "true"
        /\ Submitted(PageForm(w), Present[b]) /\ PageForm(w)[Present[b]][1] = "true"
  BY PageShows DEF Submitted
<1>2. \A f \in {"range", "day", "start"} :
        Submitted(PageForm(w), f) /\ PageForm(w)[f][1] \in DOMAIN Number
          /\ Number[PageForm(w)[f][1]] = w[f]
  <2>1. \A f \in {"range", "day", "start"} : w[f] \in Numerals
    BY DEF Settings
  <2>2. QED BY <2>1, PageShows, ShowsReads DEF Submitted
<1>3. \A f \in {"low", "high"} : w[f] = <<>> \/ \E n \in Numerals : w[f] = <<n>>
  BY DEF Settings, Limits
<1>4. \A f \in {"low", "high"} :
        PageForm(w)[f] = <<NoText>> \/ \E n \in Numerals : PageForm(w)[f] = Shows(n)
  BY <1>3, PageShows DEF ShowsLimit
<1>5. ReadOnce(PageForm(w))
  <2>1. \A b \in DOMAIN Present : Len(PageForm(w)[b]) <= 1 /\ Len(PageForm(w)[Present[b]]) <= 1
    <3>1. \A b \in DOMAIN Present :
            PageForm(w)[b] \in {<<>>, <<"true">>} /\ PageForm(w)[Present[b]] = <<"true">>
      BY PageShows DEF Boxes, Present
    <3>2. QED BY <3>1, OneOrNone
  <2>2. \A f \in {"range", "day", "start"} : Len(PageForm(w)[f]) <= 1
    <3>1. \A f \in {"range", "day", "start"} : w[f] \in Numerals
      BY DEF Settings
    <3>2. QED BY <3>1, PageShows, ShowsReads, Zenon
  <2>3. \A f \in {"low", "high"} : Len(PageForm(w)[f]) <= 1
    BY <1>4, OneOrNone, ShowsReads, Zenon
  <2>4. Len(PageForm(w)["coordinates"]) <= 1 /\ Len(PageForm(w)["unknown"]) <= 1
    BY PageShows, OneOrNone
  <2>5. \A f \in Fields :
          \/ f \in {"range", "day", "start", "low", "high", "coordinates", "unknown"}
          \/ \E b \in DOMAIN Present : f \in {b, Present[b]}
    BY DEF Fields, Boxes, Optional, Present
  <2>6. \A f \in Fields : Len(PageForm(w)[f]) <= 1
    <3>1. ASSUME NEW f \in Fields PROVE Len(PageForm(w)[f]) <= 1
      <4>1. CASE \E b \in DOMAIN Present : f \in {b, Present[b]}
        BY <2>1, <4>1
      <4>2. CASE f \in {"range", "day", "start", "low", "high", "coordinates", "unknown"}
        BY <2>2, <2>3, <2>4, <4>2
      <4>3. QED BY <2>5, <4>1, <4>2
    <3>2. QED BY <3>1
  <2>7. QED BY <2>6 DEF ReadOnce
<1>6. ~ Submitted(PageForm(w), "unknown")
  BY PageShows DEF Submitted
<1>7. Submitted(PageForm(w), "coordinates") /\ PageForm(w)["coordinates"][1] \in Coordinates
  <2>1. w.location \in Coordinates
    BY DEF Settings
  <2>2. QED BY <2>1, PageShows DEF Submitted
<1>8. NumberReads(PageForm(w), "range") /\ NumberReads(PageForm(w), "day")
      /\ NumberReads(PageForm(w), "start")
  BY <1>2 DEF NumberReads
<1>9. RunwaysRead(PageForm(w))
  BY <1>1 DEF RunwaysRead, On, Present
<1>10. \A b \in Boxes : BoxReads(PageForm(w), b)
  BY <1>1 DEF BoxReads, On
<1>11. LimitReads(PageForm(w), "low") /\ LimitReads(PageForm(w), "high")
  BY <1>4, ShowsReads DEF LimitReads
<1>12. w.start \in 0 .. 23
  <2>1. Valid(w)
    BY DEF Settings
  <2>2. QED BY <2>1 DEF Valid
<1>13. QED BY <1>2, <1>5, <1>6, <1>7, <1>8, <1>9, <1>10, <1>11, <1>12 DEF Reads

\* ... and asks for what it shows, whatever is in use.
LEMMA PageAsks ==
  ASSUME NEW s \in Settings, NEW w \in Settings, w.location # NoText
  PROVE  Candidates(s, PageForm(w)) = {w}
<1>1. \A b \in Boxes \cup {"runways"} : w[b] \in BOOLEAN
  BY DEF Boxes, Settings
<1>2. \A b \in Boxes : BoxValue(PageForm(w), b, s[b]) = w[b]
  <2>1. ASSUME NEW b \in Boxes PROVE BoxValue(PageForm(w), b, s[b]) = w[b]
    <3>1. Submitted(PageForm(w), Present[b])
      BY PageShows DEF Submitted
    <3>2. Submitted(PageForm(w), b) = w[b]
      BY <1>1, PageShows DEF Submitted
    <3>3. QED BY <3>1, <3>2 DEF BoxValue
  <2>2. QED BY <2>1
<1>3. RunwaysValue(PageForm(w), s.runways) = w.runways
  <2>1. PageForm(w)["runways"] = IF w.runways THEN <<"true">> ELSE <<>>
    BY PageShows
  <2>2. PageForm(w)["runways_present"] = <<"true">>
    BY PageShows DEF Present
  <2>3. CASE w.runways
    <3>1. Submitted(PageForm(w), "runways") /\ PageForm(w)["runways"][1] \in On
      BY <2>1, <2>3 DEF Submitted, On
    <3>2. RunwaysValue(PageForm(w), s.runways) = TRUE
      BY <3>1 DEF RunwaysValue
    <3>3. QED BY <1>1, <2>3, <3>2
  <2>4. CASE ~ w.runways
    <3>1. ~ Submitted(PageForm(w), "runways") /\ Submitted(PageForm(w), "runways_present")
      BY <2>1, <2>2, <2>4 DEF Submitted
    <3>2. RunwaysValue(PageForm(w), s.runways) = FALSE
      BY <3>1 DEF RunwaysValue
    <3>3. QED BY <1>1, <2>4, <3>2
  <2>5. QED BY <2>3, <2>4
<1>4. \A f \in {"range", "day", "start"} : NumberValue(PageForm(w), f, s[f]) = w[f]
  <2>1. \A f \in {"range", "day", "start"} : w[f] \in Numerals
    BY DEF Settings
  <2>2. QED BY <2>1, PageShows, ShowsReads DEF NumberValue, Submitted
<1>5. \A f \in {"low", "high"} : LimitValue(PageForm(w), f, s[f]) = w[f]
  <2>1. ASSUME NEW f \in {"low", "high"} PROVE LimitValue(PageForm(w), f, s[f]) = w[f]
    <3>1. PageForm(w)[f] = ShowsLimit(w[f])
      BY PageShows
    <3>2. CASE w[f] = <<>>
      <4>1. PageForm(w)[f] = <<NoText>>
        BY <3>1, <3>2 DEF ShowsLimit
      <4>2. QED BY <3>2, <4>1 DEF LimitValue, Submitted
    <3>3. CASE w[f] # <<>>
      <4>1. PICK n \in Numerals : w[f] = <<n>>
        BY <3>3 DEF Settings, Limits
      <4>2. PageForm(w)[f] = Shows(n)
        BY <3>1, <3>3, <4>1 DEF ShowsLimit
      <4>3. LimitValue(PageForm(w), f, s[f]) = <<n>>
        BY <4>2, ShowsReads DEF LimitValue, Submitted
      <4>4. QED BY <4>1, <4>3
    <3>4. QED BY <3>2, <3>3
  <2>2. QED BY <2>1
<1>6. PageForm(w)["coordinates"][1] = w.location
  BY PageShows
<1>7. Derive(s, PageForm(w)) =
        [ location |-> w.location, range |-> w.range, runways |-> w.runways,
          callsign |-> w.callsign, time |-> w.time, day |-> w.day, start |-> w.start,
          night |-> w.night, red |-> w.red, low |-> w.low, high |-> w.high ]
  BY <1>2, <1>3, <1>4, <1>5, <1>6 DEF Derive, Boxes
<1>8. Derive(s, PageForm(w)) = w
  BY <1>7 DEF Settings
<1>9. Valid(w)
  BY DEF Settings
<1>10. QED BY <1>8, <1>9, PageIsRead DEF Candidates

\* ... and without its place it is refused.
LEMMA PageWithoutPlace ==
  ASSUME NEW s \in Settings, NEW w \in Settings, w.location = NoText
  PROVE  Candidates(s, PageForm(w)) = {}
<1>1. PageForm(w)["coordinates"][1] = NoText
  BY PageShows
<1>2. NoText \notin Coordinates
  BY FormAssumption
<1>3. QED BY <1>1, <1>2 DEF Candidates, Reads

\* A search result asks for its place, and else for what is in use.
LEMMA ResultAsks ==
  ASSUME NEW s \in Settings, NEW place \in OnEarth
  PROVE  Candidates(s, ResultForm(s, place)) = {[s EXCEPT !.location = place]}
<1> DEFINE form == ResultForm(s, place)
<1>1. /\ form["coordinates"] = <<place>>
      /\ form["range"] = Shows(s.range)
      /\ form["runways"] = IF s.runways THEN <<"true">> ELSE <<"false">>
      /\ \A f \in Fields \ {"coordinates", "range", "runways"} : form[f] = <<>>
  BY DEF ResultForm, NoForm, Fields, Optional
<1> HIDE DEF form
<1>2. s.range \in Numerals
  BY DEF Settings
<1>3. ~ Submitted(form, "unknown") /\ ~ BrightnessSubmitted(form)
  BY <1>1 DEF Submitted, BrightnessSubmitted, BrightnessFields, Fields, Boxes, Optional
<1>4. \A b \in Boxes : ~ Submitted(form, b) /\ ~ Submitted(form, Present[b])
  BY <1>1 DEF Submitted, Fields, Boxes, Optional, Present
<1>5. \A f \in {"day", "start", "low", "high", "runways_present"} : ~ Submitted(form, f)
  BY <1>1 DEF Submitted, Fields, Optional
<1>6. /\ Submitted(form, "coordinates") /\ form["coordinates"][1] = place
      /\ Submitted(form, "range") /\ form["range"][1] \in DOMAIN Number
      /\ Number[form["range"][1]] = s.range
  BY <1>1, <1>2, ShowsReads DEF Submitted
<1>7. /\ Submitted(form, "runways")
      /\ form["runways"][1] = IF s.runways THEN "true" ELSE "false"
  BY <1>1 DEF Submitted
<1>8. ReadOnce(form)
  <2>1. \A f \in Fields : Len(form[f]) <= 1
    <3>1. Len(form["coordinates"]) <= 1
      BY <1>1, OneOrNone
    <3>2. Len(form["range"]) <= 1
      BY <1>1, <1>2, ShowsReads, Zenon
    <3>3. Len(form["runways"]) <= 1
      BY <1>1, OneOrNone
    <3>4. \A f \in Fields \ {"coordinates", "range", "runways"} : Len(form[f]) <= 1
      BY <1>1, OneOrNone
    <3>5. QED BY <3>1, <3>2, <3>3, <3>4
  <2>2. QED BY <2>1 DEF ReadOnce
<1>9. Reads(form)
  <2>1. RunwaysRead(form)
    BY <1>5, <1>7 DEF RunwaysRead, On
  <2>2. NumberReads(form, "range")
    BY <1>6 DEF NumberReads
  <2>3. \A b \in Boxes : BoxReads(form, b)
    BY <1>4 DEF BoxReads
  <2>4. LimitReads(form, "low") /\ LimitReads(form, "high")
    BY <1>5 DEF LimitReads
  <2>5. place \in Coordinates
    BY FormAssumption
  <2>6. QED BY <1>3, <1>6, <1>8, <2>1, <2>2, <2>3, <2>4, <2>5 DEF Reads
<1>10. RunwaysValue(form, s.runways) = s.runways
  <2>1. s.runways \in BOOLEAN
    BY DEF Settings
  <2>2. RunwaysValue(form, s.runways) = (form["runways"][1] \in On)
    BY <1>7 DEF RunwaysValue
  <2>3. (form["runways"][1] \in On) <=> s.runways
    BY <1>7 DEF On
  <2>4. QED BY <2>1, <2>2, <2>3
<1>11. \A b \in Boxes : BoxValue(form, b, s[b]) = s[b]
  BY <1>4 DEF BoxValue
<1>12. \A f \in {"day", "start"} : NumberValue(form, f, s[f]) = s[f]
  BY <1>5 DEF NumberValue
<1>13. \A f \in {"low", "high"} : LimitValue(form, f, s[f]) = s[f]
  BY <1>5 DEF LimitValue
<1>14. NumberValue(form, "range", s.range) = s.range
  BY <1>6 DEF NumberValue
<1>15. Derive(s, form) =
        [ location |-> place, range |-> s.range, runways |-> s.runways,
          callsign |-> s.callsign, time |-> s.time, day |-> s.day, start |-> s.start,
          night |-> s.night, red |-> s.red, low |-> s.low, high |-> s.high ]
  BY <1>6, <1>10, <1>11, <1>12, <1>13, <1>14 DEF Derive, Boxes
<1>16. Derive(s, form) = [s EXCEPT !.location = place]
  BY <1>15 DEF Settings
<1>17. Valid([s EXCEPT !.location = place])
  BY DEF Settings, Valid
<1>18. Candidates(s, form) = {[s EXCEPT !.location = place]}
  BY <1>9, <1>16, <1>17 DEF Candidates
<1>19. QED BY <1>18 DEF form

----
(* Sessions *)

\* A set of serials has a least one.
LEMMA LeastSerial ==
  ASSUME NEW n \in Nat, NEW S \in SUBSET (1 .. n), S # {}
  PROVE  Min(S) \in S /\ \A s \in S : Min(S) <= s
<1> DEFINE R == OpToRel(<, Nat)
<1>1. IsWellFoundedOn(R, Nat)
  BY NatLessThanWellFounded
<1>2. S \subseteq Nat
  OBVIOUS
<1>3. PICK k \in S : \A s \in S : ~ (<<s, k>> \in R)
  <2> HIDE DEF R
  <2> QED BY <1>1, <1>2, WFMin
<1>4. \A s \in S : <<s, k>> \in R <=> s < k
  BY DEF OpToRel
<1>5. \A s \in S : ~ (s < k)
  <2> HIDE DEF R
  <2> QED BY <1>3, <1>4, Zenon
<1>6. \A s \in S : k <= s
  BY <1>2, <1>5
<1>7. \E m \in S : \A s \in S : m <= s
  BY <1>6
<1>8. QED BY <1>7 DEF Min

\* What makes room for a session: it is the oldest, and MaxSessions - 1 others
\* came after it.
LEMMA EvictTakesOldest ==
  ASSUME NEW n \in Nat, NEW live \in SUBSET (1 .. n), Cardinality(live) <= MaxSessions
  PROVE  /\ Evict(live) \subseteq live
         /\ Cardinality(Evict(live)) < MaxSessions
         /\ \A s \in live \ Evict(live) : n + 1 - s >= MaxSessions
<1>1. IsFiniteSet(live) /\ Cardinality(live) \in Nat
  <2>1. IsFiniteSet(1 .. n)
    BY FS_Interval
  <2>2. QED BY <2>1, FS_Subset, FS_CardinalityType
<1>2. CASE Cardinality(live) < MaxSessions
  BY <1>2 DEF Evict
<1>3. CASE ~ (Cardinality(live) < MaxSessions)
  <2>1. Cardinality(live) = MaxSessions /\ Evict(live) = live \ {Min(live)}
    BY <1>1, <1>3, WebAssumption DEF Evict
  <2>2. live # {}
    BY <2>1, FS_EmptySet, WebAssumption
  <2>3. Min(live) \in live /\ \A s \in live : Min(live) <= s
    BY <2>2, LeastSerial
  <2>4. Cardinality(live \ {Min(live)}) = MaxSessions - 1
    BY <1>1, <2>1, <2>3, FS_RemoveElement
  <2>5. live \subseteq Min(live) .. n /\ Min(live) \in Int /\ Min(live) <= n
    <3>1. Min(live) \in 1 .. n
      BY <2>3
    <3> DEFINE m == Min(live)
    <3>2. \A s \in live : s \in 1 .. n /\ m <= s
      BY <2>3
    <3> HIDE DEF m
    <3>3. m \in 1 .. n
      BY <3>1 DEF m
    <3>4. \A s \in live : s \in m .. n
      BY <3>2, <3>3
    <3>5. QED BY <3>3, <3>4 DEF m
  <2>6. /\ IsFiniteSet(Min(live) .. n)
        /\ Cardinality(Min(live) .. n) = n - Min(live) + 1
    BY <2>5, FS_Interval
  <2>7. Cardinality(live) <= n - Min(live) + 1
    BY <2>5, <2>6, FS_Subset
  <2>8. QED BY <2>1, <2>4, <2>5, <2>7, WebAssumption
<1>4. QED BY <1>2, <1>3

\* The sessions that are young enough are bounded as all are.
LEMMA LiveIsBounded ==
  ASSUME SessionInv
  PROVE  Live \in SUBSET (1 .. pages) /\ Cardinality(Live) <= MaxSessions
<1>1. IsFiniteSet(sessions)
  <2>1. IsFiniteSet(1 .. pages) /\ sessions \in SUBSET (1 .. pages)
    BY FS_Interval DEF SessionInv
  <2>2. QED BY <2>1, FS_Subset
<1>2. Cardinality(sessions) \in Nat /\ Cardinality(sessions) <= MaxSessions
  BY <1>1, FS_CardinalityType DEF SessionInv
<1>3. Live \in SUBSET sessions
  BY DEF Live
<1>4. IsFiniteSet(Live) /\ Cardinality(Live) <= Cardinality(sessions)
  BY <1>1, <1>3, FS_Subset
<1>5. Cardinality(Live) \in Nat
  BY <1>4, FS_CardinalityType
<1>6. QED BY <1>2, <1>3, <1>4, <1>5, WebAssumption DEF SessionInv

\* A step that opens no page and closes no browser.
LEMMA SessionsStay ==
  ASSUME SessionInv,
         pages' = pages, booted' = booted, aged' = aged, browser' = browser,
         sessions' \in {sessions, Live},
         \A r \in Callers : request'[r].cookie <= pages /\ request'[r].opened <= pages
  PROVE  SessionInv'
<1>1. sessions' \subseteq sessions /\ sessions \subseteq sessions' \cup aged
  BY DEF Live
<1>2. Cardinality(sessions') <= MaxSessions
  BY LiveIsBounded DEF SessionInv
<1>3. QED BY <1>1, <1>2 DEF SessionInv

----
(* Threads *)

\* A step of one thread, and what the thread must be where it goes.
LEMMA RequestMoves ==
  ASSUME RequestInv, NEW r \in Callers, NEW q,
         q = Fresh \/ (q \in Requests /\ q.at # "idle"),
         q.at \in {"queued", "routing"} \cup Posting => q.status = 0,
         q.at \in Posting => q.input.route \in {"search", "settings"},
         request' = [request EXCEPT ![r] = q],
         q.at # "searching" => search'[r].at = "idle",
         \A d \in Callers \ {r} : search'[d] = search[d],
         settings' \in Settings, traffic' = traffic
  PROVE  /\ RequestInv'
         /\ request'[r] = q
         /\ \A d \in Callers \ {r} : request'[d] = request[d]
<1>1. request = [d \in Callers |-> request[d]]
  BY DEF RequestInv
<1>2. request'[r] = q /\ \A d \in Callers \ {r} : request'[d] = request[d]
  BY <1>1
<1>3. request' = [d \in Callers |-> request'[d]]
  BY <1>1
<1>4. Fresh.at = "idle"
  BY DEF Fresh
<1>5. \A d \in Callers :
        /\ IF request'[d].at = "idle" THEN request'[d] = Fresh ELSE request'[d] \in Requests
        /\ request'[d].at \in {"queued", "routing"} \cup Posting => request'[d].status = 0
        /\ request'[d].at \in Posting => request'[d].input.route \in {"search", "settings"}
        /\ request'[d].at # "searching" => search'[d].at = "idle"
  BY <1>2, <1>4 DEF RequestInv
<1>6. QED BY <1>2, <1>3, <1>5 DEF RequestInv

\* The thread keeps its slot, or has none before and after.
LEMMA SlotsStay ==
  ASSUME SlotInv, NEW r \in Callers,
         \A d \in Callers \ {r} : request'[d] = request[d],
         request'[r].at \in {"idle", "queued"} <=> request[r].at \in {"idle", "queued"},
         slots' = slots
  PROVE  SlotInv'
<1>1. {d \in Callers : Handling(d)}' = {d \in Callers : Handling(d)}
  BY DEF Handling
<1>2. QED BY <1>1 DEF SlotInv

\* A slot is taken.
LEMMA SlotTaken ==
  ASSUME SlotInv, NEW r \in Callers,
         \A d \in Callers \ {r} : request'[d] = request[d],
         request[r].at \in {"idle", "queued"}, request'[r].at \notin {"idle", "queued"},
         slots < MaxInFlight, slots' = slots + 1
  PROVE  SlotInv'
<1> DEFINE H == {d \in Callers : Handling(d)}
<1>1. H' = H \cup {r} /\ r \notin H
  BY DEF Handling
<1>2. IsFiniteSet(H) /\ slots = Cardinality(H)
  BY DEF SlotInv
<1>3. Cardinality(H) \in Nat
  BY <1>2, FS_CardinalityType
<1>4. IsFiniteSet(H') /\ Cardinality(H') = Cardinality(H) + 1
  BY <1>1, <1>2, FS_AddElement
<1>5. slots' = Cardinality(H') /\ slots' <= MaxInFlight
  BY <1>2, <1>3, <1>4, WebAssumption
<1>6. QED BY <1>4, <1>5 DEF SlotInv

\* A slot is given back.
LEMMA SlotFreed ==
  ASSUME SlotInv, NEW r \in Callers,
         \A d \in Callers \ {r} : request'[d] = request[d],
         request[r].at \notin {"idle", "queued"}, request'[r].at \in {"idle", "queued"},
         slots' = slots - 1
  PROVE  SlotInv'
<1> DEFINE H == {d \in Callers : Handling(d)}
<1>1. H' = H \ {r} /\ r \in H
  BY DEF Handling
<1>2. IsFiniteSet(H) /\ slots = Cardinality(H) /\ slots <= MaxInFlight
  BY DEF SlotInv
<1>3. Cardinality(H) \in Nat
  BY <1>2, FS_CardinalityType
<1>4. IsFiniteSet(H') /\ Cardinality(H') = Cardinality(H) - 1
  BY <1>1, <1>2, FS_RemoveElement
<1>5. slots' = Cardinality(H') /\ slots' <= MaxInFlight
  BY <1>2, <1>3, <1>4, WebAssumption
<1>6. QED BY <1>4, <1>5 DEF SlotInv

\* What Answers and Moves do, in the form of RequestMoves.
LEMMA AnswersMoves ==
  ASSUME RequestInv, NEW r \in Callers, request[r].at # "idle",
         NEW status \in Statuses, Answers(r, status)
  PROVE  \E q \in Requests :
           /\ request' = [request EXCEPT ![r] = q]
           /\ q.at = "answering" /\ q.status = status
           /\ q.cookie = request[r].cookie /\ q.opened = request[r].opened
<1> DEFINE q == [request[r] EXCEPT !.at = "answering", !.status = status]
<1>1. request = [d \in Callers |-> request[d]] /\ request[r] \in Requests
  BY DEF RequestInv
<1>2. q \in Requests /\ q.at = "answering" /\ q.status = status
      /\ q.cookie = request[r].cookie /\ q.opened = request[r].opened
  BY <1>1 DEF Requests, Steps
<1>3. request' = [request EXCEPT ![r] = q]
  BY <1>1 DEF Answers
<1>4. QED BY <1>2, <1>3

LEMMA MovesMoves ==
  ASSUME RequestInv, NEW r \in Callers, request[r].at # "idle",
         NEW step \in Steps, Moves(r, step)
  PROVE  \E q \in Requests :
           /\ request' = [request EXCEPT ![r] = q]
           /\ q.at = step /\ q.status = request[r].status /\ q.input = request[r].input
           /\ q.cookie = request[r].cookie /\ q.opened = request[r].opened
<1> DEFINE q == [request[r] EXCEPT !.at = step]
<1>1. request = [d \in Callers |-> request[d]] /\ request[r] \in Requests
  BY DEF RequestInv
<1>2. q \in Requests /\ q.at = step /\ q.status = request[r].status /\ q.input = request[r].input
      /\ q.cookie = request[r].cookie /\ q.opened = request[r].opened
  BY <1>1 DEF Requests
<1>3. request' = [request EXCEPT ![r] = q]
  BY <1>1 DEF Moves
<1>4. QED BY <1>2, <1>3

\* A step of a handler that opens no page: it keeps the slot, and goes on or
\* answers.
LEMMA HandlerMoves ==
  ASSUME IInv, SearchInv', NEW r \in Callers, NEW q \in Requests,
         request[r].at \notin {"idle", "queued"}, q.at \notin {"idle", "queued"},
         q.at \in {"routing"} \cup Posting => q.status = 0,
         q.at \in Posting => q.input.route \in {"search", "settings"},
         q.cookie = request[r].cookie /\ q.opened = request[r].opened,
         request' = [request EXCEPT ![r] = q],
         q.at # "searching" => search'[r].at = "idle",
         \A d \in Callers \ {r} : search'[d] = search[d],
         settings' \in Settings, traffic' = traffic, slots' = slots,
         pages' = pages, booted' = booted, aged' = aged, browser' = browser,
         sessions' \in {sessions, Live}
  PROVE  IInv'
<1>1. RequestInv /\ SlotInv /\ SessionInv
  BY DEF IInv
<1>2. /\ RequestInv'
      /\ request'[r] = q
      /\ \A d \in Callers \ {r} : request'[d] = request[d]
  BY <1>1, RequestMoves
<1>3. SlotInv'
  BY <1>1, <1>2, SlotsStay
<1>4. \A d \in Callers : request'[d].cookie <= pages /\ request'[d].opened <= pages
  BY <1>1, <1>2 DEF SessionInv
<1>5. SessionInv'
  BY <1>1, <1>4, SessionsStay
<1>6. QED BY <1>2, <1>3, <1>5 DEF IInv

----
(* The invariant *)

LEMMA InitHolds == Init => IInv
<1> SUFFICES ASSUME Init PROVE IInv
  OBVIOUS
<1>1. PICK n \in 0 .. MaxPages : n <= MaxSessions /\ Sends[traffic].open = 1 .. n
  BY SendsAssumption DEF Init
<1>2. /\ Sends[traffic].files \subseteq Files /\ Sends[traffic].settings \subseteq Settings
      /\ traffic \in Traffics
  BY SendsAssumption DEF Init
<1>3. n \in Nat /\ sessions = 1 .. n
  BY <1>1, WebAssumption DEF Init
<1>4. Cardinality(1 .. n) = n
  BY <1>3, FS_Interval
<1>5. SearchInv
  BY <1>2, GeocoderAssumption
     DEF Init, GeocoderInit, SearchInv, GeocoderTypeOK, SearchSteps, Files, Holding, Asking
<1>6. RequestInv
  BY <1>2 DEF Init, GeocoderInit, RequestInv, Fresh, Posting
<1>7. SlotInv
  <2>1. {r \in Callers : Handling(r)} = {}
    BY DEF Init, Handling, Fresh
  <2>2. QED BY <2>1, FS_EmptySet, WebAssumption DEF Init, SlotInv
<1>8. SessionInv
  <2>1. pages = n /\ booted = 0 /\ aged = {}
    BY <1>3, <1>4 DEF Init
  <2>2. \A r \in Callers : request[r].cookie = 0 /\ request[r].opened = 0
    BY DEF Init, Fresh, NoPage
  <2>3. browser = [b \in Browsers |-> [cookie |-> n, tabs |-> 1 .. n]]
    BY <1>3, <2>1 DEF Init
  <2>4. QED BY <1>1, <1>3, <1>4, <2>1, <2>2, <2>3 DEF SessionInv
<1>9. QED BY <1>5, <1>6, <1>7, <1>8 DEF IInv

\* A browser sends with what it keeps.
LEMMA SendKeeps ==
  ASSUME IInv, NEW r \in Callers, Send(r)
  PROVE  IInv'
<1>1. PICK b \in Browsers, input \in Inputs, csrf \in Nat :
        request' = [request EXCEPT ![r] = Asked(b, input, csrf)]
  <2>1. traffic \in Traffics /\ Sends[traffic].inputs \subseteq Inputs
    BY SendsAssumption DEF IInv, RequestInv
  <2>2. \A b \in Browsers : browser[b].tabs \subseteq Nat
    BY DEF IInv, SessionInv
  <2>3. PICK b \in Browsers, input \in Sends[traffic].inputs :
          \E csrf \in IF input.tokens = 0 THEN {NoPage} ELSE browser[b].tabs :
            request' = [request EXCEPT ![r] = Asked(b, input, csrf)]
    BY DEF Send
  <2>4. (IF input.tokens = 0 THEN {NoPage} ELSE browser[b].tabs) \subseteq Nat
    BY <2>2 DEF NoPage
  <2>5. QED BY <2>1, <2>3, <2>4
<1> DEFINE q == Asked(b, input, csrf)
<1>2. request' = [request EXCEPT ![r] = q]
  BY <1>1
<1>3. browser[b].cookie \in Nat /\ browser[b].cookie <= pages
  BY DEF IInv, SessionInv
<1>4. q \in Requests /\ q.at = "queued" /\ q.status = 0 /\ q.cookie = browser[b].cookie
      /\ q.opened = 0
  <2>1. "queued" \in Steps /\ 0 \in Statuses /\ NoPage = 0
    BY DEF Steps, Statuses, NoPage
  <2>2. {b} \in SUBSET Browsers /\ {} \in SUBSET Settings
    OBVIOUS
  <2>3. QED BY <1>3, <2>1, <2>2 DEF Requests, Asked
<1>5. request[r].at = "idle" /\ search' = search /\ search[r].at = "idle"
  BY DEF Send, Is, IInv, RequestInv, geocoderVars
<1>6. slots' = slots /\ settings' = settings /\ traffic' = traffic
  BY DEF Send, Elsewhere
<1>7. /\ RequestInv'
      /\ request'[r] = q
      /\ \A d \in Callers \ {r} : request'[d] = request[d]
  BY <1>2, <1>4, <1>5, <1>6, RequestMoves DEF IInv, RequestInv, Posting
<1>8. SlotInv'
  BY <1>4, <1>5, <1>6, <1>7, SlotsStay DEF IInv
<1>9. SessionInv'
  <2>1. pages \in Nat
    BY DEF IInv, SessionInv
  <2>2. \A d \in Callers : request'[d].cookie <= pages /\ request'[d].opened <= pages
    BY <1>3, <1>4, <1>7, <2>1 DEF IInv, SessionInv
  <2>3. SessionInv
    BY DEF IInv
  <2>4. QED BY <2>2, <2>3, SessionsStay DEF Send, Elsewhere
<1>10. SearchInv'
  BY DEF IInv, SearchInv, GeocoderTypeOK, Send, geocoderVars
<1>11. QED BY <1>7, <1>8, <1>9, <1>10 DEF IInv

\* The geocoder is left alone.
LEMMA SearchStays ==
  ASSUME SearchInv, UNCHANGED geocoderVars
  PROVE  SearchInv' /\ search' = search
BY DEF SearchInv, GeocoderTypeOK, geocoderVars

\* The main thread starts a thread ...
LEMMA AcceptKeeps ==
  ASSUME IInv, NEW r \in Callers, Accept(r)
  PROVE  IInv'
<1>1. RequestInv /\ SlotInv /\ SessionInv /\ SearchInv
  BY DEF IInv
<1>2. request[r].at = "queued" /\ request[r].status = 0 /\ search[r].at = "idle"
  BY <1>1 DEF Accept, Is, RequestInv
<1>3. "routing" \in Steps
  BY DEF Steps
<1>4. PICK q \in Requests :
        /\ request' = [request EXCEPT ![r] = q]
        /\ q.at = "routing" /\ q.status = request[r].status
        /\ q.cookie = request[r].cookie /\ q.opened = request[r].opened
  BY <1>1, <1>2, <1>3, MovesMoves DEF Accept
<1>5. SearchInv' /\ search' = search
  BY <1>1, SearchStays DEF Accept
<1>6. /\ RequestInv'
      /\ request'[r] = q
      /\ \A d \in Callers \ {r} : request'[d] = request[d]
  BY <1>1, <1>2, <1>4, <1>5, RequestMoves DEF RequestInv, Accept, Elsewhere, Posting
<1>7. SlotInv'
  BY <1>1, <1>2, <1>4, <1>6, SlotTaken DEF Accept
<1>8. \A d \in Callers : request'[d].cookie <= pages /\ request'[d].opened <= pages
  BY <1>1, <1>4, <1>6 DEF SessionInv
<1>9. SessionInv'
  BY <1>1, <1>8, SessionsStay DEF Accept, Elsewhere
<1>10. QED BY <1>5, <1>6, <1>7, <1>9 DEF IInv

\* A request that is over leaves nothing behind.
LEMMA FreshIsFree ==
  /\ Fresh.at = "idle" /\ Fresh.cookie = 0 /\ Fresh.opened = 0
BY DEF Fresh, NoPage

\* ... or refuses the request.
LEMMA RefuseKeeps ==
  ASSUME IInv, NEW r \in Callers, Refuse(r)
  PROVE  IInv'
<1>1. RequestInv /\ SlotInv /\ SessionInv /\ SearchInv
  BY DEF IInv
<1>2. request[r].at = "queued" /\ search[r].at = "idle"
  BY <1>1 DEF Refuse, Is, RequestInv
<1>3. request' = [request EXCEPT ![r] = Fresh]
  BY DEF Refuse
<1>4. SearchInv' /\ search' = search
  BY <1>1, SearchStays DEF Refuse
<1>5. /\ RequestInv'
      /\ request'[r] = Fresh
      /\ \A d \in Callers \ {r} : request'[d] = request[d]
  BY <1>1, <1>2, <1>3, <1>4, FreshIsFree, RequestMoves DEF RequestInv, Refuse, Elsewhere, Posting
<1>6. SlotInv'
  BY <1>1, <1>2, <1>5, FreshIsFree, SlotsStay DEF Refuse
<1>7. pages \in Nat
  BY <1>1 DEF SessionInv
<1>8. \A d \in Callers : request'[d].cookie <= pages /\ request'[d].opened <= pages
  BY <1>1, <1>5, <1>7, FreshIsFree DEF SessionInv
<1>9. SessionInv'
  BY <1>1, <1>8, SessionsStay DEF Refuse, Elsewhere
<1>10. QED BY <1>4, <1>5, <1>6, <1>9 DEF IInv

\* A page is opened: the session it begins is there, and the one that made
\* room for it is MaxSessions behind.
LEMMA OpenPageKeeps ==
  ASSUME IInv, NEW r \in Callers, request[r].at = "routing", OpenPage(r),
         UNCHANGED <<geocoderVars, slots, booted, aged, browser, settings, traffic>>
  PROVE  IInv'
<1>1. RequestInv /\ SlotInv /\ SessionInv /\ SearchInv
  BY DEF IInv
<1>2. request[r] \in Requests /\ search[r].at = "idle"
  BY <1>1 DEF RequestInv
<1>3. pages \in Nat /\ pages' = pages + 1
  BY <1>1 DEF SessionInv, OpenPage
<1> DEFINE q == [request[r] EXCEPT !.at = "answering", !.status = 200, !.opened = pages + 1]
<1>4. /\ q \in Requests /\ q.at = "answering"
      /\ q.cookie = request[r].cookie /\ q.opened = pages + 1
  <2>1. pages + 1 \in Nat /\ "answering" \in Steps /\ 200 \in Statuses
    BY <1>3 DEF Steps, Statuses
  <2>2. request[r] \in Requests
    BY <1>2
  <2>3. q \in Requests
    BY <2>1, <2>2 DEF Requests
  <2>4. q.at = "answering" /\ q.opened = pages + 1 /\ q.cookie = request[r].cookie
    BY <2>2 DEF Requests
  <2>5. QED BY <2>3, <2>4
<1>5. request' = [request EXCEPT ![r] = q]
  BY <1>1 DEF OpenPage, RequestInv
<1> HIDE DEF q
<1>6. SearchInv' /\ search' = search
  BY <1>1, SearchStays
<1>7. /\ RequestInv'
      /\ request'[r] = q
      /\ \A d \in Callers \ {r} : request'[d] = request[d]
  BY <1>1, <1>2, <1>4, <1>5, <1>6, RequestMoves DEF RequestInv, Posting
<1>8. SlotInv'
  BY <1>1, <1>4, <1>7, SlotsStay
<1>9. SessionInv'
  <2>1. Live \in SUBSET (1 .. pages) /\ Cardinality(Live) <= MaxSessions
    BY <1>1, LiveIsBounded
  <2>2. /\ Evict(Live) \subseteq Live
        /\ Cardinality(Evict(Live)) < MaxSessions
        /\ \A s \in Live \ Evict(Live) : pages + 1 - s >= MaxSessions
    BY <1>3, <2>1, EvictTakesOldest
  <2>3. sessions' = Evict(Live) \cup {pages + 1}
    BY DEF OpenPage
  <2>4. sessions' \subseteq 1 .. pages'
    <3>1. \A s \in Evict(Live) : s \in 1 .. pages
      BY <2>1, <2>2
    <3>2. \A s \in sessions' : s \in 1 .. pages + 1
      BY <1>3, <2>3, <3>1
    <3>3. QED BY <1>3, <3>2
  <2>5. Cardinality(sessions') <= MaxSessions
    <3>1. IsFiniteSet(1 .. pages)
      BY <1>3, FS_Interval
    <3>2. Evict(Live) \in SUBSET (1 .. pages)
      BY <2>1, <2>2
    <3>3. IsFiniteSet(Evict(Live)) /\ Cardinality(Evict(Live)) \in Nat
      BY <3>1, <3>2, FS_Subset, FS_CardinalityType
    <3>4. pages + 1 \notin Evict(Live)
      BY <1>3, <3>2
    <3>5. Cardinality(Evict(Live) \cup {pages + 1}) = Cardinality(Evict(Live)) + 1
      BY <3>3, <3>4, FS_AddElement
    <3>6. QED BY <2>2, <2>3, <3>3, <3>5, WebAssumption
  <2>6. ASSUME NEW s \in booted' + 1 .. pages'
        PROVE  s \in sessions' \cup aged' \/ pages' - s >= MaxSessions
    <3>1. CASE s = pages + 1
      BY <2>3, <3>1
    <3>2. CASE s # pages + 1
      <4>1. s \in booted + 1 .. pages /\ s \in Int
        BY <1>1, <1>3, <3>2 DEF SessionInv
      <4>2. CASE pages - s >= MaxSessions
        BY <1>3, <4>1, <4>2, WebAssumption
      <4>3. CASE s \in Live
        BY <1>3, <2>2, <2>3, <4>3
      <4>4. CASE s \in aged
        BY <4>4
      <4>5. QED BY <1>1, <4>1, <4>2, <4>3, <4>4 DEF SessionInv, Live
    <3>3. QED BY <3>1, <3>2
  <2>7. browser' \in [Browsers -> [cookie : 0 .. pages', tabs : SUBSET (1 .. pages')]]
    <3>1. 0 .. pages \subseteq 0 .. pages' /\ 1 .. pages \subseteq 1 .. pages'
      BY <1>3
    <3>2. browser' = browser
          /\ browser \in [Browsers -> [cookie : 0 .. pages, tabs : SUBSET (1 .. pages)]]
      BY <1>1 DEF SessionInv
    <3>3. QED BY <3>1, <3>2
  <2>8. \A d \in Callers : request'[d].cookie <= pages' /\ request'[d].opened <= pages'
    <3>1. \A d \in Callers : request[d].cookie <= pages /\ request[d].opened <= pages
      BY <1>1 DEF SessionInv
    <3>2. \A d \in Callers : request[d].cookie \in Nat /\ request[d].opened \in Nat
      BY <1>1, FreshIsFree DEF RequestInv, Requests
    <3>3. QED BY <1>3, <1>4, <1>7, <3>1, <3>2
  <2>9. pages' \in Nat /\ booted' \in 0 .. pages'
    BY <1>1, <1>3 DEF SessionInv
  <2>10. QED BY <2>4, <2>5, <2>6, <2>7, <2>8, <2>9 DEF SessionInv
<1>10. QED BY <1>6, <1>7, <1>8, <1>9 DEF IInv

\* A handler that answers and touches nothing else.
LEMMA AnswersKeep ==
  ASSUME IInv, NEW r \in Callers, request[r].at \notin {"idle", "queued"},
         NEW status \in Statuses, Answers(r, status),
         SearchInv', search'[r].at = "idle", \A d \in Callers \ {r} : search'[d] = search[d],
         settings' \in Settings, sessions' \in {sessions, Live},
         UNCHANGED <<slots, pages, booted, aged, browser, traffic>>
  PROVE  IInv'
<1>1. PICK q \in Requests :
        /\ request' = [request EXCEPT ![r] = q]
        /\ q.at = "answering" /\ q.status = status
        /\ q.cookie = request[r].cookie /\ q.opened = request[r].opened
  BY AnswersMoves DEF IInv
<1>2. QED BY <1>1, HandlerMoves DEF Posting

\* route
LEMMA RouteKeeps ==
  ASSUME IInv, NEW r \in Callers, Route(r)
  PROVE  IInv'
<1>1. SearchInv' /\ search' = search
  BY SearchStays DEF IInv, Route
<1>2. request[r].at = "routing" /\ request[r].status = 0 /\ search[r].at = "idle"
  BY DEF IInv, RequestInv, Route, Is
<1>3. settings' = settings /\ settings \in Settings
      /\ UNCHANGED <<slots, booted, aged, browser, settings, traffic>>
  BY DEF IInv, RequestInv, Route
<1>4. CASE \E status \in {200, 403, 404} : Answers(r, status) /\ UNCHANGED <<sessions, pages>>
  <2>1. {200, 403, 404} \subseteq Statuses
    BY DEF Statuses
  <2>2. QED BY <1>1, <1>2, <1>3, <1>4, <2>1, AnswersKeep
<1>5. CASE OpenPage(r)
  BY <1>2, <1>5, OpenPageKeeps DEF Route
<1>6. CASE /\ Moves(r, "checking") /\ UNCHANGED <<sessions, pages>>
           /\ Input(r).route \in {"search", "settings"}
  <2>1. "checking" \in Steps
    BY DEF Steps
  <2>2. PICK q \in Requests :
          /\ request' = [request EXCEPT ![r] = q]
          /\ q.at = "checking" /\ q.status = request[r].status /\ q.input = request[r].input
          /\ q.cookie = request[r].cookie /\ q.opened = request[r].opened
    BY <1>2, <1>6, <2>1, MovesMoves DEF IInv
  <2>3. QED BY <1>1, <1>2, <1>3, <1>6, <2>2, HandlerMoves DEF Input, Posting
<1>7. \/ \E status \in {200, 403, 404} : Answers(r, status) /\ UNCHANGED <<sessions, pages>>
      \/ OpenPage(r)
      \/ /\ Moves(r, "checking") /\ UNCHANGED <<sessions, pages>>
         /\ Input(r).route \in {"search", "settings"}
  <2>1. Input(r) \in Inputs
    BY <1>2 DEF Input, IInv, RequestInv, Requests
  <2>2. Input(r).route \in Routes
    BY <2>1 DEF Inputs
  <2>3. CASE Input(r).route = "other" \/ ~ KnownHost(Input(r))
    BY <2>3 DEF Route
  <2>4. CASE Input(r).route # "other" /\ KnownHost(Input(r))
    <3>1. CASE Input(r).route = "page"
      BY <2>4, <3>1 DEF Route
    <3>2. CASE Input(r).route = "health"
      BY <2>4, <3>2 DEF Route
    <3>3. CASE Input(r).route \in {"search", "settings"}
      BY <2>4, <3>3 DEF Route
    <3>4. QED BY <2>2, <2>4, <3>1, <3>2, <3>3 DEF Routes
  <2>5. QED BY <2>3, <2>4
<1>8. QED BY <1>4, <1>5, <1>6, <1>7

\* The headers are checked, and the body is received or not.
LEMMA CheckKeeps ==
  ASSUME IInv, NEW r \in Callers, Check(r) \/ Receive(r)
  PROVE  IInv'
<1>1. SearchInv' /\ search' = search
  BY SearchStays DEF IInv, Check, Receive
<1>2. /\ request[r].at \in {"checking", "reading"} /\ request[r].at \in Posting
      /\ request[r].status = 0 /\ search[r].at = "idle"
      /\ request[r].input.route \in {"search", "settings"}
  BY DEF Check, Receive, Is, IInv, RequestInv, Posting
<1>3. /\ settings' \in Settings /\ sessions' = sessions
      /\ UNCHANGED <<slots, pages, booted, aged, browser, traffic>>
  BY DEF Check, Receive, Elsewhere, IInv, RequestInv
<1>4. \/ \E status \in {413, 415, 500} : Answers(r, status)
      \/ \E step \in {"reading", "validating"} : Moves(r, step)
  <2>1. Input(r) \in Inputs
    BY <1>2 DEF IInv, RequestInv, Requests, Input
  <2>2. Input(r).body \in {"fits", "declared", "sent"} /\ Input(r).urlencoded \in BOOLEAN
    BY <2>1 DEF Inputs
  <2>3. CASE Check(r)
    <3>1. Answers(r, 413) \/ Answers(r, 415) \/ Moves(r, "reading")
      BY <2>2, <2>3 DEF Check
    <3>2. QED BY <3>1
  <2>4. CASE Receive(r)
    <3>1. Answers(r, 413) \/ Answers(r, 500) \/ Moves(r, "validating")
      BY <2>4 DEF Receive
    <3>2. QED BY <3>1
  <2>5. QED BY <2>3, <2>4
<1>5. CASE \E status \in {413, 415, 500} : Answers(r, status)
  <2>1. {413, 415, 500} \subseteq Statuses
    BY DEF Statuses
  <2>2. QED BY <1>1, <1>2, <1>3, <1>5, <2>1, AnswersKeep
<1>6. CASE \E step \in {"reading", "validating"} : Moves(r, step)
  <2>1. PICK step \in {"reading", "validating"} : Moves(r, step)
    BY <1>6
  <2>2. step \in Steps /\ step \in Posting /\ step \notin {"idle", "queued", "searching"}
    BY DEF Steps, Posting
  <2>3. PICK q \in Requests :
          /\ request' = [request EXCEPT ![r] = q]
          /\ q.at = step /\ q.status = request[r].status /\ q.input = request[r].input
          /\ q.cookie = request[r].cookie /\ q.opened = request[r].opened
    BY <1>2, <2>1, <2>2, MovesMoves DEF IInv
  <2>4. QED BY <1>1, <1>2, <1>3, <2>2, <2>3, HandlerMoves
<1>7. QED BY <1>4, <1>5, <1>6

\* What the rest of mutation comes to, and when it says 403.
LEMMA ValidateOutcomes ==
  ASSUME RequestInv, NEW r \in Callers, Validate(r)
  PROVE  \/ /\ \E status \in {400, 403} :
                 /\ Answers(r, status)
                 /\ status = 403 => \/ Input(r).tokens # 1 \/ request[r].cookie = NoPage
                                    \/ ~ KnownProvenance(Input(r)) \/ ~ SessionMatches(r)
            /\ UNCHANGED geocoderVars /\ sessions' \in {sessions, Live}
         \/ Moves(r, "deriving") /\ UNCHANGED geocoderVars /\ sessions' = Live
         \/ /\ Moves(r, "searching") /\ sessions' = Live
            /\ \E query \in Queries \cup {Blank} : Ask(r, query)
<1>1. Input(r) \in Inputs
  BY DEF Validate, Is, RequestInv, Requests, Input
<1>2. Input(r).query \in Seq(Queries \cup {Blank})
  BY <1>1 DEF Inputs
<1>3. CASE IF Input(r).tokens # 1 \/ request[r].cookie = NoPage \/ ~KnownProvenance(Input(r))
           THEN Answers(r, 403) /\ UNCHANGED <<geocoderVars, sessions>>
           ELSE /\ sessions' = Live
                /\ IF SessionMatches(r) THEN Admitted(r)
                   ELSE Answers(r, 403) /\ UNCHANGED geocoderVars
  <2>1. CASE Input(r).tokens # 1 \/ request[r].cookie = NoPage \/ ~KnownProvenance(Input(r))
    BY <1>3, <2>1
  <2>2. CASE /\ ~ (Input(r).tokens # 1 \/ request[r].cookie = NoPage
                     \/ ~KnownProvenance(Input(r)))
             /\ ~ SessionMatches(r)
    BY <1>3, <2>2
  <2>3. CASE /\ ~ (Input(r).tokens # 1 \/ request[r].cookie = NoPage
                     \/ ~KnownProvenance(Input(r)))
             /\ SessionMatches(r)
    <3>1. sessions' = Live /\ Admitted(r)
      BY <1>3, <2>3
    <3>2. Input(r).route \in {"settings", "search"}
      BY DEF Validate, Is, RequestInv, Input, Posting
    <3>3. CASE Input(r).route = "settings"
      BY <3>1, <3>3 DEF Admitted
    <3>4. CASE Input(r).route = "search"
      <4>1. CASE Len(Input(r).query) # 1
        <5>1. Answers(r, 400) /\ UNCHANGED geocoderVars
          BY <3>1, <3>4, <4>1 DEF Admitted
        <5>2. QED BY <3>1, <5>1
      <4>2. CASE Len(Input(r).query) = 1
        <5>1. Moves(r, "searching") /\ Ask(r, Input(r).query[1])
          BY <3>1, <3>4, <4>2 DEF Admitted
        <5>2. Input(r).query[1] \in Queries \cup {Blank}
          BY <1>2, <4>2
        <5>3. QED BY <3>1, <5>1, <5>2
      <4>3. QED BY <4>1, <4>2
    <3>5. QED BY <3>2, <3>3, <3>4
  <2>4. QED BY <2>1, <2>2, <2>3
<1>4. QED BY <1>3 DEF Validate

\* Asking for a search moves the one thread that asks.
LEMMA AskMoves ==
  ASSUME SearchInv, NEW c \in Callers, NEW query, Ask(c, query)
  PROVE  \A d \in Callers \ {c} : search'[d] = search[d]
BY DEF Ask, SearchInv, GeocoderTypeOK

\* token, cookie, provenance and session
LEMMA ValidateKeeps ==
  ASSUME IInv, NEW r \in Callers, Validate(r)
  PROVE  IInv'
<1>1. RequestInv /\ SearchInv
  BY DEF IInv
<1>2. request[r].at = "validating" /\ request[r].status = 0 /\ search[r].at = "idle"
  BY <1>1 DEF Validate, Is, RequestInv, Posting
<1>3. settings' = settings /\ settings \in Settings
      /\ UNCHANGED <<slots, pages, booted, aged, browser, traffic>>
  BY <1>1 DEF RequestInv, Validate
<1>4. CASE /\ \E status \in {400, 403} : Answers(r, status)
           /\ UNCHANGED geocoderVars /\ sessions' \in {sessions, Live}
  <2>1. {400, 403} \subseteq Statuses
    BY DEF Statuses
  <2>2. SearchInv' /\ search' = search
    BY <1>1, <1>4, SearchStays
  <2>3. QED BY <1>2, <1>3, <1>4, <2>1, <2>2, AnswersKeep
<1>5. CASE Moves(r, "deriving") /\ UNCHANGED geocoderVars /\ sessions' = Live
  <2>1. "deriving" \in Steps
    BY DEF Steps
  <2>2. PICK q \in Requests :
          /\ request' = [request EXCEPT ![r] = q]
          /\ q.at = "deriving" /\ q.status = request[r].status /\ q.input = request[r].input
          /\ q.cookie = request[r].cookie /\ q.opened = request[r].opened
    BY <1>1, <1>2, <1>5, <2>1, MovesMoves
  <2>3. SearchInv' /\ search' = search
    BY <1>1, <1>5, SearchStays
  <2>4. QED BY <1>2, <1>3, <1>5, <2>2, <2>3, HandlerMoves DEF Posting
<1>6. CASE /\ Moves(r, "searching") /\ sessions' = Live
           /\ \E query \in Queries \cup {Blank} : Ask(r, query)
  <2>1. "searching" \in Steps
    BY DEF Steps
  <2>2. PICK q \in Requests :
          /\ request' = [request EXCEPT ![r] = q]
          /\ q.at = "searching" /\ q.status = request[r].status /\ q.input = request[r].input
          /\ q.cookie = request[r].cookie /\ q.opened = request[r].opened
    BY <1>1, <1>2, <1>6, <2>1, MovesMoves
  <2>3. SearchInv' /\ \A d \in Callers \ {r} : search'[d] = search[d]
    BY <1>1, <1>6, AskKeeps, AskMoves
  <2>4. QED BY <1>2, <1>3, <1>6, <2>2, <2>3, HandlerMoves DEF Posting
<1>7. QED BY <1>1, <1>4, <1>5, <1>6, ValidateOutcomes

\* search is over.
LEMMA SearchDoneKeeps ==
  ASSUME IInv, NEW r \in Callers, SearchDone(r)
  PROVE  IInv'
<1>1. SearchInv'
  BY LeaveKeeps DEF IInv, SearchDone
<1>2. search'[r].at = "idle" /\ \A d \in Callers \ {r} : search'[d] = search[d]
  BY DEF SearchDone, Leave, IInv, SearchInv, GeocoderTypeOK
<1>3. request[r].at = "searching" /\ Answers(r, 200) /\ 200 \in Statuses
  BY DEF SearchDone, Is, Statuses
<1>4. /\ settings' \in Settings /\ sessions' = sessions
      /\ UNCHANGED <<slots, pages, booted, aged, browser, traffic>>
  BY DEF SearchDone, Elsewhere, IInv, RequestInv
<1>5. QED BY <1>1, <1>2, <1>3, <1>4, AnswersKeep

\* A candidate is derived from the settings in use.
LEMMA DeriveKeeps ==
  ASSUME IInv, NEW r \in Callers, DeriveCandidate(r)
  PROVE  IInv'
<1>1. RequestInv /\ SearchInv
  BY DEF IInv
<1>2. SearchInv' /\ search' = search
  BY <1>1, SearchStays DEF DeriveCandidate
<1>3. request[r].at = "deriving" /\ search[r].at = "idle" /\ request[r] \in Requests
  BY <1>1 DEF DeriveCandidate, Is, RequestInv
<1>4. /\ settings' = settings /\ settings \in Settings /\ sessions' = sessions
      /\ UNCHANGED <<slots, pages, booted, aged, browser, traffic>>
  BY <1>1 DEF DeriveCandidate, Elsewhere, RequestInv
<1>5. CASE Answers(r, 400)
  <2>1. 400 \in Statuses
    BY DEF Statuses
  <2>2. QED BY <1>2, <1>3, <1>4, <1>5, <2>1, AnswersKeep
<1>6. CASE request' = [request EXCEPT ![r].at = "committing", ![r].base = {settings}]
  <2> DEFINE q == [request[r] EXCEPT !.at = "committing", !.base = {settings}]
  <2>1. "committing" \in Steps /\ {settings} \in SUBSET Settings
    BY <1>4 DEF Steps
  <2>2. q \in Requests
    BY <1>3, <2>1 DEF Requests
  <2>3. q.at = "committing" /\ q.cookie = request[r].cookie /\ q.opened = request[r].opened
    BY <1>3 DEF Requests
  <2>4. request' = [request EXCEPT ![r] = q]
    BY <1>1, <1>6 DEF RequestInv
  <2> HIDE DEF q
  <2>5. QED BY <1>2, <1>3, <1>4, <2>2, <2>3, <2>4, HandlerMoves DEF Posting
<1>7. QED BY <1>5, <1>6 DEF DeriveCandidate

\* ... and saved, or not.
LEMMA CommitKeeps ==
  ASSUME IInv, NEW r \in Callers, Commit(r)
  PROVE  IInv'
<1>1. RequestInv /\ SearchInv
  BY DEF IInv
<1>2. SearchInv' /\ search' = search
  BY <1>1, SearchStays DEF Commit
<1>3. request[r].at = "committing" /\ search[r].at = "idle" /\ request[r] \in Requests
  BY <1>1 DEF Commit, Is, RequestInv
<1>4. settings' \in Settings
  <2>1. Input(r).form \in [Fields -> Seq(STRING)] /\ request[r].base \subseteq Settings
    BY <1>3 DEF Requests, Inputs, Input
  <2>2. \A base \in request[r].base : Candidates(base, Input(r).form) \subseteq Settings
    BY <2>1, CandidatesAreSettings
  <2>3. QED BY <1>1, <2>2 DEF Commit, RequestInv
<1>5. \E status \in Statuses : Answers(r, status)
  BY DEF Commit, Statuses
<1>6. UNCHANGED <<slots, sessions, pages, booted, aged, browser, traffic>>
  BY DEF Commit
<1>7. QED BY <1>2, <1>3, <1>4, <1>5, <1>6, AnswersKeep

\* The answer reaches the browser, or not.
LEMMA RespondKeeps ==
  ASSUME IInv, NEW r \in Callers, Respond(r)
  PROVE  IInv'
<1>1. RequestInv /\ SlotInv /\ SessionInv /\ SearchInv
  BY DEF IInv
<1>2. SearchInv' /\ search' = search
  BY <1>1, SearchStays DEF Respond
<1>3. request[r].at = "answering" /\ search[r].at = "idle" /\ request[r] \in Requests
  BY <1>1 DEF Respond, Is, RequestInv
<1>4. "returning" \in Steps
  BY DEF Steps
<1>5. PICK q \in Requests :
        /\ request' = [request EXCEPT ![r] = q]
        /\ q.at = "returning" /\ q.status = request[r].status /\ q.input = request[r].input
        /\ q.cookie = request[r].cookie /\ q.opened = request[r].opened
  BY <1>1, <1>3, <1>4, MovesMoves DEF Respond
<1>6. /\ RequestInv'
      /\ request'[r] = q
      /\ \A d \in Callers \ {r} : request'[d] = request[d]
  BY <1>1, <1>2, <1>3, <1>5, RequestMoves DEF RequestInv, Respond, Posting
<1>7. SlotInv'
  BY <1>1, <1>3, <1>5, <1>6, SlotsStay DEF Respond
<1>8. browser' \in [Browsers -> [cookie : 0 .. pages, tabs : SUBSET (1 .. pages)]]
  <2>1. pages \in Nat
        /\ browser \in [Browsers -> [cookie : 0 .. pages, tabs : SUBSET (1 .. pages)]]
    BY <1>1 DEF SessionInv
  <2>2. CASE browser' = browser
    BY <2>1, <2>2
  <2>3. CASE /\ request[r].opened # NoPage
             /\ \E b \in request[r].from :
                  browser' = [browser EXCEPT ![b].cookie = request[r].opened,
                                             ![b].tabs = @ \cup {request[r].opened}]
    <3> DEFINE page == request[r].opened
    <3>1. page \in 1 .. pages /\ page \in 0 .. pages
      BY <1>1, <1>3, <2>1, <2>3 DEF SessionInv, Requests, NoPage
    <3> HIDE DEF page
    <3>2. PICK b \in Browsers :
            browser' = [browser EXCEPT ![b].cookie = page, ![b].tabs = @ \cup {page}]
      BY <1>3, <2>3 DEF Requests, page
    <3>3. browser[b] \in [cookie : 0 .. pages, tabs : SUBSET (1 .. pages)]
      BY <2>1
    <3>4. [browser[b] EXCEPT !.cookie = page, !.tabs = @ \cup {page}] \in
            [cookie : 0 .. pages, tabs : SUBSET (1 .. pages)]
      BY <3>1, <3>3
    <3>5. browser' = [browser EXCEPT ![b] =
                        [browser[b] EXCEPT !.cookie = page, !.tabs = @ \cup {page}]]
      BY <2>1, <3>2
    <3>6. QED BY <2>1, <3>4, <3>5
  <2>4. QED BY <2>2, <2>3 DEF Respond
<1>9. \A d \in Callers : request'[d].cookie <= pages /\ request'[d].opened <= pages
  BY <1>1, <1>5, <1>6 DEF SessionInv
<1>10. SessionInv'
  BY <1>1, <1>8, <1>9 DEF SessionInv, Respond
<1>11. QED BY <1>2, <1>6, <1>7, <1>10 DEF IInv

\* The thread ends.
LEMMA ReturnKeeps ==
  ASSUME IInv, NEW r \in Callers, Return(r)
  PROVE  IInv'
<1>1. RequestInv /\ SlotInv /\ SessionInv /\ SearchInv
  BY DEF IInv
<1>2. request[r].at = "returning" /\ search[r].at = "idle"
  BY <1>1 DEF Return, Is, RequestInv
<1>3. request' = [request EXCEPT ![r] = Fresh]
  BY DEF Return
<1>4. SearchInv' /\ search' = search
  BY <1>1, SearchStays DEF Return
<1>5. /\ RequestInv'
      /\ request'[r] = Fresh
      /\ \A d \in Callers \ {r} : request'[d] = request[d]
  BY <1>1, <1>2, <1>3, <1>4, FreshIsFree, RequestMoves DEF RequestInv, Return, Elsewhere, Posting
<1>6. SlotInv'
  BY <1>1, <1>2, <1>5, FreshIsFree, SlotFreed DEF Return
<1>7. pages \in Nat
  BY <1>1 DEF SessionInv
<1>8. \A d \in Callers : request'[d].cookie <= pages /\ request'[d].opened <= pages
  BY <1>1, <1>5, <1>7, FreshIsFree DEF SessionInv
<1>9. SessionInv'
  BY <1>1, <1>8, SessionsStay DEF Return, Elsewhere
<1>10. QED BY <1>4, <1>5, <1>6, <1>9 DEF IInv

\* A step in the geocoder moves one search, which is under way.
LEMMA SearchStepMoves ==
  ASSUME SearchInv, NEW c \in Callers, SearchStep(c)
  PROVE  /\ search[c].at # "idle"
         /\ \A d \in Callers \ {c} : search'[d] = search[d]
BY DEF SearchStep, Lock, LookUp, Limit, Throttle, Answer, Save, Goes, Fails, Finds, At,
       SearchInv, GeocoderTypeOK

\* What a step leaves alone keeps its part of the invariant.
LEMMA ServerStays ==
  ASSUME RequestInv, SlotInv, SessionInv,
         UNCHANGED <<request, slots, sessions, booted, pages, browser, settings, traffic>>
  PROVE  /\ (\A r \in Callers : search[r].at = "idle" => search'[r].at = "idle") => RequestInv'
         /\ SlotInv'
         /\ aged \subseteq aged' => SessionInv'
<1>1. (\A r \in Callers : search[r].at = "idle" => search'[r].at = "idle") => RequestInv'
  BY DEF RequestInv
<1>2. SlotInv'
  BY DEF SlotInv, Handling
<1>3. aged \subseteq aged' => SessionInv'
  BY DEF SessionInv
<1>4. QED BY <1>1, <1>2, <1>3

LEMMA GeocoderStepKeeps ==
  ASSUME IInv, NEW r \in Callers, GeocoderStep(r)
  PROVE  IInv'
<1>1. RequestInv /\ SlotInv /\ SessionInv /\ SearchInv
  BY DEF IInv
<1>2. SearchInv'
  BY <1>1, SearchStepKeeps DEF GeocoderStep
<1>3. search[r].at # "idle" /\ \A d \in Callers \ {r} : search'[d] = search[d]
  BY <1>1, SearchStepMoves DEF GeocoderStep
<1>4. UNCHANGED <<request, slots, sessions, booted, pages, aged, browser, settings, traffic>>
  BY DEF GeocoderStep, serverVars
<1>5. RequestInv' /\ SlotInv' /\ SessionInv'
  BY <1>1, <1>3, <1>4, ServerStays
<1>6. QED BY <1>2, <1>5 DEF IInv

LEMMA SessionAgesKeeps ==
  ASSUME IInv, SessionAges
  PROVE  IInv'
<1>1. RequestInv /\ SlotInv /\ SessionInv /\ SearchInv
  BY DEF IInv
<1>2. SearchInv' /\ search' = search
  BY <1>1, SearchStays DEF SessionAges
<1>3. UNCHANGED <<request, slots, sessions, booted, pages, browser, settings, traffic>>
  BY DEF SessionAges, serverVars
<1>4. aged \subseteq aged'
  BY DEF SessionAges
<1>5. RequestInv' /\ SlotInv' /\ SessionInv'
  BY <1>1, <1>2, <1>3, <1>4, ServerStays
<1>6. QED BY <1>2, <1>5 DEF IInv

LEMMA TimeKeeps ==
  ASSUME IInv, Time
  PROVE  IInv'
<1>1. RequestInv /\ SlotInv /\ SessionInv /\ SearchInv
  BY DEF IInv
<1>2. SearchInv'
  BY <1>1, TickKeeps, EntryExpiresKeeps DEF Time
<1>3. search' = search
  BY DEF Time, Tick, EntryExpires
<1>4. UNCHANGED <<request, slots, sessions, booted, pages, aged, browser, settings, traffic>>
  BY DEF Time, serverVars
<1>5. RequestInv' /\ SlotInv' /\ SessionInv'
  BY <1>1, <1>3, <1>4, ServerStays
<1>6. QED BY <1>2, <1>5 DEF IInv

LEMMA CrashKeeps ==
  ASSUME IInv, Crash
  PROVE  IInv'
<1>1. RequestInv /\ SlotInv /\ SessionInv /\ SearchInv
  BY DEF IInv
<1>2. SearchInv'
  BY <1>1, GeocoderCrashKeeps DEF Crash
<1>3. request' = [r \in Callers |-> Fresh]
  BY DEF Crash
<1>4. \A r \in Callers : search'[r].at = "idle"
  BY DEF Crash, GeocoderCrash
<1>5. RequestInv'
  BY <1>1, <1>3, <1>4, FreshIsFree DEF RequestInv, Crash, Posting
<1>6. SlotInv'
  <2>1. {r \in Callers : Handling(r)}' = {}
    BY <1>3, FreshIsFree DEF Handling
  <2>2. slots' = 0 /\ 0 <= MaxInFlight
    BY WebAssumption DEF Crash
  <2>3. IsFiniteSet({}) /\ Cardinality({}) = 0
    BY FS_EmptySet
  <2>4. QED BY <2>1, <2>2, <2>3 DEF SlotInv
<1>7. SessionInv'
  <2>1. sessions' = {} /\ booted' = pages /\ pages' = pages /\ pages \in Nat
    BY <1>1 DEF Crash, SessionInv
  <2>2. Cardinality({}) = 0 /\ 0 <= MaxSessions
    BY FS_EmptySet, WebAssumption
  <2>3. \A r \in Callers : request'[r].cookie <= pages /\ request'[r].opened <= pages
    BY <1>3, <2>1, FreshIsFree
  <2>4. browser' = browser
    BY DEF Crash
  <2>5. booted' + 1 .. pages' = {}
    BY <2>1
  <2>6. QED BY <1>1, <2>1, <2>2, <2>3, <2>4, <2>5 DEF SessionInv
<1>8. QED BY <1>2, <1>5, <1>6, <1>7 DEF IInv

\* Every step keeps the invariant.
LEMMA StepKeeps == IInv /\ [Next]_vars => IInv'
<1> SUFFICES ASSUME IInv, [Next]_vars PROVE IInv'
  OBVIOUS
<1>1. CASE UNCHANGED vars
  <2>1. RequestInv /\ SlotInv /\ SessionInv /\ SearchInv
    BY DEF IInv
  <2>2. SearchInv' /\ search' = search
    BY <1>1, <2>1, SearchStays DEF vars
  <2>3. UNCHANGED <<request, slots, sessions, booted, pages, aged, browser, settings, traffic>>
    BY <1>1 DEF vars, serverVars
  <2>4. RequestInv' /\ SlotInv' /\ SessionInv'
    BY <2>1, <2>2, <2>3, ServerStays
  <2>5. QED BY <2>2, <2>4 DEF IInv
<1>2. ASSUME NEW r \in Callers, Send(r) \/ Accept(r) \/ Refuse(r) PROVE IInv'
  BY <1>2, SendKeeps, AcceptKeeps, RefuseKeeps
<1>3. ASSUME NEW r \in Callers, HandlerStep(r) PROVE IInv'
  BY <1>3, RouteKeeps, CheckKeeps, ValidateKeeps, SearchDoneKeeps, DeriveKeeps, CommitKeeps,
     RespondKeeps, ReturnKeeps DEF HandlerStep, ServerStep, ClientStep
<1>4. ASSUME NEW r \in Callers, GeocoderStep(r) PROVE IInv'
  BY <1>4, GeocoderStepKeeps
<1>5. CASE SessionAges
  BY <1>5, SessionAgesKeeps
<1>6. CASE Time
  BY <1>6, TimeKeeps
<1>7. CASE Crash
  BY <1>7, CrashKeeps
<1>8. QED BY <1>1, <1>2, <1>3, <1>4, <1>5, <1>6, <1>7 DEF Next

\* The invariant holds of every traffic, whatever the browsers send, the
\* provider answers and crashes interrupt.
THEOREM WebInvariant == Spec => []IInv
<1>1. Init => IInv
  BY InitHolds
<1>2. IInv /\ [Next]_vars => IInv'
  BY StepKeeps
<1>3. QED BY <1>1, <1>2, PTL DEF Spec

\* An answer that Geocoder::search uses from its memory is in the cache file,
\* and a search past the lock is alone: no crash forgets an answer, and no two
\* handlers are in the geocoder.
THEOREM AnswersOnFile == Spec => []AnswersAreOnFile
<1>1. IInv => AnswersAreOnFile
  <2>1. ASSUME IInv, NEW c \in Callers, search[c].at \notin {"idle", "waiting", "found"}
        PROVE  search[c].at \in Holding
    BY <2>1 DEF IInv, SearchInv, GeocoderTypeOK, SearchSteps, Holding
  <2>2. QED BY <2>1 DEF IInv, SearchInv, AnswersAreOnFile
<1>2. QED BY <1>1, WebInvariant, PTL

\* wait_for_rate_limit keeps the provider's interval, however many browsers
\* search at once: a call finds the interval over, because no other thread
\* calls while one sleeps, and the time of the last call is noted with the call.
THEOREM RateKept == Spec => RateIsKept
<1>1. IInv /\ [Next]_vars =>
        [\A c \in Callers : Calls(c) => lastCall = Interval]_geocoderVars
  <2> SUFFICES ASSUME IInv, [Next]_vars, NEW c \in Callers, Calls(c)
               PROVE  lastCall = Interval
    OBVIOUS
  <2>1. SearchInv
    BY DEF IInv
  <2>2. search[c].at = "sleeping" /\ search'[c].at = "calling"
    BY DEF Calls, At
  <2>3. search' # search
    BY <2>2
  <2>4. ASSUME NEW d \in Callers, SearchStep(d) PROVE Throttle(c)
    <3>1. d = c
      BY <2>1, <2>2, <2>4, SearchStepMoves
    <3>2. QED
      BY <2>1, <2>2, <2>4, <3>1, GoesMoves DEF SearchStep, Lock, LookUp, Limit, Answer, Save, At
  <2>5. ~ Crash
    BY <2>2 DEF Crash, GeocoderCrash
  <2>6. ASSUME NEW d \in Callers, HandlerStep(d) PROVE FALSE
    <3>1. CASE Validate(d)
      <4>1. PICK query : Ask(d, query)
        BY <2>3, <3>1, ValidateOutcomes DEF IInv, geocoderVars
      <4>2. search'[d] = [at |-> "waiting", query |-> query]
        BY <2>1, <4>1 DEF Ask, SearchInv, GeocoderTypeOK
      <4>3. QED BY <2>1, <2>2, <4>1, <4>2, AskMoves
    <3>2. CASE SearchDone(d)
      BY <2>1, <2>2, <3>2 DEF SearchDone, Leave, SearchInv, GeocoderTypeOK
    <3>3. QED
      BY <2>3, <2>6, <3>1, <3>2
         DEF HandlerStep, ServerStep, ClientStep, Route, Check, Receive, DeriveCandidate, Commit,
             Respond, Return, geocoderVars
  <2>7. Throttle(c)
    BY <2>3, <2>4, <2>5, <2>6
       DEF Next, Send, Accept, Refuse, GeocoderStep, SessionAges, Time, Tick, EntryExpires,
           vars, geocoderVars
  <2>8. rest[c] = 0
    BY <2>7 DEF Throttle
  <2>9. rest[c] + lastRequest >= Interval
    BY <2>1, <2>2 DEF SearchInv
  <2>10. lastRequest \in 0 .. Interval /\ lastCall \in 0 .. Interval /\ lastRequest <= lastCall
    BY <2>1 DEF SearchInv, GeocoderTypeOK
  <2>11. QED BY <2>8, <2>9, <2>10, GeocoderAssumption
<1>2. QED BY <1>1, WebInvariant, PTL DEF Spec, RateIsKept

\* A form changes what its page offers, as asked, and nothing else: of every
\* form that a browser can send, and of both pages' forms with any settings in
\* use (candidate_from_form, render_page, render_search_results).
THEOREM FormsObey == Spec => []FormsDoAsAsked
<1>1. IInv => FormsKeepTheRest
  <2> SUFFICES ASSUME IInv, NEW r \in Callers, Is(r, "committing"),
                      NEW base \in request[r].base
               PROVE  KeepsTheRest(base, Input(r).form)
    BY DEF FormsKeepTheRest
  <2>1. request[r] \in Requests
    BY DEF IInv, RequestInv, Is
  <2>2. base \in Settings /\ Input(r).form \in [Fields -> Seq(STRING)]
    BY <2>1 DEF Requests, Inputs, Input
  <2>3. QED BY <2>2, FormsKeep
<1>2. IInv => PagesAreTakenAtTheirWord
  <2> SUFFICES ASSUME IInv
               PROVE  /\ \A wanted \in Known :
                           Candidates(settings, PageForm(wanted)) =
                             IF wanted.location = NoText THEN {} ELSE {wanted}
                      /\ \A place \in OnEarth :
                           Candidates(settings, ResultForm(settings, place)) =
                             {[settings EXCEPT !.location = place]}
    BY DEF PagesAreTakenAtTheirWord
  <2>1. settings \in Settings
    BY DEF IInv, RequestInv
  <2>2. Known \subseteq Settings
    BY SendsAssumption DEF Known
  <2>3. QED BY <2>1, <2>2, PageAsks, PageWithoutPlace, ResultAsks
<1>3. QED BY <1>1, <1>2, WebInvariant, PTL DEF FormsDoAsAsked

\* What an answer or a move changes of the requests.
LEMMA OwnRequestOnly ==
  ASSUME RequestInv, NEW d \in Callers, request[d].at # "idle"
  PROVE  /\ \A status : Answers(d, status) =>
              /\ request'[d].status = status
              /\ \A r \in Callers \ {d} : request'[r] = request[r]
         /\ \A step : Moves(d, step) =>
              /\ request'[d].status = request[d].status
              /\ \A r \in Callers \ {d} : request'[r] = request[r]
<1>1. request = [r \in Callers |-> request[r]] /\ request[d] \in Requests
  BY DEF RequestInv
<1>2. ASSUME NEW status, Answers(d, status)
      PROVE  /\ request'[d].status = status
             /\ \A r \in Callers \ {d} : request'[r] = request[r]
  <2>1. request' = [request EXCEPT ![d] =
                      [request[d] EXCEPT !.at = "answering", !.status = status]]
    BY <1>1, <1>2 DEF Answers
  <2>2. request'[d] = [request[d] EXCEPT !.at = "answering", !.status = status]
    BY <1>1, <2>1
  <2>3. request'[d].status = status
    BY <1>1, <2>2 DEF Requests
  <2>4. QED BY <1>1, <2>1, <2>3
<1>3. ASSUME NEW step, Moves(d, step)
      PROVE  /\ request'[d].status = request[d].status
             /\ \A r \in Callers \ {d} : request'[r] = request[r]
  <2>1. request' = [request EXCEPT ![d] = [request[d] EXCEPT !.at = step]]
    BY <1>1, <1>3 DEF Moves
  <2>2. request'[d] = [request[d] EXCEPT !.at = step]
    BY <1>1, <2>1
  <2>3. request'[d].status = request[d].status
    BY <1>1, <2>2 DEF Requests
  <2>4. QED BY <1>1, <2>1, <2>3
<1>4. QED BY <1>2, <1>3

\* A step that is not the thread's own validation gives it no 403.
LEMMA OnlyValidateForbids ==
  ASSUME IInv, [Next]_vars, NEW r \in Callers, request[r].at = "validating",
         request'[r].status = 403
  PROVE  Validate(r)
<1>1. RequestInv
  BY DEF IInv
<1>2. request[r].status = 0 /\ request = [d \in Callers |-> request[d]]
  BY <1>1 DEF RequestInv, Posting
<1>3. request' # request
  BY <1>2
<1>4. ASSUME NEW d \in Callers, d # r,
             Send(d) \/ Accept(d) \/ Refuse(d) \/ HandlerStep(d)
      PROVE  request'[r] = request[r]
  <2>1. CASE Check(d) \/ Receive(d) \/ Validate(d)
    <3>1. (\E status : Answers(d, status)) \/ (\E step : Moves(d, step))
      <4>1. Input(d).urlencoded \in BOOLEAN
        BY <1>1, <2>1 DEF Check, Receive, Validate, Is, Input, RequestInv, Requests, Inputs
      <4>2. CASE Check(d)
        <5>1. Answers(d, 413) \/ Answers(d, 415) \/ Moves(d, "reading")
          BY <4>1, <4>2 DEF Check
        <5>2. ASSUME NEW status \in {413, 415}, Answers(d, status)
              PROVE  \E s \in Statuses : Answers(d, s)
          BY <5>2 DEF Statuses
        <5>3. QED BY <5>1, <5>2
      <4>3. CASE Receive(d)
        BY <4>3 DEF Receive
      <4>4. CASE Validate(d)
        <5>1. \/ \E status \in {400, 403} : Answers(d, status)
              \/ Moves(d, "deriving")
              \/ Moves(d, "searching")
          BY <1>1, <4>4, ValidateOutcomes
        <5>2. QED BY <5>1, Zenon
      <4>5. QED BY <2>1, <4>2, <4>3, <4>4
    <3>2. request[d].at # "idle"
      BY <2>1 DEF Check, Receive, Validate, Is
    <3>3. QED BY <1>1, <1>4, <3>1, <3>2, OwnRequestOnly
  <2>2. CASE Route(d)
    <3>1. \/ \E status : Answers(d, status)
          \/ OpenPage(d)
          \/ Moves(d, "checking")
      <4>1. Input(d).route \in Routes
        BY <1>1, <2>2 DEF Route, Is, Input, RequestInv, Requests, Inputs
      <4>2. CASE Input(d).route = "other" \/ ~ KnownHost(Input(d))
        <5>1. CASE Input(d).route = "other"
          <6>1. Answers(d, 404)
            BY <2>2, <5>1 DEF Route
          <6>2. QED BY <6>1
        <5>2. CASE Input(d).route # "other"
          <6>1. Answers(d, 403)
            BY <2>2, <4>2, <5>2 DEF Route
          <6>2. QED BY <6>1
        <5>3. QED BY <5>1, <5>2
      <4>3. CASE Input(d).route = "page" /\ KnownHost(Input(d))
        BY <2>2, <4>3 DEF Route
      <4>4. CASE Input(d).route = "health" /\ KnownHost(Input(d))
        BY <2>2, <4>4 DEF Route
      <4>5. CASE Input(d).route \in {"search", "settings"} /\ KnownHost(Input(d))
        BY <2>2, <4>5 DEF Route
      <4>6. QED BY <4>1, <4>2, <4>3, <4>4, <4>5 DEF Routes
    <3>2. request[d].at # "idle"
      BY <2>2 DEF Route, Is
    <3>3. CASE OpenPage(d)
      BY <1>2, <1>4, <3>3 DEF OpenPage
    <3>4. QED BY <1>1, <1>4, <3>1, <3>2, <3>3, OwnRequestOnly
  <2>3. CASE Send(d) \/ Accept(d) \/ Refuse(d)
    BY <1>2, <1>4, <2>3 DEF Send, Accept, Refuse, Moves
  <2>4. CASE SearchDone(d) \/ DeriveCandidate(d) \/ Commit(d) \/ Respond(d) \/ Return(d)
    BY <1>2, <1>4, <2>4 DEF SearchDone, DeriveCandidate, Commit, Respond, Return, Answers, Moves
  <2>5. QED BY <1>4, <2>1, <2>2, <2>3, <2>4 DEF HandlerStep, ServerStep, ClientStep
<1>5. CASE Crash
  BY <1>5 DEF Crash, Fresh
<1>6. CASE \E d \in Callers : Send(d) \/ Accept(d) \/ Refuse(d) \/ HandlerStep(d)
  <2>1. Send(r) \/ Accept(r) \/ Refuse(r) \/ HandlerStep(r)
    BY <1>2, <1>4, <1>6
  <2>2. QED
    BY <2>1 DEF Send, Accept, Refuse, HandlerStep, ServerStep, ClientStep, Route, Check, Receive,
                SearchDone, DeriveCandidate, Commit, Respond, Return, Is
<1>7. QED
  BY <1>3, <1>5, <1>6 DEF Next, GeocoderStep, SessionAges, Time, vars, serverVars

\* The last page a browser received is accepted whatever order pages and forms
\* are handled in (SessionStore::create, validate): its session goes with age,
\* a restart or MaxSessions later pages only.
THEOREM LastPageAccepted == Spec => LastPageIsAccepted
<1>1. IInv /\ [Next]_vars =>
        [ \A r \in Callers :
            /\ request[r].at = "validating" /\ request'[r].status = 403
            /\ Input(r).tokens = 1 /\ KnownProvenance(Input(r))
            /\ request[r].csrf = request[r].cookie /\ request[r].cookie > booted
            => \/ request[r].cookie \in aged
               \/ pages - request[r].cookie >= MaxSessions ]_vars
  <2> SUFFICES ASSUME IInv, [Next]_vars, NEW r \in Callers,
                      request[r].at = "validating", request'[r].status = 403,
                      Input(r).tokens = 1, KnownProvenance(Input(r)),
                      request[r].csrf = request[r].cookie, request[r].cookie > booted
               PROVE  \/ request[r].cookie \in aged
                      \/ pages - request[r].cookie >= MaxSessions
    OBVIOUS
  <2>1. RequestInv /\ SessionInv
    BY DEF IInv
  <2>2. Validate(r)
    BY OnlyValidateForbids
  <2>3. request[r] \in Requests /\ request[r].status = 0
        /\ request = [d \in Callers |-> request[d]]
    BY <2>1 DEF RequestInv, Posting
  <2>4. request[r].cookie \in booted + 1 .. pages /\ request[r].cookie # NoPage
    BY <2>1, <2>3 DEF SessionInv, Requests, NoPage
  <2>5. ~ SessionMatches(r)
    <3>1. PICK status \in {400, 403} :
            /\ Answers(r, status)
            /\ status = 403 => \/ Input(r).tokens # 1 \/ request[r].cookie = NoPage
                               \/ ~ KnownProvenance(Input(r)) \/ ~ SessionMatches(r)
      <4>1. ~ \E step : Moves(r, step)
        BY <2>1, <2>3, OwnRequestOnly
      <4>2. QED BY <2>1, <2>2, <4>1, ValidateOutcomes
    <3>2. status = 403
      BY <2>1, <3>1, OwnRequestOnly
    <3>3. QED BY <2>4, <3>1, <3>2
  <2>6. request[r].cookie \notin Live
    BY <2>5 DEF SessionMatches
  <2>7. QED BY <2>1, <2>4, <2>6 DEF SessionInv, Live
<1>2. QED BY <1>1, WebInvariant, PTL DEF Spec, LastPageIsAccepted

\* What SlotsComeBack rests on: at any time the slots in use are those of the
\* threads under way, at most MaxInFlight, and sessions stay within MaxSessions.
AtTheLimits ==
  /\ slots = Cardinality({r \in Callers : Handling(r)})
  /\ slots <= MaxInFlight
  /\ Cardinality(sessions) <= MaxSessions

\* No way through a handler loses a slot or gives it back twice (RequestSlot),
\* and no order of pages exceeds the sessions' limit (SessionStore::create).
THEOREM LimitsHold == Spec => []AtTheLimits
<1>1. IInv => AtTheLimits
  BY DEF IInv, SlotInv, SessionInv, AtTheLimits
<1>2. QED BY <1>1, WebInvariant, PTL
====
