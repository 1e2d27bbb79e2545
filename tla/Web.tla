---- MODULE Web ----
(***************************************************************************)
(* SettingsServer (src/src/web.rs): the main thread of the server hands    *)
(* each request to a thread of its own if one of MaxInFlight slots is      *)
(* free; a page opens a session and sets its cookie, and a search or a     *)
(* settings form is accepted from the page whose session the cookie names. *)
(* It composes the handlers with the geocoder behind its mutex and with    *)
(* the making of settings from a form.                                     *)
(***************************************************************************)
EXTENDS Geocoder, SettingsForm, FiniteSetsExt

CONSTANTS
  Browsers,
  Allowed,       \* authorities of local_url and ip_url (allowed_hosts)
  MaxInFlight,   \* MAX_IN_FLIGHT_REQUESTS
  MaxSessions,   \* MAX_SESSIONS
  MaxPages,      \* bound on the pages opened in a behaviour
  Traffics,      \* names of what browsers may send
  Sends          \* [traffic]: who sends what, and from which settings on

Routes == {"page", "health", "search", "settings", "other"}

\* Headers are sequences: one that is missing is empty.
Inputs ==
  [ route : Routes, host : Seq(STRING), origin : Seq(STRING), referer : Seq(STRING),
    body : {"fits", "declared", "sent"}, urlencoded : BOOLEAN, tokens : 0 .. 2,
    query : Seq(Queries \cup {Blank}), form : [Fields -> Seq(STRING)] ]

ASSUME WebAssumption ==
  MaxInFlight \in Nat \ {0} /\ MaxSessions \in Nat \ {0} /\ MaxPages \in Nat

\* A traffic begins with its first pages open, a cache file that is read or
\* not, and settings that the program accepts at its start.
ASSUME SendsAssumption ==
  \A t \in Traffics :
    /\ \E n \in 0 .. MaxPages : n <= MaxSessions /\ Sends[t].open = 1 .. n
    /\ Sends[t].files \subseteq Files
    /\ Sends[t].inputs \subseteq Inputs
    /\ Sends[t].settings \subseteq Settings

VARIABLES
  request,       \* [Callers]: the request a thread has in hand
  slots,         \* in_flight_requests
  sessions,      \* serials in SessionStore; a serial names cookie and token
  pages,         \* next_serial, counted over restarts
  booted,        \* pages opened before the process started
  aged,          \* sessions older than SESSION_LIFETIME
  browser,       \* [Browsers]: the cookie kept, and the open pages
  settings,      \* the settings in use
  traffic

serverVars == <<request, slots, sessions, booted>>
vars == <<geocoderVars, serverVars, pages, aged, browser, settings, traffic>>

NoPage == 0
Serials == 1 .. MaxPages

Steps == {"idle", "queued", "routing", "checking", "reading", "validating", "searching", "deriving", "committing",
          "answering", "returning"}

Statuses == {0, 200, 303, 400, 403, 404, 413, 415, 500}

\* A thread with no request; status 0: not answered yet.
Fresh == [at |-> "idle", from |-> {}, input |-> {}, csrf |-> NoPage, cookie |-> NoPage,
          opened |-> NoPage, base |-> {}, status |-> 0]

Handling(r) == request[r].at \notin {"idle", "queued"}

Is(r, step) == request[r].at = step

Input(r) == request[r].input

Answers(r, status) == request' = [request EXCEPT ![r].at = "answering", ![r].status = status]

Moves(r, step) == request' = [request EXCEPT ![r].at = step]

Init ==
  /\ traffic \in Traffics
  /\ GeocoderInit(Sends[traffic].files)
  /\ request = [r \in Callers |-> Fresh]
  /\ slots = 0
  /\ sessions = Sends[traffic].open
  /\ pages = Cardinality(Sends[traffic].open)
  /\ booted = 0 /\ aged = {}
  /\ browser = [b \in Browsers |-> [cookie |-> pages, tabs |-> sessions]]
  /\ settings \in Sends[traffic].settings

Elsewhere == UNCHANGED <<sessions, pages, booted, aged, browser, settings, traffic>>

PagesUnderWay ==
  Cardinality({r \in Callers : request[r].at \in {"queued", "routing"} /\ Input(r).route = "page"})

Asked(b, input, csrf) ==
  [at |-> "queued", from |-> {b}, input |-> input, csrf |-> csrf,
   cookie |-> browser[b].cookie, opened |-> NoPage, base |-> {}, status |-> 0]

\* A browser sends the cookie it has when it asks, and the token of a page.
Send(r) ==
  /\ Is(r, "idle") /\ r \in Sends[traffic].callers
  /\ settings \in Sends[traffic].settings           \* bound: one change of them
  /\ \E b \in Browsers, input \in Sends[traffic].inputs :
     \E csrf \in IF input.tokens = 0 THEN {NoPage} ELSE browser[b].tabs :
       /\ input.route = "page" => pages + PagesUnderWay < MaxPages
       /\ request' = [request EXCEPT ![r] = Asked(b, input, csrf)]
  /\ UNCHANGED <<geocoderVars, slots>> /\ Elsewhere

\* try_acquire_request_slot, and the thread is started.
Accept(r) ==
  /\ Is(r, "queued") /\ slots < MaxInFlight
  /\ slots' = slots + 1
  /\ Moves(r, "routing")
  /\ UNCHANGED geocoderVars /\ Elsewhere

\* 503, from the main thread.
Refuse(r) ==
  /\ Is(r, "queued") /\ slots >= MaxInFlight
  /\ request' = [request EXCEPT ![r] = Fresh]
  /\ UNCHANGED <<geocoderVars, slots>> /\ Elsewhere

\* authority_is_allowed: a header names an authority or is refused.
IsAllowed(header) == Len(header) = 1 /\ header[1] \in Allowed

\* valid_request_host
KnownHost(input) == IsAllowed(input.host)

Live == sessions \ aged                    \* remove_expired

\* Mutant: the youngest session makes room.
EvictYoungest(live) == IF Cardinality(live) < MaxSessions THEN live ELSE live \ {Max(live)}

\* The oldest serial makes room.
Evict(live) == IF Cardinality(live) < MaxSessions THEN live ELSE live \ {Min(live)}

\* SessionStore::create
OpenPage(r) ==
  /\ pages' = pages + 1
  /\ sessions' = Evict(Live) \cup {pages + 1}
  /\ request' = [request EXCEPT ![r].at = "answering", ![r].status = 200,
                                ![r].opened = pages + 1]

\* route
Route(r) ==
  /\ Is(r, "routing")
  /\ IF Input(r).route = "other" THEN Answers(r, 404) /\ UNCHANGED <<sessions, pages>>
     ELSE IF ~KnownHost(Input(r)) THEN Answers(r, 403) /\ UNCHANGED <<sessions, pages>>
     ELSE CASE Input(r).route = "page"   -> OpenPage(r)
            [] Input(r).route = "health" -> Answers(r, 200) /\ UNCHANGED <<sessions, pages>>
            [] Input(r).route \in {"search", "settings"} ->
                 Moves(r, "checking") /\ UNCHANGED <<sessions, pages>>
  /\ UNCHANGED <<geocoderVars, slots, booted, aged, browser, settings, traffic>>

\* valid_provenance: the Origin, or without one the Referer of this host.
KnownProvenance(input) ==
  IF input.origin # <<>> THEN IsAllowed(input.origin)
  ELSE IsAllowed(input.referer) /\ input.referer = input.host

\* SessionStore::validate
SessionMatches(r) == request[r].cookie \in Live /\ request[r].cookie = request[r].csrf

Admitted(r) ==
  CASE Input(r).route = "settings" -> Moves(r, "deriving") /\ UNCHANGED geocoderVars
    [] Input(r).route = "search" ->
         IF Len(Input(r).query) # 1 THEN Answers(r, 400) /\ UNCHANGED geocoderVars
         ELSE Moves(r, "searching") /\ Ask(r, Input(r).query[1])

\* mutation, by the headers: the size they declare and the type.
Check(r) ==
  /\ Is(r, "checking")
  /\ CASE Input(r).body = "declared"                          -> Answers(r, 413)
       [] Input(r).body # "declared" /\ ~Input(r).urlencoded -> Answers(r, 415)
       [] Input(r).body # "declared" /\ Input(r).urlencoded  -> Moves(r, "reading")
  /\ UNCHANGED <<geocoderVars, slots>> /\ Elsewhere

\* read_to_end: it returns when the client has sent its body, or too much of
\* it, or is gone; a client that does none of them is waited for.
Receive(r) ==
  /\ Is(r, "reading")
  /\ \/ Answers(r, 500)
     \/ Input(r).body = "sent" /\ Answers(r, 413)
     \/ Input(r).body = "fits" /\ Moves(r, "validating")
  /\ UNCHANGED <<geocoderVars, slots>> /\ Elsewhere

\* The rest of mutation before its handler: token, cookie, provenance, session.
Validate(r) ==
  /\ Is(r, "validating")
  /\ IF Input(r).tokens # 1 \/ request[r].cookie = NoPage \/ ~KnownProvenance(Input(r))
     THEN Answers(r, 403) /\ UNCHANGED <<geocoderVars, sessions>>
     ELSE /\ sessions' = Live
          /\ IF SessionMatches(r) THEN Admitted(r)
             ELSE Answers(r, 403) /\ UNCHANGED geocoderVars
  /\ UNCHANGED <<slots, pages, booted, aged, browser, settings, traffic>>

\* Mutant: a search that failed has no page.
SearchFound(r) ==
  /\ Is(r, "searching") /\ At(r, "found")
  /\ Leave(r)
  /\ Answers(r, 200)
  /\ UNCHANGED slots /\ Elsewhere

\* ServerState::search: the page with the results, or without them.
SearchDone(r) ==
  /\ Is(r, "searching") /\ (At(r, "found") \/ At(r, "failed"))
  /\ Leave(r)
  /\ Answers(r, 200)
  /\ UNCHANGED slots /\ Elsewhere

\* replace_settings: page_state, candidate_from_form, validate_settings.
DeriveCandidate(r) ==
  /\ Is(r, "deriving")
  /\ IF Candidates(settings, Input(r).form) = {} THEN Answers(r, 400)
     ELSE request' = [request EXCEPT ![r].at = "committing", ![r].base = {settings}]
  /\ UNCHANGED <<geocoderVars, slots>> /\ Elsewhere

\* SettingsService::replace saves them or fails; RuntimeSettingsService's own
\* steps are in SettingsService.
Commit(r) ==
  /\ Is(r, "committing")
  /\ \/ /\ \E base \in request[r].base : settings' \in Candidates(base, Input(r).form)
        /\ Answers(r, 303)
     \/ Answers(r, 500) /\ UNCHANGED settings
  /\ UNCHANGED <<geocoderVars, slots, sessions, pages, booted, aged, browser, traffic>>

\* Request::respond: the browser keeps the cookie of the page it gets.
Respond(r) ==
  /\ Is(r, "answering")
  /\ Moves(r, "returning")
  /\ \/ UNCHANGED browser
     \/ /\ request[r].opened # NoPage
        /\ \E b \in request[r].from :
             browser' = [browser EXCEPT ![b].cookie = request[r].opened,
                                        ![b].tabs = @ \cup {request[r].opened}]
  /\ UNCHANGED <<geocoderVars, slots, sessions, pages, booted, aged, settings, traffic>>

\* Mutant: a request that failed keeps its slot.
ReturnAnswered(r) ==
  /\ Is(r, "returning")
  /\ slots' = IF request[r].status = 500 THEN slots ELSE slots - 1
  /\ request' = [request EXCEPT ![r] = Fresh]
  /\ UNCHANGED geocoderVars /\ Elsewhere

\* The thread ends and drops its RequestSlot.
Return(r) ==
  /\ Is(r, "returning")
  /\ slots' = slots - 1
  /\ request' = [request EXCEPT ![r] = Fresh]
  /\ UNCHANGED geocoderVars /\ Elsewhere

\* What the thread does of its own, ...
ServerStep(r) ==
  \/ Route(r)
  \/ Check(r)
  \/ Validate(r)
  \/ SearchDone(r)
  \/ DeriveCandidate(r)
  \/ Commit(r)
  \/ Return(r)

\* ... and where it waits for its client, without a time limit.
ClientStep(r) == Receive(r) \/ Respond(r)

HandlerStep(r) == ServerStep(r) \/ ClientStep(r)

GeocoderStep(r) == SearchStep(r) /\ UNCHANGED <<serverVars, pages, aged, browser, settings, traffic>>

SessionAges ==
  /\ Sends[traffic].ages
  /\ \E s \in sessions \ aged : aged' = aged \cup {s}
  /\ UNCHANGED <<geocoderVars, serverVars, pages, browser, settings, traffic>>

\* A crash or an exit drops every connection and session; browsers keep cookies.
Crash ==
  /\ Sends[traffic].crashes
  /\ GeocoderCrash
  /\ request' = [r \in Callers |-> Fresh]
  /\ slots' = 0 /\ sessions' = {} /\ booted' = pages
  /\ UNCHANGED <<pages, aged, browser, settings, traffic>>

Time ==
  /\ Tick \/ \E q \in Queries : EntryExpires(q)
  /\ UNCHANGED <<serverVars, pages, aged, browser, settings, traffic>>

Next ==
  \/ \E r \in Callers :
       Send(r) \/ Accept(r) \/ Refuse(r) \/ HandlerStep(r) \/ GeocoderStep(r)
  \/ SessionAges
  \/ Time
  \/ Crash

\* The server polls, threads are scheduled and provider requests time out.  A
\* mutex promises nobody his turn, and a client nothing at all.
Fairness ==
  /\ WF_vars(Time)
  /\ \A r \in Callers :
       WF_vars(Accept(r) \/ Refuse(r)) /\ WF_vars(ServerStep(r)) /\ WF_vars(GeocoderStep(r))

Spec == Init /\ [][Next]_vars /\ Fairness

----
\* A page that was the last the browser received is always accepted, whatever
\* order pages and forms were handled in: only an hour, a restart or
\* MaxSessions later pages of any browser take its session away.
LastPageIsAccepted ==
  [][ \A r \in Callers :
        /\ request[r].at = "validating" /\ request'[r].status = 403
        /\ Input(r).tokens = 1 /\ KnownProvenance(Input(r))
        /\ request[r].csrf = request[r].cookie /\ request[r].cookie > booted
        => \/ request[r].cookie \in aged
           \/ pages - request[r].cookie >= MaxSessions ]_vars

\* The client does not keep the thread for ever: it sends its body and takes
\* its answer, or it hangs up.
ClientMovesOn(r) == []<>~(Is(r, "reading") \/ Is(r, "answering"))

\* Slots come back as long as the clients move on: no other way through a
\* handler, a failure or a client that hangs up, shuts the settings page for good.
SlotsComeBack == (\A r \in Callers : ClientMovesOn(r)) => []<>(slots < MaxInFlight)

\* The same of whatever clients: enough of them that stall hold every slot.
SlotsOutliveClients == []<>(slots < MaxInFlight)

\* Every request whose own client moves on is answered, if only with 503,
\* whatever the other clients do, save a search that the mutex passes over.
RequestsAreAnswered ==
  \A r \in Callers : ClientMovesOn(r) =>
    (~Is(r, "idle") /\ ~At(r, "waiting") ~> Is(r, "idle") \/ At(r, "waiting"))

\* What a page does not offer, saving it does not change, whichever settings
\* it is saved over.
FormsKeepTheRest ==
  \A r \in Callers : Is(r, "committing") =>
    \A base \in request[r].base : KeepsTheRest(base, Input(r).form)

Known == UNION {Sends[t].settings : t \in Traffics}

\* Whatever settings are in use when a form arrives, the settings page can ask
\* for any others with a location and gets exactly those, whenever it was opened;
\* and a search result opened with the settings in use changes nothing but the
\* place.
PagesAreTakenAtTheirWord ==
  (\E r \in Callers : Is(r, "deriving")) =>
    /\ \A wanted \in Known :
         Candidates(settings, PageForm(wanted)) =
           IF wanted.location = NoText THEN {} ELSE {wanted}
    /\ \A place \in OnEarth : Candidates(settings, ResultForm(settings, place)) =
                               {[settings EXCEPT !.location = place]}

\* A form changes what its page offers, as asked, and nothing else.
FormsDoAsAsked == FormsKeepTheRest /\ PagesAreTakenAtTheirWord
====
