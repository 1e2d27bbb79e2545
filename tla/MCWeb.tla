---- MODULE MCWeb ----
(***************************************************************************)
(* Small instances of Web.  Each traffic sends what one part of the server *)
(* is about: more requests than slots; pages and their sessions, and       *)
(* searches, in two threads at once; each of them in one with restarts;    *)
(* all the ways a request can fail; and forms of both pages with one or    *)
(* two fields changed.                                                     *)
(***************************************************************************)
EXTENDS Web, TLC

CONSTANTS q1, q2, r1, r2

MCNumber == ("0" :> 0) @@ ("1" :> 1) @@ ("9" :> 9) @@ ("50" :> 50) @@ ("52" :> 52) @@ ("100" :> 100)

Home == <<"planeradar.local">>
Other == <<"elsewhere">>

Plain ==
  [ route |-> "page", host |-> Home, origin |-> Home, referer |-> <<>>, body |-> "fits",
    urlencoded |-> TRUE, tokens |-> 1, query |-> <<q1>>, form |-> NoForm ]

Minimal == [NoForm EXCEPT !["coordinates"] = <<"home">>]

Used ==
  { [ location |-> place, range |-> 0, runways |-> on, callsign |-> on, time |-> ~on,
      day |-> 100, start |-> 9, night |-> on, red |-> ~on, low |-> low, high |-> high ] :
    place \in {"home", NoText}, on \in BOOLEAN, low \in {<<>>, <<1>>}, high \in {<<>>, <<52>>} }

AUsed == CHOOSE s \in Used : s.runways /\ s.location = "home"

Numbers == {"range", "day", "start", "low", "high"}

\* What else a field may hold: left out, sent twice, text no control offers,
\* and numbers at the limits of each.
Variants(k) ==
  {<<>>, <<"true", "true">>, <<"nonsense">>} \cup
  CASE k = "coordinates" -> {<<"pole">>}
    [] k \in Numbers    -> {<<"9">>, <<"50">>, <<"52">>}
    [] k = "runways"     -> {<<"true">>, <<"false">>}
    [] OTHER             -> {<<"true">>}

\* The settings page with a few settings changed, and a search result.
FullPage ==
  [ Minimal EXCEPT
      !["range"] = <<"1">>, !["runways_present"] = <<"true">>, !["runways"] = <<"true">>,
      !["callsign_present"] = <<"true">>, !["time_present"] = <<"true">>, !["time"] = <<"on">>,
      !["day"] = <<"50">>, !["start"] = <<"9">>, !["night_present"] = <<"true">>,
      !["red_present"] = <<"true">>, !["red"] = <<"true">>, !["low"] = <<"">>,
      !["high"] = <<"52">> ]
Result == [Minimal EXCEPT !["range"] = <<"0">>, !["runways"] = <<"false">>]

Forms ==
  UNION { {[f EXCEPT ![k] = v] : f \in {FullPage, Result, Minimal}, v \in Variants(k)} :
          k \in Fields }

Faults ==
  { [Plain EXCEPT !.route = "other"], [Plain EXCEPT !.host = Other],
    [Plain EXCEPT !.route = "health"], [Plain EXCEPT !.route = "search", !.query = <<>>] } \cup
  { [Plain EXCEPT !.route = "settings", !.form = Minimal, !.origin = o, !.referer = f] :
      o \in {<<>>, Other, Home \o Home}, f \in {Home, Other} } \cup
  { [Plain EXCEPT !.route = "settings", !.form = Minimal, !.body = b, !.urlencoded = u,
                  !.tokens = t] :
      b \in {"fits", "declared", "sent"}, u \in BOOLEAN, t \in 0 .. 2 }

Empty == <<[q \in Queries |-> "none"]>>

Traffic0(callers, inputs) ==
  [ callers |-> callers, inputs |-> inputs, open |-> {1}, files |-> {Empty},
    settings |-> {AUsed}, ages |-> FALSE, crashes |-> FALSE ]

Page == [Plain EXCEPT !.tokens = 0]
Form == [Plain EXCEPT !.route = "settings"]
Searches(queries) == {[Plain EXCEPT !.route = "search", !.query = <<q>>] : q \in queries}

MCSends ==
  [ limit    |-> Traffic0(Callers, {[Plain EXCEPT !.route = "health"]}),
    sessions |-> [ Traffic0({r1, r2}, {Page, Form}) EXCEPT !.ages = TRUE ],
    searches |-> Traffic0({r1, r2}, Searches({q1, q2})),
    restarts |-> [ Traffic0({r1}, {Page, Form})
                   EXCEPT !.open = {}, !.ages = TRUE, !.crashes = TRUE ],
    outages  |-> [ Traffic0({r1}, Searches({q1, q2, Blank}))
                   EXCEPT !.crashes = TRUE, !.files = {<<>>, Empty} ],
    faults   |-> Traffic0({r1}, Faults),
    forms    |-> [ Traffic0({r1}, {[Plain EXCEPT !.route = "settings", !.form = f] : f \in Forms})
                   EXCEPT !.settings = Used ] ]
====
