---- MODULE SettingsForm ----
(***************************************************************************)
(* candidate_from_form (src/src/web.rs) and validate_settings              *)
(* (src/src/settings.rs): how a submitted form and the settings in use     *)
(* make the settings to save.  Two pages submit forms: the settings page,  *)
(* with all its controls, and the list of search results, with a few; and  *)
(* a form may hold a control twice, or text no control offers.             *)
(*                                                                         *)
(* Of controls that are read alike one stands for all: coordinates for     *)
(* latitude and longitude, day for both percentages, callsign and time for *)
(* the check boxes of their sections.                                      *)
(***************************************************************************)
EXTENDS Integers, Sequences

CONSTANTS
  Coordinates,   \* texts that read as coordinates
  OnEarth,       \* those between the poles
  Number,        \* [text]: the integer it reads as
  MaxRange       \* the last range preset

\* A text that is empty.
NoText == ""

ASSUME FormAssumption ==
  /\ OnEarth \subseteq Coordinates /\ MaxRange \in Nat
  /\ \A t \in DOMAIN Number : Number[t] \in Int
  /\ NoText \notin DOMAIN Number /\ NoText \notin Coordinates

Boxes == {"callsign", "time", "night", "red"}
Optional == {"range", "day", "start", "low", "high", "runways"}
Fields == Boxes \cup Optional \cup
          {"coordinates", "runways_present", "callsign_present", "time_present",
           "night_present", "red_present", "unknown"}

Present == [ runways |-> "runways_present", callsign |-> "callsign_present",
             time |-> "time_present", night |-> "night_present", red |-> "red_present" ]

\* A form: the values of every field in the order they were sent.
NoForm == [f \in Fields |-> <<>>]

Submitted(form, f) == form[f] # <<>>

\* Every known field is read with Form::single.
ReadOnce(form) == \A f \in Fields : Len(form[f]) <= 1

On == {"true", "on"}

\* checkbox: without its sentinel the page did not have the box.
BoxReads(form, b) ==
  /\ Submitted(form, b) => form[b][1] \in On
  /\ Submitted(form, Present[b]) => form[Present[b]][1] = "true"

\* Mutant: a box that is not sent is off, on whatever page.
BoxValueAnyPage(form, b, current) == Submitted(form, b)

BoxValue(form, b, current) ==
  IF Submitted(form, Present[b]) THEN Submitted(form, b) ELSE current

\* show_runways also takes an explicit value, which search results send.
RunwaysRead(form) ==
  /\ Submitted(form, "runways") => form["runways"][1] \in On \cup {"false"}
  /\ Submitted(form, "runways_present") => form["runways_present"][1] = "true"

RunwaysValue(form, current) ==
  IF Submitted(form, "runways") THEN form["runways"][1] \in On
  ELSE ~Submitted(form, "runways_present") /\ current

\* One brightness control asks for all of them.
BrightnessFields == {"day", "start", "night", "night_present", "red", "red_present"}
BrightnessSubmitted(form) == \E f \in BrightnessFields : Submitted(form, f)

NumberReads(form, f) == Submitted(form, f) => form[f][1] \in DOMAIN Number

NumberValue(form, f, current) ==
  IF Submitted(form, f) THEN Number[form[f][1]] ELSE current

\* optional_i32: an empty text is no limit.
LimitReads(form, f) == Submitted(form, f) => form[f][1] \in DOMAIN Number \cup {NoText}

LimitValue(form, f, current) ==
  IF ~Submitted(form, f) THEN current
  ELSE IF form[f][1] = NoText THEN <<>> ELSE <<Number[form[f][1]]>>

Reads(form) ==
  /\ ~Submitted(form, "unknown")
  /\ ReadOnce(form)
  /\ Submitted(form, "coordinates") /\ form["coordinates"][1] \in Coordinates
  /\ NumberReads(form, "range")
  /\ RunwaysRead(form)
  /\ \A b \in Boxes : BoxReads(form, b)
  /\ BrightnessSubmitted(form) =>
       /\ Submitted(form, "day") /\ NumberReads(form, "day")
       /\ Submitted(form, "start") /\ NumberReads(form, "start")
       /\ Number[form["start"][1]] \in 0 .. 23
  /\ LimitReads(form, "low") /\ LimitReads(form, "high")

Derive(settings, form) ==
  [ location |-> form["coordinates"][1],
    range    |-> NumberValue(form, "range", settings.range),
    runways  |-> RunwaysValue(form, settings.runways),
    callsign |-> BoxValue(form, "callsign", settings.callsign),
    time     |-> BoxValue(form, "time", settings.time),
    day      |-> NumberValue(form, "day", settings.day),
    start    |-> NumberValue(form, "start", settings.start),
    night    |-> BoxValue(form, "night", settings.night),
    red      |-> BoxValue(form, "red", settings.red),
    low      |-> LimitValue(form, "low", settings.low),
    high     |-> LimitValue(form, "high", settings.high) ]

Percentages == {5 * i : i \in 1 .. 20}
Altitudes == -2000 .. 100000

\* validate_radar_settings; a file with other settings is refused at start.
Valid(settings) ==
  /\ settings.range \in 0 .. MaxRange
  /\ settings.location \in OnEarth \cup {NoText}
  /\ settings.day \in Percentages
  /\ settings.start \in 0 .. 23
  /\ \A limit \in {settings.low, settings.high} :
       limit # <<>> => limit[1] \in Altitudes
  /\ settings.low # <<>> /\ settings.high # <<>> => settings.low[1] <= settings.high[1]

Numerals == {Number[t] : t \in DOMAIN Number}
Limits == {<<>>} \cup {<<n>> : n \in Numerals}

\* Settings that can be in use: their numbers have a text, and are in range;
\* before the first setup the location is missing.
Settings ==
  { s \in [ location : Coordinates \cup {NoText}, range : Numerals, runways : BOOLEAN, callsign : BOOLEAN,
            time : BOOLEAN, day : Numerals, start : Numerals, night : BOOLEAN, red : BOOLEAN,
            low : Limits, high : Limits ] : Valid(s) }

\* The candidate, or none when the form is refused.
Candidates(settings, form) ==
  IF Reads(form) THEN {s \in {Derive(settings, form)} : Valid(s)} ELSE {}

\* The control that shows a number, and one for a limit that may be missing.
Shows(n) == <<CHOOSE t \in DOMAIN Number : Number[t] = n>>
ShowsLimit(limit) == IF limit = <<>> THEN <<NoText>> ELSE Shows(limit[1])

\* A box: sent when it is checked, and its sentinel with it or without it.
Checked(on) == IF on THEN <<"true">> ELSE <<>>

\* Mutant: the sentinel comes with the box, as if it were in its label.
BoxSendsTogether(on) == [box |-> Checked(on), present |-> Checked(on)]

BoxSends(on) == [box |-> Checked(on), present |-> <<"true">>]

\* The box a sentinel belongs to.
BoxOf(f) == CHOOSE k \in DOMAIN Present : Present[k] = f

\* What the settings page sends in a field.
PageSends(settings, f) ==
  CASE f = "coordinates" -> <<settings.location>>
    [] f \in {"range", "day", "start"} -> Shows(settings[f])
    [] f \in {"low", "high"} -> ShowsLimit(settings[f])
    [] f \in Boxes \cup {"runways"} -> BoxSends(settings[f]).box
    [] f = "unknown" -> <<>>
    [] OTHER -> BoxSends(settings[BoxOf(f)]).present

\* The settings page, submitted as it is shown.
PageForm(settings) == [f \in Fields |-> PageSends(settings, f)]

\* The form of one search result: its place and what the page was read with.
ResultForm(settings, place) ==
  [ NoForm EXCEPT !["coordinates"] = <<place>>, !["range"] = Shows(settings.range),
                  !["runways"] = IF settings.runways THEN <<"true">> ELSE <<"false">> ]

----
\* The fields a page needs to have for it to change a setting.
Controls(setting) ==
  IF setting = "location" THEN {"coordinates"}
  ELSE IF setting \in DOMAIN Present THEN {setting, Present[setting]} ELSE {setting}

\* What a page does not offer, saving it does not change: settings that no
\* submitted field belongs to keep their value, and a box without its
\* sentinel too.
KeepsTheRest(settings, form) ==
  \A s \in Candidates(settings, form) : \A k \in DOMAIN settings :
    \/ s[k] = settings[k]
    \/ \E f \in Controls(k) : Submitted(form, f) /\ (k \in Boxes => f = Present[k])
====
