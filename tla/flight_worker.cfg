SPECIFICATION Spec
CONSTANTS
  home = home
  cabin = cabin
  away = away
  low = low
  high = high
  near = near
  far = far
  Locations = {home}
  Places = {home, away}
  PlaceOf <- MCPlaceOf
  NoLocation = NoLocation
  NoPlace = NoPlace
  NumRanges = 1
  Filters = {high}
  Sightings = {near, far}
  Keys = {near, far}
  KeyOf <- MCKeyOf
  Traffic <- MCTraffic
  Allows <- MCAllows
  Distance <- MCDistance
  Workers = {"adsb", "flight"}
  WebRequests = {w1}
  Touch = touch
  FactorySettings <- MCFactory
  Edits <- FlightEdits
  FormShapes <- WholeForm
  MaxRestarts = 0
INVARIANTS
  EnrichmentMatch
  FlightSleepsInformed
