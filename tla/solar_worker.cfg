SPECIFICATION Spec
CONSTANTS
  home = home
  cabin = cabin
  away = away
  low = low
  high = high
  near = near
  far = far
  Locations = {home, cabin, away}
  Places = {home, away}
  PlaceOf <- MCPlaceOf
  NoLocation = NoLocation
  NoPlace = NoPlace
  NumRanges = 2
  Filters = {low, high}
  Sightings = {near}
  Keys = {near}
  KeyOf <- MCKeyOf
  Traffic <- MCTraffic
  Allows <- MCAllows
  Distance <- MCDistance
  Workers = {"solar"}
  WebRequests = {w1}
  Touch = touch
  FactorySettings <- MCFactory
  Edits <- SolarEdits
  FormShapes <- WholeForm
  MaxRestarts = 1
INVARIANTS
  ProvidersMatch
  SunsetIsCached
  SolarSleepsInformed
