SPECIFICATION Spec
CONSTANTS
  home = home
  cabin = cabin
  away = away
  low = low
  high = high
  near = near
  far = far
  Locations = {home}
  Places = {home, away}
  PlaceOf <- MCPlaceOf
  NoLocation = NoLocation
  NoPlace = NoPlace
  NumRanges = 2
  Filters = {low, high}
  Sightings = {near}
  Keys = {near}
  KeyOf <- MCKeyOf
  Traffic <- MCTraffic
  Allows <- MCAllows
  Distance <- MCDistance
  Workers = {"adsb"}
  WebRequests = {w1}
  Touch = touch
  FactorySettings <- MCFactory
  Edits <- ServedEdits
  FormShapes <- WholeForm
  MaxRestarts = 0
PROPERTIES
  QueryIsServed
  StopEndsProcess
