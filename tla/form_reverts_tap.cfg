SPECIFICATION Spec
CONSTANTS
  home = home
  cabin = cabin
  away = away
  low = low
  high = high
  near = near
  far = far
  Locations = {home, away}
  Places = {home, away}
  PlaceOf <- MCPlaceOf
  NoLocation = NoLocation
  NoPlace = NoPlace
  NumRanges = 2
  Filters = {low, high}
  Sightings = {near}
  Keys = {near}
  KeyOf <- MCKeyOf
  Traffic <- MCTraffic
  Allows <- MCAllows
  Distance <- MCDistance
  Workers = {"adsb"}
  WebRequests = {w1}
  Touch = touch
  FactorySettings <- MCFactory
  Edits <- AdsbEdits
  FormShapes <- AnyForm
  MaxRestarts = 0
PROPERTIES
  FormKeepsOtherSettings
