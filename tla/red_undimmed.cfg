SPECIFICATION Spec
CONSTANTS
  home = home
  away = away
  near = near
  far = far
  high = high
  Locations = {home, away}
  Places = {home, away}
  PlaceOf <- MCPlaceOf
  NoLocation = NoLocation
  NoPlace = NoPlace
  NumRanges = 2
  Filters = {high}
  Sightings = {near, far}
  Keys = {near, far}
  KeyOf <- MCKeyOf
  Traffic <- MCTraffic
  Allows <- MCAllows
  Fingers = {f1, f2}
  NoFinger = NoFinger
  MaxLevel = 8
  RampTicks = 3
  Slots = 6
  Days = 5
  FallbackAt = 2
  Scenarios = {"sky", "touch", "feed", "weather", "setup", "light"}
  World <- MCWorld
PROPERTIES
  DimsBeforeRed
CHECK_DEADLOCK FALSE
