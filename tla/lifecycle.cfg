SPECIFICATION Spec
CONSTANTS
  a = a
  b = b
  c = c
  old = old
  new = new
  Releases = {a, b, c}
  Absent = Absent
  First = a
  Drivers = {old, new}
  Stock = Stock
  DriverOf <- TwoDrivers
  MaxReleases = 2
  MaxAccepted = 2
  HelperVariants <- BothHelpers
  MaxFaults = 2
INVARIANTS
  PiMatchesRecord
  PriorIsAtHand
  OnlyMishapsUndo
  GoneMeansGone
PROPERTIES
  AppFitsDriver
  BegunIsEnded
