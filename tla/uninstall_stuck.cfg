SPECIFICATION Spec
CONSTANTS
  a = a
  b = b
  c = c
  old = old
  new = new
  Releases = {a, b}
  Absent = Absent
  First = a
  Drivers = {old, new}
  Stock = Stock
  DriverOf <- TwoDrivers
  MaxReleases = 3
  MaxAccepted = 3
  HelperVariants <- HelperAsWritten
  MaxFaults = 0
PROPERTIES
  UninstallsEnd
