SPECIFICATION Spec
CONSTANTS
  Budget <- EverythingTwice
INVARIANTS
  RecordsAreEarned
PROPERTIES
  StepsAreRecorded
  AcceptedDriverStays
  InstallCompletes
