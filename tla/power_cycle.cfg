SPECIFICATION Spec
CONSTANTS
  Budget <- OnePowerCycle
PROPERTIES
  RerunCompletes
