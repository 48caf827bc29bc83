SPECIFICATION Spec
CONSTANTS
  Flows = {"f", "g"}
  Runners = {"r1", "r2"}
  Writers = {"w1", "w2"}
  Cap = 1
  MaxVersion = 3
INVARIANTS
  TypeOK
  StaleOnlyByRace
