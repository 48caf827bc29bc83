SPECIFICATION Spec
CONSTANTS
  Starter = s
  Resumers = {r1, r2}
  MaxInterrupts = 2
  Concurrent = TRUE
  MayCrash = FALSE
  StoreMayFail = FALSE
INVARIANTS
  AtMostOnce
