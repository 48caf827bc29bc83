SPECIFICATION Spec
CONSTANTS
  Starter = s
  Resumers = {r1, r2}
  MaxInterrupts = 2
  Concurrent = TRUE
  MayCrash = TRUE
  StoreMayFail = TRUE
INVARIANTS
  OnceInTurn
  OnlyLateAnswersMiss
  TrailMatchesRow
  StrandedOnlyByLostFinish
PROPERTIES
  TerminalStays
