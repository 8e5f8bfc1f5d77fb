SPECIFICATION Spec
CONSTANTS
  Session = {s1, s2}
  Token = {t1}
  Slot = {c1, c2}
  Nobody = Nobody
  Editor = Editor
  MaxSessions = 1
  MaxTurns = 1
  MaxVersion = 2
  Restarts = TRUE
SYMMETRY ChatSymmetry
INVARIANTS TypeOK SequentialCallsAreSafe MarkedTurnsRun CapKept
PROPERTIES ImplementsLife
