SPECIFICATION Spec
CONSTANTS
  Session = {s1, s2}
  Token = {t1}
  Slot = {c1}
  Nobody = Nobody
  Editor = Editor
  MaxSessions = 1
  MaxTurns = 1
  MaxVersion = 2
  Restarts = TRUE
PROPERTIES CancelSparesOthers
