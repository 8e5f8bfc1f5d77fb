SPECIFICATION FairSpec
CONSTANTS
  Session = {s1}
  Token = {t1}
  Slot = {c1, c2, c3}
  Nobody = Nobody
  Editor = Editor
  MaxSessions = 1
  MaxTurns = 1
  MaxVersion = 1
  Restarts = TRUE
PROPERTIES CallsEnd
