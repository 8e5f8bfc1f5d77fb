SPECIFICATION FairSpec
CONSTANTS
  obj = obj
  prop = prop
  text = text
  number = number
  c1 = c1
  c2 = c2
  Rid = {obj, prop}
  Mappable = {obj}
  Conn = {c1, c2}
  Unbound = Unbound
  Absent = Absent
  Sort = {text, number}
  Definition <- Sent
  Incoming <- Uploads
  Bases <- Stagings
  Known = {c1}
  MaxSteps = 3
  MaxCalls = 2
INVARIANTS WorkingStaysValid RefusedOnlyByRevived OnlyImportWrites WholeTurnWritten
PROPERTIES RunEnds
