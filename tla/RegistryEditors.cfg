SPECIFICATION Spec
CONSTANTS
  Request = {t1, t2}
  NoRequest = NoRequest
  obj = obj
  link = link
  c1 = c1
  s1 = s1
  s2 = s2
  Rid = {obj, link}
  Mappable = {obj}
  Conn = {c1}
  Unbound = Unbound
  Absent = Absent
  Sort = {s1, s2}
  Definition <- PointingOther
  Incoming <- Uploads
  Calls <- EverySurface
  BlindEdits = TRUE
  MaxVersion = 2
SYMMETRY RequestSymmetry
INVARIANTS TypeOK LockingDiscipline StoredWellFormed
PROPERTIES NoLostUpdate
