SPECIFICATION HFairSpec
CONSTANTS
  Request = {t1, t2}
  NoRequest = NoRequest
  obj = obj
  link = link
  c1 = c1
  s1 = s1
  s2 = s2
  Rid = {obj}
  Mappable = {obj}
  Conn = {c1}
  Unbound = Unbound
  Absent = Absent
  Sort = {s1, s2}
  Definition = {}
  Incoming <- BoundUploads
  Calls <- Rotations
  BlindEdits = FALSE
  MaxVersion = 3
PROPERTIES RotationAtomic GroundedKeepBindings ImplementsAtomic EveryRequestFinishes
