SPECIFICATION FairSpec
CONSTANTS
  i1 = i1
  i2 = i2
  i3 = i3
  s1 = s1
  o1 = o1
  l1 = l1
  a1 = a1
  db = db
  gone = gone
  Rid <- RIDs
  KindOf <- Names7
  Connections = {db}
  Conns = {db, gone}
  Unbound = Unbound
  Absent = Absent
  Menus <- TwoMenus
INVARIANTS StoredIsSound ValidatorIsExact CyclesAreReal DeletesAreExact
PROPERTIES PutsAreAnswered
