SPECIFICATION Spec
CONSTANTS
  Token = {t1, t2}
  Cookie = {s1}
  Conn = {k1, k2}
  Slot = {c1, c2}
  Nobody = Nobody
  Operator = Operator
  Traffic <- Families
  DefaultRows = 2
  RowsCap = 3
  MaxPageSize = 3
  MaxRows = 7
SYMMETRY AccessSymmetry
INVARIANTS EffectsAreAudited WithdrawnMeansOut BootstrapOnce SecretReadsAll EnginesAreCached CapIsExact PagesPartition
