SPECIFICATION CatalogueSpec
CONSTANTS
  t1 = t1
  t2 = t2
  t3 = t3
  c1 = c1
  c2 = c2
  c3 = c3
  p1 = p1
  s1 = s1
  s2 = s2
  k1 = k1
  k2 = k2
  a1 = a1
  a2 = a2
  Topic = {t1, t2, t3}
  Content = {c1, c2, c3}
  Project = {p1}
  Section = {s1, s2}
  Setting = {k1, k2}
  Admin = {a1, a2}
  NoOne = NoOne
  StartOrder <- MCStartOrder
  SubjectOf <- MCSubjectOf
  Normalized = {t1}
  SettingType <- MCSettingType
  RawOf <- MCRawOf
CHECK_DEADLOCK FALSE
INVARIANTS  NoOrphans  
PROPERTIES ReorderPermutes
