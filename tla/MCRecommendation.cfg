SPECIFICATION Spec
CONSTANTS
  t1 = t1
  t2 = t2
  t3 = t3
  a1 = a1
  a2 = a2
  o1 = o1
  g1 = g1
  u1 = u1
  u2 = u2
  gen1 = gen1
  r1 = r1
  r2 = r2
  Topic = {t1, t2, t3}
  Project = {a1, a2, o1, g1}
  User = {u1, u2}
  Request = {r1, r2}
  NoOne = NoOne
  SubjectOf <- MCSubjectOf
  Primary <- MCPrimary
  StartTopic <- MCStartTopic
  StartProject <- MCStartProject
  StartActive <- MCStartActive
  IdRank <- MCIdRank
  MaxEdits = 1
CHECK_DEADLOCK FALSE
SYMMETRY RequestSymmetry
INVARIANTS   FeedIsInOrder ServedIsRecorded
