SPECIFICATION Spec
CONSTANTS
  r1 = r1
  r2 = r2
  r3 = r3
  t1 = t1
  t2 = t2
  Request <- MCRequest
  TeacherOf <- MCTeacherOf
  Text = {"air", " air"}
  Squish <- MCSquish
  Tidy <- MCTidy
  RawType = {"FOTO"}
  TrimLower <- MCTrimLower
  Subject <- MCSubject
  SubjectOfSub <- MCSubjectOf
  NoSubject = "none"
  NoJob = NoJob
  MaxRows = 3
  ChainLimit = 2
SYMMETRY Symmetry
INVARIANTS OneActivePerFingerprint  ReadsAreTrue
PROPERTIES ConflictOnlyAfterEnd
