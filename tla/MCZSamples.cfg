SPECIFICATION Spec
CONSTANTS
  p1 = p1
  p2 = p2
  r1 = r1
  r2 = r2
  r3 = r3
  Project = {p1, p2}
  Seeded = {p1}
  Z = {1, 2}
  List <- MCList
  Request = {r1, r2, r3}
  MaxLosses = 1
SYMMETRY Symmetric
INVARIANTS TypeOK AnswersTruthful
PROPERTY RequestsAtomic
