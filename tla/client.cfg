SPECIFICATION ClientSpec
CONSTANTS
  p1 = p1
  o1 = o1
  p2 = p2
  k = k
  u = u
  NoKey = NoKey
  Producer = {p1, p2}
  Operator = {o1}
  Key = {k}
  UniqueKey = {u}
  Batches <- MCBatches
  MaxId = 3
SYMMETRY MCSymmetry
INVARIANTS
  ClientTypeOK
  OneJobPerKey
  AnswersNameTheirJob
  CancelledJobNeverRuns
