CONSTANTS
  p1 = p1
  p2 = p2
  right = right
  wrong = wrong
  Empty = Empty
  Absent = Absent
  Procs <- MCProcs
  Bodies <- MCBodies
  Proofs <- MCProofs
  MaxCalls = 2
SPECIFICATION Spec
INVARIANTS
  AcceptedIsProved
SYMMETRY Perms
CHECK_DEADLOCK FALSE
