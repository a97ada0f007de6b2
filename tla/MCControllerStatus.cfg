SPECIFICATION Spec
CONSTANTS
  s1 = s1 s2 = s2 s3 = s3 k1 = k1 k2 = k2 cA = cA cB = cB
  Sessions = {s1, s2}
  Callers = {k1, k2}
  Configs = {cA, cB}
  Default = Default
  None = None
INVARIANT StatusAgrees
SYMMETRY Symmetry
