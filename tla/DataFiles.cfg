SPECIFICATION Spec
CONSTANTS
  f1 = f1
  f2 = f2
  Sessions = {s1, s2}
  Formulas = {f1, f2}
  Rank <- MCRank
  Sizes = {1, 2}
  MaxEntries = 2
  MaxBytes = 2
  Calls = {c1, c2}
  MaxOps = 3
  MaxTroubles = 1
SYMMETRY MCSymmetry
CHECK_DEADLOCK FALSE
INVARIANT
    DirectoryBounded
PROPERTY
    NeverOlder
