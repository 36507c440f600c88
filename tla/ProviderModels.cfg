SPECIFICATION StoreSpec
CONSTANTS
  p = p
  q = q
  o = o
  e = e
  x = x
  OldKey = OldKey
  NoKey = NoKey
  Unknown = Unknown
  Unset = Unset
  Compatible = {p, q}
  BuiltIn = o
  EnvNames = {e, x}
  EnvOf <- MCEnvOf
  Environment <- MCEnvironment
  Secrets = {s1, s2}
  Calls = {c1, c2}
  MaxFailures = 1
  MaxCalls = 2
  MaxChoices = 2
SYMMETRY MCSymmetry
CHECK_DEADLOCK FALSE
INVARIANT ModelsKeepTheirProvider
