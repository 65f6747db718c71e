CONSTANTS
  k1 = k1
  k2 = k2
  k3 = k3
  MaxVersion = 2
  Forced <- MCForced
  Slots = {k1, k2, k3}
SPECIFICATION Spec
INVARIANTS ReadyIsTried NoDeadEnd InstallsInForeground
SYMMETRY Symmetric
