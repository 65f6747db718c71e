CONSTANTS
  k1 = k1
  k2 = k2
  MaxVersion = 2
  Forced <- MCForced
  Slots = {k1}
  Platforms = {"tauri"}
  Apps <- MCAcks
SPECIFICATION Spec
INVARIANTS ReadyMatchesHandle

