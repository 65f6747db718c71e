CONSTANTS
  k1 = k1
  k2 = k2
  MaxVersion = 2
  Forced <- MCForced
  Slots = {k1, k2}
  Platforms = {"tauri", "rn"}
  Apps <- MCApps
SPECIFICATION Spec
INVARIANTS NeverWedged CalmAppInstallsWhatItShows
PROPERTIES InstallsForward PostponedStaysQuiet ContractIsKept
SYMMETRY Symmetric
