SPECIFICATION Spec
CONSTANTS
    Admin = {a1, a2}
    Form <- MCForm
    Configured <- MCConfigured
    Coin = 4
    MaxFee = 5
    IntSize = 64
    MaxFaults = 2
    Limit = 2
    MaxRounds = 1
    MaxHeight = 3
    MaxMisses = 1
SYMMETRY AdminSymmetry
INVARIANTS
    FileLoads
    SettingsAreKept
    LoggedOnce
    OwnerIsKnown
PROPERTIES
    NeverShowsLess
