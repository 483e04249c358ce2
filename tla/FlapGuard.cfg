CONSTANTS
    Agents = {a1, a2}
    Ramp <- TheRamp
    Guard <- TheGuard
    Threshold = 9
    MaxCount = 4
    MaxFaults = 2
SPECIFICATION Spec
INVARIANTS
    IndInv
PROPERTIES
    ConnectsAreSpaced
    AttemptsAreSpaced
    FightSettles
