SPECIFICATION Spec
CONSTANTS
    Conns = {c1, c2}
    Hellos <- Builds
    MinSupportedVersion = 1
    Version = 1
    Reports <- Values
    r1 = r1
INVARIANTS
    IndInv
    AdvisoryIsHonest
PROPERTIES
    RefusalIsRead
    ImplementsAdmission
    HalfOpenHeals
    KillSwitchIsHeard
