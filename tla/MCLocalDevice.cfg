SPECIFICATION Spec
CONSTANTS
    Processes = {p1, p2}
    DeviceIds = {d1, d2, d3}
    Names = {default, other}
    DefaultName = default
    Missing = Missing
    Corrupt = Corrupt
    Targets = {"linux", "windows", "freebsd"}
    MaxPowerLosses = 1
SYMMETRY MCSymmetry
INVARIANTS TypeOK OneIdentity LoadLeavesPrivate
PROPERTIES IdentityIsPermanent DefaultNeverOverwrites
