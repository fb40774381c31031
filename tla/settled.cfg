SPECIFICATION MCSpecQuietShared
CONSTANTS
    n1 = n1  n2 = n2  u1 = u1  u2 = u2  f1 = f1  f2 = f2  drv1 = drv1  drv2 = drv2
    Nodes = {n1, n2}
    ProviderIDs = {u1, u2}
    Machines = {u1, u2}
    Fabrics = {f1, f2}
    Drivers = {drv1, drv2}
    NumModels = 2
    DriverOf <- MCDriverOf
    MaxDevices = 1
    NoPool = NoPool
    NumGroups = 2
    SpecLists <- MCSpecLists
    UseCapiBmh = TRUE
    UseCM = TRUE
    None = None
    Absent = Absent
    UpsetKinds = {"api", "nodes", "bmh", "fabric", "free", "groups", "limits"}
    MaxUpsets = 3
INVARIANTS ScansSettle LimitsSettle
PROPERTIES UnscannableUntouched
