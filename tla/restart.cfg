SPECIFICATION Spec
CONSTANTS
    p1 = p1  p2 = p2  f1 = f1  f2 = f2  drv1 = drv1  drv2 = drv2
    Processes = {p1}
    NumModels = 2
    Fabrics = {f1}
    Drivers = {drv1, drv2}
    DriverOf <- MCDriverOf
    MaxDevices = 1
    NoPool = NoPool
    MaxLives = 2
    MaxScans = 2
    MaxFailures = 1
    MaxGeneration = 1
CHECK_DEADLOCK FALSE
INVARIANTS TypeOK CleanExit IdleHavePublished
PROPERTIES ShutdownEnds EventuallyPublished
