SPECIFICATION Spec
CONSTANTS
    p1 = p1  p2 = p2  f1 = f1  f2 = f2  drv1 = drv1  drv2 = drv2
    Processes = {p1, p2}
    NumModels = 1
    Fabrics = {f1}
    Drivers = {drv1, drv2}
    DriverOf <- MCDriverOf
    MaxDevices = 1
    NoPool = NoPool
    MaxLives = 1
    MaxScans = 2
    MaxFailures = 1
    MaxGeneration = 3
CHECK_DEADLOCK FALSE
PROPERTIES CleanupSparesPools PublishedStays EventuallyPublished
