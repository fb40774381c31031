SPECIFICATION MCSpecTwo
CONSTANTS
    n1 = n1  n2 = n2  u1 = u1  u2 = u2  f1 = f1  f2 = f2  mine = mine  yours = yours
    Nodes = {n1, n2}
    ProviderIDs = {u1, u2}
    Fabrics = {f1, f2}
    OtherLabels = {mine, yours}
    UseCapiBmh = FALSE
    None = None
    Absent = Absent
    UpsetKinds = {"fabric"}
    MaxUpsets = 1
PROPERTIES EventuallyNoFalseLabel
