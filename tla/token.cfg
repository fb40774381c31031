SPECIFICATION Spec
CONSTANTS
    MarginTime = 1
    CDIAPITimeOut = 2
    Lifetimes = {4, 6}
    Credentials = {c1, c2}
    MaxUpsets = 3
    None = None
    Refused = Refused
CHECK_DEADLOCK FALSE
INVARIANTS TypeOK ExpiresForCause StopIsPrompt
PROPERTIES FreshWhenPossible Recovers
