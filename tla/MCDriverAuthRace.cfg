SPECIFICATION Spec
CONSTANTS
    a = a
    b = b
    f1 = f1
    f2 = f2
    Calls = {a, b}
    Families = {f1, f2}
    MaxGen = 2
    MayRestart = FALSE
INVARIANT
    HonestClientNotRevoked
CHECK_DEADLOCK FALSE
