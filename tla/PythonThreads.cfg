CONSTANTS
    Thread = {t1, t2, t3}
    Manager = {m1, m2}
    Inst = {i1}
    MaxSession = 2
    None = None
SPECIFICATION PyFairSpec
INVARIANTS
    BoundedOvertaking
PROPERTIES
    HeldCallsReturn
