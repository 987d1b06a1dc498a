CONSTANTS
    Node = {n1, n2, n3, n4}
    Sentinel = Sentinel
    None = None
    MaxScheduled = 4
SPECIFICATION Spec
INVARIANT NoTaskDropped
