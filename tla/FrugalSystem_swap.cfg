SPECIFICATION Spec
CONSTANTS
    Edits = {e0, e1, e2}
    Original = {e0}
    Snaps = {snap1}
    SnapFile = snap1
    MaxMounts = 2
    NoSnap = NoSnap
INVARIANT BaseSwapIsAtomic
