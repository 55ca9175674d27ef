SPECIFICATION Spec
CONSTANTS
    Processes = {p1, p2, p3}
    Inodes = {i1, i2, i3, i4, i5}
    NoInode = NoInode
    NoProcess = NoProcess
SYMMETRY Symmetry
INVARIANTS LockInv ExclusiveUnlessStray TmpSafeUnlessStray
