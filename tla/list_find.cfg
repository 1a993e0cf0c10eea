SPECIFICATION Spec
CONSTANTS
    t1 = t1
    t2 = t2
    t3 = t3
    f1 = f1
    f2 = f2
    f3 = f3
    o1 = o1
    o2 = o2
    o3 = o3
    NoFile = NoFile
    NoObject = NoObject
    Threads <- TwoThreads
    Files <- TwoFiles
    Objects <- TwoObjects
SYMMETRY WalkSymmetry
PROPERTIES FindsTheFileObject
