SPECIFICATION VSpec
CONSTANTS
    t1 = t1
    t2 = t2
    t3 = t3
    u1 = u1
    u2 = u2
    VTags <- MCTags
    VThreads <- MCThreads
    MaxPoints = 2
    MaxDegree = 1
    MaxInserts = 3
    MaxSaves = 1
    Zero = Zero
    Blank = Blank

PROPERTY SavesAssociatedTags
