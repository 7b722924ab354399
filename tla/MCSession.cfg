SPECIFICATION FairSpec
CONSTANTS
    a = a
    b = b
    t = t
    nopath = nopath
    nofile = nofile
    Path = {a, b, t}
    NoPath = nopath
    ElfPath = {a, b}
    File <- MCFile
    NoFile = nofile
    Lower = 0
    Upper = 3
    Byte = {0, 1}
    Zero = 0
    Pc = {0, 1}
    ResetPc = 0
    Stored = {1}
    Script <- MCScript
INVARIANTS TypeOK WholeIfLoadable CompleteImage NoMixture RestartIsFresh FreshStart
PROPERTY ComesBack
