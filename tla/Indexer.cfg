CONSTANTS
    f1 = f1
    f2 = f2
    root = root
    sub = sub
    Dirs <- TwoDirs
    Root = root
    Files <- TwoFiles
    DirOf <- Places
    Versions = {1, 2}
    MaxChunks = 2
    ChunkCount <- Sizes
    MaxEvents = 2
SPECIFICATION FairSpec
INVARIANTS
    TypeOK
    NoMixture
    

    
