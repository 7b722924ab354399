SPECIFICATION FairSpec
CONSTANTS
    Lower = 1
    Size = 4
    BlockSize = 2
    Address <- MCAddress
    Byte = {0, 1}
    Zero = 0
    Datas <- MCDatas
    Words <- MCWords
    Masks <- MCMasks
INVARIANTS TypeOK PutLoop BlocksInMemory
PROPERTIES IsFlat PutEnds
