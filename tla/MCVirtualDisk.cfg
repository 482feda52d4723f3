SPECIFICATION Spec
CONSTANTS
    u1 = u1
    u2 = u2
    short = short
    long = long
    cut = cut
    empty = empty
    tiny = tiny
    large = large
    Users <- MCUsers
    BlockCount = 4
    BlockSize = 2
    MaxFiles = 3
    Names <- MCNames
    Stored <- MCStored
    Contents <- MCContents
    SizeOf <- MCSizeOf
VIEW View
SYMMETRY Symmetry
INVARIANTS TypeOK NoSharedBlocks UniqueNames FirstFitRight MapShowsFree CopiesOutWhole
PROPERTY ImplementsStore
