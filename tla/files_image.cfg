SPECIFICATION Spec
CONSTANTS
    Word = 64
    File = {"a", "b"}
    MaxSlots = 2
    SectorSlots = 1
    MaxOpens = 2
    MaxSize = 1
    MaxBack = 1
PROPERTY ImagesRead
