SPECIFICATION Spec
CONSTANTS
    Word = 64
    File = {"a"}
    MaxSlots = 1
    SectorSlots = 1
    MaxOpens = 3
    MaxSize = 1
    MaxBack = 0
INVARIANTS TypeOK DescriptorsDistinct OwnFile ReachedUnlessTaken
