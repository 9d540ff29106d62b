CONSTANTS
    k_num_classes = 3  MaxClassBit = 3  BsrlOfZero = {0}  InitialSize = 1  Hugepages = 48
    Sizes = {1, 2, 3, 4, 8}  MaxBuffers = 3
SPECIFICATION Spec
INVARIANTS TypeOK NoOverlap Conserved LargeEnough ClassIndexRight
CHECK_DEADLOCK FALSE
