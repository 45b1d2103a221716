SPECIFICATION Spec
CONSTANTS
    Capacity = 2
    Sizes = {1, 2}
    MaxFrames = 2
    HeaderLen = 1
    MaxLens = {1, 2}
PROPERTY SizedCopySucceeds
