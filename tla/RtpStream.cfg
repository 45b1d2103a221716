SPECIFICATION Spec
CONSTANTS
    Recorded <- MCRecorded
    Beyond = 255
    MaxFragment = 3
    Word = 8
    SeqWord = 3
    Units = 6
    Milli = 3
    Rollover = 1
    Gaps = {0, 2}
INVARIANT TypeOK
INVARIANT DecodeIsExact
INVARIANT PacketsReassemble
PROPERTY SequenceContinues
