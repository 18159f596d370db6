\* Files of up to two chunks within the limit and one above it.
CONSTANTS
    Limit = 2
    MaxSize = 3
SPECIFICATION PipeFairSpec
PROPERTIES ImplementsFileTransfer WriterEnds GoneEndsCall
CHECK_DEADLOCK FALSE
