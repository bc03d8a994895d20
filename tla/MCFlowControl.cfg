SPECIFICATION FairSpec
CONSTANTS
    x1 = x1  x2 = x2  NoStream = NoStream
    Streams <- TwoStreams
    Chunk <- MixedChunks
    Window = 3
    Frames = 3
    Buffer = 1
    Slow = {x1}
INVARIANTS TypeOK CreditConserved WindowRespected NeverStuck
PROPERTIES BodyDelivered ReadLoopReturns
CHECK_DEADLOCK FALSE
