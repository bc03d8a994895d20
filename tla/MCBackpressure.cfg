SPECIFICATION Spec
CONSTANTS
    Window = 3
    Tasks = 1
    Pings = 1
    Queue = 1
    Pipe = 1
INVARIANT SomebodyMoves
CHECK_DEADLOCK FALSE
