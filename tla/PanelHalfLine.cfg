CONSTANTS
    Button = {1}
    RING_COUNT = 2
    Renderable = {1}
    Lines <- MCLines
    LineMax = 3
    RxMax = 2
    AirMax = 1
    TcpsWorks = FALSE
    Unknown = Unknown
    MaxConns = 2
    MaxLines = 2
SPECIFICATION Spec
INVARIANT HalfLinesDropped
