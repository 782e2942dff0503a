CONSTANTS
    Payload = {p1, p2}
    NoRecord = NoRecord
    Unreadable = Unreadable
    Idle = Idle
    SeqLimit = 6
SPECIFICATION Spec
INVARIANT NewestSurvives
PROPERTIES NeverRollsBack ImplementsRegister
