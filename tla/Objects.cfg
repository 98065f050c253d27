SPECIFICATION Spec
CONSTANTS
    Idle = idle
    Worker = w
    One = {a}
    Two = {a, b}
    Three = {a, b, c}
    Queue = queue1
    Queue2 = queue2
    Data = {x, y}
SYMMETRY Symmetry
INVARIANTS NoLostWakeup NoneLost
PROPERTIES ImplementsChannel
