SPECIFICATION MCSpec
CONSTANTS
    a = a
    b = b
    c = c
    t1 = t1
    t2 = t2
    t3 = t3
    NoTurn = NoTurn
    Sends = {a, b, c}
    Turns = {t1, t2, t3}
    Repeats = FALSE
INVARIANTS OwnTurn Stoppable
PROPERTIES EveryCallReturns
CHECK_DEADLOCK FALSE
