SPECIFICATION PagesSpec
CONSTANTS
    Unit = 1
    Fine = 2
    Typed = {0, 7}
    Markets = {m1, m2}
    MaxOrders = 2
    Texts = {x, y}
    PhraseLength = 2
INVARIANT OneOrderAtATime FormAddsUp NoStepSkipped
PROPERTY WaitingEnds
CHECK_DEADLOCK FALSE
