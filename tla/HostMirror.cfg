SPECIFICATION Spec
CONSTANTS
    Lines = {blank, a, b}
    Blank = blank
    NoLine = NoLine
    Texts = {x}
    NoText = NoText
    Congestion = {TRUE, FALSE}
    MaxQueue = 2
    MaxPresses = 2
    MaxIdle = 2
INVARIANTS RepeatsAreShown CancelsFirst
PROPERTIES KeysAreAnswered
