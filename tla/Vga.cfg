SPECIFICATION Spec
CONSTANTS
    Period = 5
    Threshold = 3
    Lines = 3
    Pens = {0}
    Border = 16
    Colours = {black, white}
    Modes = {0}
    Patience = 9
    Blank = blank
    FirstPen = 0
    FirstColour = black
    FirstMode = 0
INVARIANTS TypeOK CounterNotAhead
PROPERTIES RequestsApart
