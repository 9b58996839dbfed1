SPECIFICATION MCSpec
CONSTANTS
    s1 = s1
    Sandboxes = {s1}
    g1 = g1
    g2 = g2
    Goroutines = {g1, g2}
    Companions = {}
    StoreMayFail = FALSE
    MaxLog = 4
PROPERTY DeletedIsFinal
