\* Two keys, one of them with exclusive callers, and two goroutines.
SPECIFICATION Spec
CONSTANTS
    Keys = {check, confirmed}
    check = check
    confirmed = confirmed
    Values = {e1, e2}
    e1 = e1
    e2 = e2
    Goroutines = {g1, g2}
    g1 = g1
    g2 = g2
    Exclusive = {check}
    MaxAppends = 2
INVARIANTS TypeOK NeverMultiplied
 
