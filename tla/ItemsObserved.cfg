SPECIFICATION Spec
CONSTANTS
    b1 = b1
    s1 = s1
    s2 = s2
    x = x
    y = y
    Building = {b1}
    Slot = {s1, s2}
    Item = {x, y}
    Empty = Empty
    Nothing = Nothing
    StartItems <- OneItem
    Hidings <- OneOrHero
    MaxEvents = 4
    RecentEventsAPI = 2
    MaxObservationsAPI = 1
    MaxHealth = 1
    MaxChanges = 2
    MaxTicks = 3
    MaxHidings = 1
    MaxFaults = 1
INVARIANTS
    ItemsObserved
CHECK_DEADLOCK FALSE
