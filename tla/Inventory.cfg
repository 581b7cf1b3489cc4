CONSTANTS
    Calls = {c1, c2}
    Orders = {o1, o2}
    MaxReservations = 2
SPECIFICATION Spec
INVARIANTS AnnouncedIsSettled
PROPERTY SettledIsFinal
