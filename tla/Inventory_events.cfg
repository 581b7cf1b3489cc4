CONSTANTS
    Calls = {c1, c2}
    Orders = {o1}
    MaxReservations = 1
SPECIFICATION Spec
INVARIANT EventsTellTheStatus
