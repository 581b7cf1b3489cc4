CONSTANTS
    Order = o1
    Scenarios <- Paid
    MaxReservations = 2
    MaxShipments = 3
SPECIFICATION Spec
INVARIANT ShippedOnce
CHECK_DEADLOCK FALSE
