CONSTANTS
    Order = o1
    Scenarios <- Paid
    MaxReservations = 2
    MaxShipments = 3
SPECIFICATION FairSpec
PROPERTY PaidIsCompleted
CHECK_DEADLOCK FALSE
