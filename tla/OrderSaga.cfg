CONSTANTS
    Order = o1
    Scenarios <- Quiet
    MaxReservations = 2
    MaxShipments = 3
SPECIFICATION FairSpec
PROPERTY PaidGetsShipped
CHECK_DEADLOCK FALSE
