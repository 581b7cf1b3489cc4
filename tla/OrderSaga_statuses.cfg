CONSTANTS
    Order = o1
    Scenarios <- Interventions
    MaxReservations = 2
    MaxShipments = 3
SPECIFICATION Spec
PROPERTIES CancellationIsPermanent CompletedOnlyRefunded
CHECK_DEADLOCK FALSE
