CONSTANTS
    Order = o1
    Scenarios <- Interventions
    MaxReservations = 2
    MaxShipments = 3
SPECIFICATION FairSpec
PROPERTY CancellationReleases
CHECK_DEADLOCK FALSE
