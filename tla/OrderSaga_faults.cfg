CONSTANTS
    Order = o1
    Scenarios <- OneFault
    MaxReservations = 3
    MaxShipments = 4
SPECIFICATION Spec
INVARIANTS FulfilledOnlyIfPaid ShippedFromStock ChargedOnlyIfReserved OneShipmentPerEvent
CHECK_DEADLOCK FALSE
