SPECIFICATION Spec
CONSTANTS
    o1 = o1  o2 = o2  d1 = d1  d2 = d2  r1 = r1  r2 = r2
    None = None
    Orders = {o1, o2}
    Drivers = {d1, d2}
    Offers = {1, 2, 3}
    Requests = {r1, r2}
    OrderVehicle <- MiddleOrder
    DriverVehicle <- SmallAndMiddle
    Customer <- OwnCustomer
    MaxActiveBookings = 3
    Operations = {"create", "accept", "enRoute", "transit", "complete", "slotTtl", "fail", "cancel"}
SYMMETRY SymmetricRequests
INVARIANTS
    QueueSlotIsOwnTrip
    OffersFitOrFollow
CHECK_DEADLOCK FALSE
