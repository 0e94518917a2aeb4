SPECIFICATION IsolatedSpec
CONSTANTS
    o1 = o1  o2 = o2  d1 = d1  d2 = d2  r1 = r1  r2 = r2
    None = None
    Orders = {o1, o2}
    Drivers = {d1, d2}
    Offers = {1, 2, 3}
    Requests = {r1, r2}
    OrderVehicle <- SameVehicle
    DriverVehicle <- MiddleVehicle
    Customer <- OwnCustomer
    MaxActiveBookings = 3
    Operations = {"create", "poll", "accept", "reject", "sweep", "cancel", "fail", "enRoute", "arrive", "transit", "complete", "offerTtl"}
SYMMETRY Symmetric
INVARIANTS
    CancellationIsComplete
    OrderFollowsTrip
    
    SearchSkipsTriedDrivers
PROPERTIES
    FollowsLifecycle
CHECK_DEADLOCK FALSE
