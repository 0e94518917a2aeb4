SPECIFICATION Spec
CONSTANTS
    o1 = o1  o2 = o2  d1 = d1  d2 = d2  r1 = r1  r2 = r2
    None = None
    Orders = {o1}
    Drivers = {d1, d2}
    Offers = {1, 2, 3}
    Requests = {r1, r2}
    OrderVehicle <- SameVehicle
    DriverVehicle <- MiddleVehicle
    Customer <- OwnCustomer
    MaxActiveBookings = 3
    Operations = {"create", "poll", "sweep", "offerTtl"}
SYMMETRY Symmetric
INVARIANTS
    SearchSkipsTriedDrivers
CHECK_DEADLOCK FALSE
