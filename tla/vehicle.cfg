SPECIFICATION Spec
CONSTANTS
    o1 = o1  o2 = o2  d1 = d1  d2 = d2  r1 = r1  r2 = r2
    None = None
    Orders = {o1, o2}
    Drivers = {d1}
    Offers = {1, 2, 3}
    Requests = {r1}
    OrderVehicle <- OneLargeOrder
    DriverVehicle <- SmallVehicle
    Customer <- OwnCustomer
    MaxActiveBookings = 3
    Operations = {"create", "poll", "accept", "enRoute", "arrive", "load", "transit", "offerTtl"}
INVARIANTS
    OffersFitVehicle
CHECK_DEADLOCK FALSE
