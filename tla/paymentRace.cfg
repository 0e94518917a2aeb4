SPECIFICATION Spec
CONSTANTS
    g1 = g1  g2 = g2  r1 = r1  r2 = r2
    GatewayOrders = {g1, g2}
    Requests = {r1, r2}
PROPERTIES
    DeliveryIsPaid
