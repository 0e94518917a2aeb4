SPECIFICATION Spec
CONSTANTS
    r1 = r1  r2 = r2  v1 = v1  v2 = v2  u1 = u1  u2 = u2
    Requests = {r1, r2}
    Vehicles = {v1, v2}
    NoVehicle = NoVehicle
    Upis = {u1, u2}
    NoUpi = NoUpi
    MaxCodes = 3
    MaxMethods = 2
    MaxVerifications = 2
    Mixes = {{"Login", "Data", "Crash"}, {"Methods", "Bank", "Crash"},
             {"Data", "Verify", "Decide", "Crash"}, {"Data", "Bank", "Verify"}}
SYMMETRY Symmetry
INVARIANTS
    TypeOK
    CodeLogsInOnce
    OnePreferred
    ApprovedIsInForce
    ApprovedWasVerified
CHECK_DEADLOCK FALSE
