-------------------------------- MODULE MCRides --------------------------------
(* Small instances of Rides for TLC. *)
EXTENDS Rides, TLC

CONSTANTS o1, o2, d1, d2, r1, r2

\* Every order asks for the smallest vehicle and every driver has the middle one.
SameVehicle == [o \in Orders |-> 1]
MiddleVehicle == [d \in Drivers |-> 2]
\* Order o2 asks for the largest vehicle; every driver has the smallest.
OneLargeOrder == [o \in Orders |-> IF o = o2 THEN 3 ELSE 1]
SmallVehicle == [d \in Drivers |-> 1]
\* Order o2 asks for the middle vehicle, which driver d2 has and driver d1 has not.
MiddleOrder == [o \in Orders |-> IF o = o2 THEN 2 ELSE 1]
SmallAndMiddle == [d \in Drivers |-> IF d = d2 THEN 2 ELSE 1]
\* Every order has its own customer.
OwnCustomer == [o \in Orders |-> o]

Symmetric == Permutations(Drivers) \cup Permutations(Requests) \cup Permutations(Orders)
\* Where orders and drivers differ in their vehicles, only the requests are alike.
SymmetricRequests == Permutations(Requests)
===============================================================================
