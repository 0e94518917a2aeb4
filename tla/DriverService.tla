----------------------------- MODULE DriverService -----------------------------
(***************************************************************************)
(* modules/drivers/drivers.service.ts: how a driver comes to be listed in  *)
(* the geo index dispatch searches.  Each handler writes Postgres, then    *)
(* moves the driver between the two Redis indexes; here that is one step.  *)
(***************************************************************************)
EXTENDS RideStore

SetAvailability(d, status) ==
    /\ "presence" \in Operations
    /\ avail[d] # status \/ geo[d] # status
    /\ avail' = [avail EXCEPT ![d] = status]
    /\ geo' = [geo EXCEPT ![d] = status]
    /\ UNCHANGED <<order, due, offer, trip, nextOrder, req>>

\* A location update copies the stored availability to the index: until it
\* comes, the index shows what the driver was.
UpdateLocation(d) ==
    /\ "location" \in Operations
    /\ geo[d] # avail[d]
    /\ geo' = [geo EXCEPT ![d] = avail[d]]
    /\ UNCHANGED <<order, due, offer, trip, avail, nextOrder, req>>
===============================================================================
