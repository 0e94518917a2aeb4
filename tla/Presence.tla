------------------------------- MODULE Presence -------------------------------
(***************************************************************************)
(* DriversService: the driver's availability and location, and the two geo *)
(* indexes dispatch searches.  syncGeoIndex is three Redis commands, after *)
(* a write to the row in which others may come first.                      *)
(***************************************************************************)
EXTENDS ShiftStore

Calm == \A q \in Requests : ~InPresence(q)

\* The call in slot r begins; it is alone if no other presence call is in flight.
Begin(r, pc, status, mapped, next) ==
    /\ At(r, "idle") /\ Serving
    /\ Crowd(r, Presence(pc, status, mapped, next, Calm))
    /\ lagging' = (lagging \/ ~Calm)

\* The write of the row is done: the sync follows if there is a location.
SyncOr(r, status, mapped, next) ==
    Become(r, IF mapped THEN Presence("dropOnline", status, TRUE, next, req[r].alone)
                        ELSE Presence(next, status, FALSE, "idle", FALSE))

-------------------------------------------------------------------------------
(* setAvailability: the location is read before the status is written. *)

SetAvailability(r, status) ==
    /\ view.on
    /\ Begin(r, "setWrite", status, located, "setShow")
    /\ UNCHANGED <<driver, listed, start, view, bounds>>

SetWrite(r) ==
    /\ At(r, "setWrite")
    /\ avail' = req[r].status
    /\ SyncOr(r, req[r].status, req[r].mapped, "setShow")
    /\ UNCHANGED <<verification, located, listed, start, view, history>>

-------------------------------------------------------------------------------
(* updateLocation, called by the app's position watcher when the driver    *)
(* has moved, and when the watcher starts, while it does not show OFFLINE. *)
(* The status to list under is the one the update returns.                 *)

UpdateLocation(r) ==
    /\ view.on /\ view.avail # "OFFLINE"
    /\ Begin(r, "pingWrite", "OFFLINE", FALSE, "idle")
    /\ UNCHANGED <<driver, listed, start, view, bounds>>

\* (variant) The location is stored, the indexes are left to setAvailability.
PingWriteOnly(r) ==
    /\ At(r, "pingWrite")
    /\ located' = TRUE
    /\ Finish(r)
    /\ UNCHANGED <<avail, verification, listed, start, view, history>>

PingWrite(r) ==
    /\ At(r, "pingWrite")
    /\ located' = TRUE
    /\ SyncOr(r, avail, TRUE, "idle")
    /\ UNCHANGED <<avail, verification, listed, start, view, history>>

-------------------------------------------------------------------------------
(* syncGeoIndex *)

DropOnline(r) ==
    /\ At(r, "dropOnline")
    /\ listed' = listed \ {"ONLINE"}
    /\ Goto(r, "dropBusy")
    /\ UNCHANGED <<driver, start, view, history>>

\* (variant) Only the index of free drivers is cleared.
DropBusyForgotten(r) ==
    /\ At(r, "dropBusy")
    /\ Goto(r, "list")
    /\ UNCHANGED <<driver, listed, start, view, history>>

DropBusy(r) ==
    /\ At(r, "dropBusy")
    /\ listed' = listed \ {"BUSY"}
    /\ Goto(r, "list")
    /\ UNCHANGED <<driver, start, view, history>>

\* (variant) OFFLINE is an index like the others.
ListUnderAnyStatus(r) ==
    /\ At(r, "list")
    /\ listed' = listed \cup {req[r].status}
    /\ lagging' = (lagging /\ ~req[r].alone)
    /\ Finish(r)
    /\ UNCHANGED <<driver, start, view, bounds>>

\* The driver is listed under the status the sync was called with (OFFLINE is in
\* no index), and the indexes follow again if nobody came between.
List(r) ==
    /\ At(r, "list")
    /\ listed' = listed \cup ({req[r].status} \cap Indexes)
    /\ lagging' = (lagging /\ ~req[r].alone)
    /\ IF req[r].next = "setShow"
       THEN Become(r, Presence("setShow", req[r].status, FALSE, "idle", FALSE))
       ELSE Finish(r)
    /\ UNCHANGED <<driver, start, view, bounds>>

-------------------------------------------------------------------------------
(* The admin's decision: approve and reject both write OFFLINE, and leave the *)
(* indexes as they are.                                                       *)

Review(decision) ==
    /\ Limited /\ Serving
    /\ verification' = decision
    /\ avail' = "OFFLINE"
    /\ lagging' = TRUE
    /\ req' = [q \in Requests |-> [req[q] EXCEPT !.alone = FALSE]]
    /\ UNCHANGED <<located, listed, start, view>>

-------------------------------------------------------------------------------
(* onModuleInit: a restart ends all requests and rebuilds the indexes before  *)
(* any other is served.                                                       *)

Restart(r) ==
    /\ Limited
    /\ lagging' = TRUE
    /\ req' = [q \in Requests |-> IF q = r
                                  THEN Presence("bootOnline", "OFFLINE", FALSE, "bootRead", TRUE)
                                  ELSE Free]
    /\ UNCHANGED <<driver, listed, start, view>>

BootOnline(r) ==
    /\ At(r, "bootOnline")
    /\ listed' = listed \ {"ONLINE"}
    /\ Goto(r, "bootBusy")
    /\ UNCHANGED <<driver, start, view, history>>

BootBusy(r) ==
    /\ At(r, "bootBusy")
    /\ listed' = listed \ {"BUSY"}
    /\ Goto(r, "bootRead")
    /\ UNCHANGED <<driver, start, view, history>>

\* Drivers who are offline, unapproved or without a location are not listed again.
BootRead(r) ==
    /\ At(r, "bootRead")
    /\ IF avail \in Indexes /\ located /\ verification = "APPROVED"
       THEN /\ Become(r, Presence("dropOnline", avail, TRUE, "bootRead", TRUE))
            /\ UNCHANGED lagging
       ELSE Finish(r) /\ lagging' = FALSE
    /\ UNCHANGED <<driver, listed, start, view, bounds>>
===============================================================================
