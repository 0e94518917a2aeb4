------------------------------ MODULE DriverApp ------------------------------
(***************************************************************************)
(* The driver's app between the server and the driver: bootstrap after a   *)
(* sign-in, the poll of the driver's jobs, which every action of the app   *)
(* ends with too, and signing out.  A response is shown when it comes,     *)
(* whatever has been shown since its request left.                         *)
(***************************************************************************)
EXTENDS ShiftStore

server == <<driver, listed, start, history>>

\* Signing in mounts the tabs again, which bootstrap; the store still shows what it
\* did before.
Login(r) ==
    /\ ~view.on /\ At(r, "idle") /\ Serving
    /\ view' = [view EXCEPT !.on = TRUE]
    /\ Become(r, Reading("users", "OFFLINE", "NONE"))
    /\ UNCHANGED server

\* The server is told that the session ends, and nothing about the shift.
Logout ==
    /\ view.on
    /\ view' = [view EXCEPT !.on = FALSE]
    /\ UNCHANGED <<server, req>>

Users(r) ==
    /\ At(r, "users")
    /\ Become(r, Reading("usersShow", avail, "NONE"))
    /\ UNCHANGED <<server, view>>

UsersShow(r) ==
    /\ At(r, "usersShow")
    /\ view' = [view EXCEPT !.avail = req[r].status]
    /\ Refresh(r)
    /\ UNCHANGED server

-------------------------------------------------------------------------------
(* refreshJobs *)

Poll(r) ==
    /\ At(r, "idle") /\ Serving
    /\ view.on
    /\ Refresh(r)
    /\ UNCHANGED <<server, view>>

\* getDriverJobs reads the driver, then the trip.
Jobs(r) ==
    /\ At(r, "jobs")
    /\ Become(r, Reading("jobsTrip", avail, "NONE"))
    /\ UNCHANGED <<server, view>>

JobsTrip(r) ==
    /\ At(r, "jobsTrip")
    /\ Become(r, Reading("jobsShow", req[r].status, IF trip \in ActiveTrip THEN trip ELSE "NONE"))
    /\ UNCHANGED <<server, view>>

\* (variant) A current job is not taken for BUSY.
ShownStatusAsRead(status, job) == status

\* A driver with a current job is shown as BUSY, whatever the row says.
ShownStatus(status, job) == IF job # "NONE" THEN "BUSY" ELSE status

JobsShow(r) ==
    /\ At(r, "jobsShow")
    /\ view' = [view EXCEPT !.avail = ShownStatus(req[r].status, req[r].trip),
                            !.trip = req[r].trip]
    /\ Finish(r)
    /\ UNCHANGED server

\* setAvailability has been answered: what was tapped is shown.
SetShow(r) ==
    /\ At(r, "setShow")
    /\ view' = [view EXCEPT !.avail = req[r].status]
    /\ Finish(r)
    /\ UNCHANGED server
===============================================================================
