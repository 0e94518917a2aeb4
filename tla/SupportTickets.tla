---------------------------- MODULE SupportTickets ----------------------------
(***************************************************************************)
(* SupportService: one support ticket.  A customer's message is translated *)
(* between the read of the ticket and the transaction that stores the      *)
(* message, and the status written is computed from what was read.  An     *)
(* admin's update reads the status too, to say so when it changes it.      *)
(***************************************************************************)
EXTENDS Integers

CONSTANTS
    Requests,   \* slots for requests in flight: the bound on concurrency
    NoReading   \* nothing that has read the ticket is on its way in this slot

VARIABLES
    ticket,     \* SupportTicket: status, and whether resolvedAt is set
    message,    \* message[r]: the status that addUserMessage in slot r has read
    update,     \* update[r]: the status that adminUpdateStatus in slot r has read
    unanswered, \* history: the latest message of the ticket is the customer's
    missed,     \* history: the slots whose update read before the customer's last message
    overlooked  \* history: such an update has been written since, without a message

support == <<ticket, message, update, unanswered, missed, overlooked>>

TicketStatus == {"OPEN", "IN_PROGRESS", "WAITING_FOR_USER", "RESOLVED"}
ASSUME NoReadingIsNoReading == NoReading \notin TicketStatus

SupportInit ==
    /\ ticket = [status |-> "NONE", resolved |-> FALSE]
    /\ message = [r \in Requests |-> NoReading]
    /\ update = [r \in Requests |-> NoReading]
    /\ unanswered = FALSE
    /\ missed = {} /\ overlooked = FALSE

Written == ticket.status # "NONE"
Store(status, resolved) == ticket' = [status |-> status, resolved |-> resolved]
Free(r) == message[r] = NoReading /\ update[r] = NoReading

\* A message is added to the ticket, by the customer or by the desk.
Said(byCustomer) == unanswered' = byCustomer /\ overlooked' = FALSE

CreateTicket ==
    /\ ~Written
    /\ Store("OPEN", FALSE)
    /\ Said(TRUE)
    /\ UNCHANGED <<message, update, missed>>

-------------------------------------------------------------------------------
(* addUserMessage *)

MessageRead(r) ==
    /\ Written /\ Free(r)
    /\ message' = [message EXCEPT ![r] = ticket.status]
    /\ UNCHANGED <<ticket, update, unanswered, missed, overlooked>>

\* (variant) Only a resolved ticket is reopened.
ReopenedIfResolved(status) == IF status = "RESOLVED" THEN "IN_PROGRESS" ELSE status

Reopened(status) ==
    IF status \in {"RESOLVED", "WAITING_FOR_USER"} THEN "IN_PROGRESS" ELSE status

MessageWrite(r) ==
    /\ message[r] # NoReading
    /\ Store(Reopened(message[r]), FALSE)
    /\ message' = [message EXCEPT ![r] = NoReading]
    /\ Said(TRUE)
    /\ missed' = {s \in Requests : update[s] # NoReading}
    /\ UNCHANGED update

\* The translation throws or the process dies: nothing is stored.
MessageFails(r) ==
    /\ message[r] # NoReading
    /\ message' = [message EXCEPT ![r] = NoReading]
    /\ UNCHANGED <<ticket, update, unanswered, missed, overlooked>>

-------------------------------------------------------------------------------
(* adminReply and adminUpdateStatus, called by the console or by the agent *)

AdminReply ==
    /\ Written
    /\ Store("WAITING_FOR_USER", FALSE)
    /\ Said(FALSE)
    /\ UNCHANGED <<message, update, missed>>

\* adminUpdateStatus reads the ticket,
StatusRead(r) ==
    /\ Written /\ Free(r)
    /\ update' = [update EXCEPT ![r] = ticket.status]
    /\ UNCHANGED <<ticket, message, unanswered, missed, overlooked>>

\* and its transaction writes the status whatever the ticket has become, with a
\* message only if the status differs from the one read or the admin adds a note.
StatusWrite(r, status, note) ==
    /\ update[r] # NoReading
    /\ Store(status, status = "RESOLVED")
    /\ IF status # update[r] \/ note
       THEN Said(FALSE)
       ELSE /\ overlooked' = (overlooked \/ r \in missed)
            /\ UNCHANGED unanswered
    /\ update' = [update EXCEPT ![r] = NoReading]
    /\ missed' = missed \ {r}
    /\ UNCHANGED message

\* The process dies in between, or the transaction throws: nothing is stored.
StatusFails(r) ==
    /\ update[r] # NoReading
    /\ update' = [update EXCEPT ![r] = NoReading]
    /\ missed' = missed \ {r}
    /\ UNCHANGED <<ticket, message, unanswered, overlooked>>
===============================================================================
