--------------------------------- MODULE Desk ---------------------------------
(***************************************************************************)
(* The support desk: a customer and the admins on one ticket, and an agent *)
(* whose confirmed actions change it too.                                  *)
(***************************************************************************)
EXTENDS AgentActions

CONSTANTS
    MaxCrashes, \* bound on processes that die and database calls that throw
    Mixes       \* bound on what happens in one behaviour: sets of events

VARIABLES
    crashes,    \* how many there have been
    mix         \* the events of this behaviour, one of Mixes

bounds == <<crashes, mix>>
vars == <<support, agent, bounds>>

Init == SupportInit /\ AgentInit /\ crashes = 0 /\ mix \in Mixes

Happens(event) == event \in mix

Customer ==
    /\ Happens("Customer")
    /\ \/ CreateTicket
       \/ \E r \in Requests : \/ At(r, "idle") /\ MessageRead(r)
                              \/ MessageWrite(r) \/ MessageFails(r)
    /\ UNCHANGED <<agent, bounds>>

Console ==
    /\ Happens("Console")
    /\ \/ AdminReply
       \/ \E r \in Requests :
              /\ At(r, "idle")
              /\ \/ StatusRead(r) \/ StatusFails(r)
                 \/ \E s \in TicketStatus, note \in BOOLEAN : StatusWrite(r, s, note)
    /\ UNCHANGED <<agent, bounds>>

Process ==
    /\ \/ ToolCall
       \/ (Ask \/ Settle \/ Complete \/ GiveUp) /\ UNCHANGED support
    /\ UNCHANGED bounds

Carry(r) ==
    /\ \/ Execute(r) \/ ExecuteUpdate(r)
       \/ /\ \/ ConfirmWrite(r) \/ Mark(r) \/ RejectWrite(r)
             \/ Count(r) \/ KeepWaiting(r) \/ CountFailed(r) \/ EndRun(r)
          /\ UNCHANGED support
    /\ UNCHANGED bounds

Admin ==
    /\ \/ Happens("Agent") /\ SendMessage
       \/ \E r \in Requests, a \in Actions :
              Confirm(r, a) \/ (Happens("Reject") /\ Reject(r, a))
    /\ UNCHANGED <<support, bounds>>

Crash ==
    /\ Happens("Crash") /\ crashes < MaxCrashes
    /\ \/ (Throws \/ RunnerDies) /\ UNCHANGED support
       \/ \E r \in Requests : CallDies(r)
    /\ crashes' = crashes + 1
    /\ UNCHANGED mix

Next == Customer \/ Console \/ Admin \/ Process \/ (\E r \in Requests : Carry(r)) \/ Crash

Spec == Init /\ [][Next]_vars

\* processRun goes on as long as its process lives: the model answers or errs, the
\* database answers or throws.  Nothing else has to happen.
FairSpec == Spec /\ WF_vars(Process)

-------------------------------------------------------------------------------
TypeOK ==
    /\ ticket \in [status : TicketStatus \cup {"NONE"}, resolved : BOOLEAN]
    /\ message \in [Requests -> TicketStatus \cup {NoReading}]
    /\ update \in [Requests -> TicketStatus \cup {NoReading}]
    /\ unanswered \in BOOLEAN
    /\ missed \subseteq Requests
    /\ overlooked \in BOOLEAN
    /\ run \in RunStatus
    /\ runner \in [pc : RunnerSteps, calls : 0..MaxToolCalls, proposed : BOOLEAN]
    /\ action \in [Actions -> [status : ActionStatus, type : ActionType,
                               confirmed : BOOLEAN]]
    /\ call \in [Requests -> [pc : CallSteps, act : Actions]]
    /\ ran \in [Actions -> 0..2]
    /\ contested \subseteq Actions
    /\ unsettled \in BOOLEAN
    /\ crashes \in Nat

\* The customer's last word is not filed away: a ticket whose latest message is the
\* customer's is open or in progress, although its status was computed from readings
\* that others have overtaken.  There is one way past it: an update that was under way
\* when the message came, and that adds no message since it writes what it has read.
CustomerIsHeard ==
    unanswered /\ ~overlooked => ticket.status \in {"OPEN", "IN_PROGRESS"}

\* No tool changes anything before an admin has confirmed the action, whatever
\* decisions overlap.
NothingUnconfirmed == \A a \in Actions : ran[a] > 0 => action[a].confirmed

\* An action on which no decisions overlapped or died is what its row says: proposed
\* or rejected, it never ran; executed, it ran once; failed, it ran at most once; and
\* it is never left half confirmed.
DecisionHolds ==
    \A a \in Actions \ contested :
        /\ action[a].status \in {"PROPOSED", "REJECTED"} => ran[a] = 0
        /\ action[a].status = "EXECUTED" /\ action[a].type = "WRITE" => ran[a] = 1
        /\ ran[a] <= 1
        /\ action[a].status = "CONFIRMED" => Deciding(a) # {}

\* The run says whether anything is left to decide, if decisions came one at a time:
\* completed, there is none; waiting, there is one; and it does not go on running.
RunStatusIsTrue ==
    Undisturbed /\ ~unsettled =>
        /\ run = "COMPLETED" => ~Some(Pending)
        /\ run = "WAITING_CONFIRMATION" => Some(Pending)
        /\ run # "RUNNING"

\* Why it is so.  What an update has read that is younger than the customer's message:
Seen ==
    /\ \A r \in Requests : update[r] # NoReading => Written
    /\ unanswered /\ ~overlooked =>
           \A r \in Requests \ missed : update[r] \in {"OPEN", "IN_PROGRESS", NoReading}
\* what the rows of tool calls not made yet hold, and the runner at rest:
Fresh ==
    /\ run = "NONE" => Working("idle") /\ \A a \in Actions : action[a].status = "NONE"
    /\ \A a \in Actions : action[a].status = "NONE" => ran[a] = 0
    /\ ~Working("idle") => \A a \in Actions : a > runner.calls => action[a].status = "NONE"
    /\ Working("idle") => runner.calls = 0 /\ ~runner.proposed
    /\ runner.pc \in {"ask", "tools"} => runner.calls < MaxToolCalls
\* what a decision in flight knows of its action, and more if it is alone:
Known ==
    /\ \A a \in Actions : action[a].status \in Pending => action[a].type = "WRITE"
    /\ \A r \in Requests : LET row == action[call[r].act] IN
           /\ ~At(r, "idle") => row.status # "NONE" /\ row.type = "WRITE"
           /\ call[r].pc \in {"execute", "update"} => row.confirmed
Sole ==
    \A r, q \in Requests :
        ~At(r, "idle") /\ ~At(q, "idle") /\ call[r].act = call[q].act /\ r # q
            => call[r].act \in contested
Course ==
    \A r \in Requests : LET a == call[r].act IN
        a \notin contested =>
            /\ call[r].pc \in {"confirm", "reject"} => action[a].status = "PROPOSED"
            /\ call[r].pc \in {"execute", "update", "markDone", "markFailed"} =>
                   action[a].status = "CONFIRMED"
            /\ call[r].pc \in {"execute", "update"} => ran[a] = 0
            /\ At(r, "markDone") => ran[a] = 1
            /\ call[r].pc \in {"count", "keepWaiting", "countFailed", "endDone", "endFailed"} =>
                   action[a].status \notin Pending
\* and what the run's status follows from, when decisions come one at a time.
Settled ==
    ~unsettled =>
        /\ \A r, q \in Requests : ~At(r, "idle") /\ ~At(q, "idle") => r = q
        /\ ~Working("idle") =>
               /\ \A r \in Requests : At(r, "idle")
               /\ runner.proposed <=> Some(Pending)
               /\ runner.pc \in {"ask", "complete"} => ~runner.proposed
        /\ \A r \in Requests :
               /\ At(r, "keepWaiting") => Some(Pending)
               /\ call[r].pc \in {"countFailed", "endDone", "endFailed"} => ~Some(Pending)
        /\ run = "RUNNING" => ~Working("idle")

IInv ==
    /\ TypeOK /\ CustomerIsHeard /\ NothingUnconfirmed /\ DecisionHolds /\ RunStatusIsTrue
    /\ Seen /\ Fresh /\ Known /\ Sole /\ Course /\ Settled

\* A run ends, or its process does: the limit on tool calls stops a model that would
\* go on asking for tools.
RunEnds == run = "RUNNING" ~> (run # "RUNNING" \/ Working("idle"))
===============================================================================
