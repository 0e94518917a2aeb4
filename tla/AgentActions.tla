----------------------------- MODULE AgentActions -----------------------------
(***************************************************************************)
(* The admin's AI agent: AgentOrchestratorService works on one run,        *)
(* AgentExecutionService proposes, confirms, executes and rejects its      *)
(* actions.  What the language model answers is left open.  A round trip   *)
(* to the database, the model or a tool is a step; the messages appended   *)
(* for the reader are folded into their neighbours.                        *)
(***************************************************************************)
EXTENDS SupportTickets, FiniteSets

CONSTANTS MaxToolCalls  \* policy.maxToolCallsPerRun

ASSUME SomeToolCalls == MaxToolCalls \in Nat \ {0}

VARIABLES
    run,        \* AgentRun.status
    runner,     \* processRun: its step, toolCallsCount, whether the batch has a proposal
    action,     \* AgentAction rows, by tool call: status, actionType, whether confirmedAt is set
    call,       \* call[r]: the admin's confirmation or rejection in slot r
    ran,        \* history: how often the action's tool took effect, counted up to 2
    contested,  \* history: actions with overlapping decisions, or one that died
    unsettled   \* history: decisions of the run overlapped each other or processRun, or died

rows == <<run, action>>
agent == <<rows, runner, call, ran, contested, unsettled>>

Actions == 1..MaxToolCalls
ActionType == {"READ", "WRITE"}
RunStatus == {"NONE", "RUNNING", "WAITING_CONFIRMATION", "COMPLETED", "FAILED"}
Pending == {"PROPOSED", "CONFIRMED"}
ActionStatus == Pending \cup {"NONE", "EXECUTED", "FAILED", "REJECTED"}
RunnerSteps == {"idle", "ask", "tools", "settle", "complete", "giveUp"}
CallSteps == {"idle", "confirm", "execute", "update", "markDone", "markFailed", "reject",
              "count", "keepWaiting", "countFailed", "endDone", "endFailed"}

Action(status, type, confirmed) == [status |-> status, type |-> type, confirmed |-> confirmed]
Call(pc, a) == [pc |-> pc, act |-> a]

AgentInit ==
    /\ run = "NONE"
    /\ runner = [pc |-> "idle", calls |-> 0, proposed |-> FALSE]
    /\ action = [a \in Actions |-> Action("NONE", "READ", FALSE)]
    /\ call = [r \in Requests |-> Call("idle", 1)]
    /\ ran = [a \in Actions |-> 0]
    /\ contested = {} /\ unsettled = FALSE

-------------------------------------------------------------------------------
(* sendSessionMessage and processRun *)

Working(pc) == runner.pc = pc
RunnerTo(pc) == runner' = [runner EXCEPT !.pc = pc]
Rest == runner' = [pc |-> "idle", calls |-> 0, proposed |-> FALSE]

SendMessage ==
    /\ run = "NONE"
    /\ run' = "RUNNING"
    /\ RunnerTo("ask")
    /\ UNCHANGED <<action, call, ran, contested, unsettled>>

\* The model answers with text, with tool calls, or not at all (an error, the token budget).
Ask ==
    /\ Working("ask")
    /\ \E pc \in {"complete", "tools", "giveUp"} : RunnerTo(pc)
    /\ UNCHANGED <<rows, call, ran, contested, unsettled>>

\* A tool call that is not allowed or fails leaves a FAILED row, a read an EXECUTED one.
CallRead(a) ==
    /\ \E status \in {"EXECUTED", "FAILED"} :
           action' = [action EXCEPT ![a] = Action(status, "READ", FALSE)]
    /\ UNCHANGED <<ran, support>>

TookEffect(a) == ran' = [ran EXCEPT ![a] = IF @ = 0 THEN 1 ELSE 2]

\* (variant) A write tool is executed like a read.
CallWriteAtOnce(a) ==
    /\ UNCHANGED support /\ TookEffect(a)
    /\ action' = [action EXCEPT ![a] = Action("EXECUTED", "WRITE", FALSE)]

CallWrite(a) ==
    /\ action' = [action EXCEPT ![a] = Action("PROPOSED", "WRITE", FALSE)]
    /\ UNCHANGED <<ran, support>>

\* (variant) A long response is worked off to its end.
GoOnRegardless(a) == TRUE

\* The limit holds within a response too.
MayGoOn(a) == a < MaxToolCalls

\* The calls of one response.
ToolCall ==
    LET a == runner.calls + 1 IN
    /\ Working("tools")
    /\ \E write \in BOOLEAN, pc \in {"tools", "settle"} :
           /\ IF write THEN CallWrite(a) ELSE CallRead(a)
           /\ pc = "tools" => MayGoOn(a)
           /\ runner' = [pc |-> pc, calls |-> a, proposed |-> runner.proposed \/ write]
    /\ UNCHANGED <<run, call, contested, unsettled>>

\* (variant) The limit is not looked at again after a batch of reads.
SettleAsksAgain ==
    /\ Working("settle")
    /\ IF runner.proposed
       THEN run' = "WAITING_CONFIRMATION" /\ Rest
       ELSE UNCHANGED run /\ runner' = [runner EXCEPT !.pc = "ask", !.calls = 0]
    /\ UNCHANGED <<action, call, ran, contested, unsettled>>

Settle ==
    /\ Working("settle")
    /\ \/ runner.proposed /\ run' = "WAITING_CONFIRMATION" /\ Rest
       \/ ~runner.proposed /\ runner.calls < MaxToolCalls /\ RunnerTo("ask") /\ UNCHANGED run
       \/ ~runner.proposed /\ runner.calls = MaxToolCalls /\ run' = "FAILED" /\ Rest
    /\ UNCHANGED <<action, call, ran, contested, unsettled>>

Complete ==
    /\ Working("complete")
    /\ run' = "COMPLETED" /\ Rest
    /\ UNCHANGED <<action, call, ran, contested, unsettled>>

\* Whatever throws on the way fails the run; what has been proposed stays proposed.
Throws ==
    /\ runner.pc \in {"tools", "settle", "complete"}
    /\ RunnerTo("giveUp")
    /\ UNCHANGED <<rows, call, ran, contested, unsettled>>

GiveUp ==
    /\ Working("giveUp")
    /\ run' = "FAILED" /\ Rest
    /\ UNCHANGED <<action, call, ran, contested, unsettled>>

\* The process ends: nobody goes on with the run.
RunnerDies ==
    /\ ~Working("idle")
    /\ Rest
    /\ unsettled' = TRUE
    /\ UNCHANGED <<rows, call, ran, contested>>

-------------------------------------------------------------------------------
(* confirmAction and rejectAction *)

At(r, pc) == call[r].pc = pc
Goto(r, pc) == call' = [call EXCEPT ![r].pc = pc]
Hangup(r) == call' = [call EXCEPT ![r] = Call("idle", 1)]
Deciding(a) == {r \in Requests : ~At(r, "idle") /\ call[r].act = a}
Undisturbed == Working("idle") /\ \A r \in Requests : At(r, "idle")
SetStatus(a, status) == action' = [action EXCEPT ![a].status = status]

\* The decision of slot r on a begins: the row is read and is still pending.
Decide(r, a, pc) ==
    /\ At(r, "idle") /\ Free(r)
    /\ action[a].status \in Pending
    /\ call' = [call EXCEPT ![r] = Call(pc, a)]
    /\ contested' = contested \cup (IF Deciding(a) = {} THEN {} ELSE {a})
    /\ unsettled' = (unsettled \/ ~Undisturbed)
    /\ UNCHANGED <<rows, runner, ran>>

Confirm(r, a) == Decide(r, a, "confirm")
Reject(r, a) == Decide(r, a, "reject")

ConfirmWrite(r) ==
    /\ At(r, "confirm")
    /\ action' = [action EXCEPT ![call[r].act] = Action("CONFIRMED", @.type, TRUE)]
    /\ Goto(r, "execute")
    /\ UNCHANGED <<run, runner, ran, contested, unsettled>>

\* The tool is support_reply_ticket, one of kyc_approve and kyc_reject, whose effect is
\* outside this model, or support_update_ticket_status, which reads first.  It may
\* throw before it has done its work or after.
Execute(r) ==
    /\ At(r, "execute")
    /\ \/ /\ AdminReply \/ UNCHANGED support
          /\ TookEffect(call[r].act)
          /\ Goto(r, "markDone") \/ Goto(r, "markFailed")
       \/ StatusRead(r) /\ Goto(r, "update") /\ UNCHANGED ran
       \/ Goto(r, "markFailed") /\ UNCHANGED <<ran, support>>
    /\ UNCHANGED <<rows, runner, contested, unsettled>>

ExecuteUpdate(r) ==
    /\ At(r, "update")
    /\ \/ /\ \E status \in TicketStatus, note \in BOOLEAN : StatusWrite(r, status, note)
          /\ TookEffect(call[r].act)
          /\ Goto(r, "markDone") \/ Goto(r, "markFailed")
       \/ StatusFails(r) /\ Goto(r, "markFailed") /\ UNCHANGED ran
    /\ UNCHANGED <<rows, runner, contested, unsettled>>

\* (variant) The tool's failure is logged and the action can be confirmed again.
MarkReopensFailed(r) ==
    /\ call[r].pc \in {"markDone", "markFailed"}
    /\ SetStatus(call[r].act, IF At(r, "markDone") THEN "EXECUTED" ELSE "PROPOSED")
    /\ Goto(r, "count")
    /\ UNCHANGED <<run, runner, ran, contested, unsettled>>

Mark(r) ==
    /\ call[r].pc \in {"markDone", "markFailed"}
    /\ SetStatus(call[r].act, IF At(r, "markDone") THEN "EXECUTED" ELSE "FAILED")
    /\ Goto(r, "count")
    /\ UNCHANGED <<run, runner, ran, contested, unsettled>>

RejectWrite(r) ==
    /\ At(r, "reject")
    /\ SetStatus(call[r].act, "REJECTED")
    /\ Goto(r, "count")
    /\ UNCHANGED <<run, runner, ran, contested, unsettled>>

-------------------------------------------------------------------------------
(* refreshRunStatusAfterAction *)

Some(statuses) == \E a \in Actions : action[a].status \in statuses

\* (variant) Only the action just decided is looked at.
CountOwn(r) ==
    /\ At(r, "count")
    /\ Goto(r, IF action[call[r].act].status \in Pending THEN "keepWaiting" ELSE "countFailed")
    /\ UNCHANGED <<rows, runner, ran, contested, unsettled>>

Count(r) ==
    /\ At(r, "count")
    /\ Goto(r, IF Some(Pending) THEN "keepWaiting" ELSE "countFailed")
    /\ UNCHANGED <<rows, runner, ran, contested, unsettled>>

KeepWaiting(r) ==
    /\ At(r, "keepWaiting")
    /\ run' = "WAITING_CONFIRMATION"
    /\ Hangup(r)
    /\ UNCHANGED <<action, runner, ran, contested, unsettled>>

CountFailed(r) ==
    /\ At(r, "countFailed")
    /\ Goto(r, IF Some({"FAILED"}) THEN "endFailed" ELSE "endDone")
    /\ UNCHANGED <<rows, runner, ran, contested, unsettled>>

EndRun(r) ==
    /\ call[r].pc \in {"endDone", "endFailed"}
    /\ run' = IF At(r, "endDone") THEN "COMPLETED" ELSE "FAILED"
    /\ Hangup(r)
    /\ UNCHANGED <<action, runner, ran, contested, unsettled>>

\* A database call throws or the process dies: what is written stays.
CallDies(r) ==
    /\ ~At(r, "idle")
    /\ IF At(r, "update") THEN StatusFails(r) ELSE UNCHANGED support
    /\ Hangup(r)
    /\ contested' = contested \cup {call[r].act}
    /\ unsettled' = TRUE
    /\ UNCHANGED <<rows, runner, ran>>
===============================================================================
