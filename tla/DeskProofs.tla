------------------------------ MODULE DeskProofs ------------------------------
(***************************************************************************)
(* Desk for any number of requests in flight and any limit on tool calls:  *)
(* types, the ticket, and what the rows of actions and runs promise.  That *)
(* an action's row tells the truth is not inductive: Course says what a    *)
(* decision knows at each of its steps as long as it is the only one on    *)
(* its action (Sole), Known that it is about a proposed write, Fresh that  *)
(* a tool call writes a row nobody has touched.  Settled is the same for   *)
(* the run's status, as long as nothing overlaps at all.                   *)
(***************************************************************************)
EXTENDS Desk, TLAPS

\* The ticket's part of the invariant.
SupportOK ==
    /\ ticket \in [status : TicketStatus \cup {"NONE"}, resolved : BOOLEAN]
    /\ message \in [Requests -> TicketStatus \cup {NoReading}]
    /\ update \in [Requests -> TicketStatus \cup {NoReading}]
    /\ unanswered \in BOOLEAN /\ missed \subseteq Requests /\ overlooked \in BOOLEAN
    /\ CustomerIsHeard /\ Seen

LEMMA InitInv == Init => IInv
  <1> SUFFICES ASSUME Init PROVE IInv
    OBVIOUS
  <1>1. TypeOK
    <2>1. 1 \in Actions /\ 0 \in 0..MaxToolCalls
      BY SomeToolCalls DEF Actions
    <2>2. /\ ticket \in [status : TicketStatus \cup {"NONE"}, resolved : BOOLEAN]
          /\ message \in [Requests -> TicketStatus \cup {NoReading}]
          /\ update \in [Requests -> TicketStatus \cup {NoReading}]
          /\ unanswered \in BOOLEAN /\ missed \subseteq Requests /\ overlooked \in BOOLEAN
          /\ crashes \in Nat
      BY DEF Init, SupportInit
    <2>3. /\ run \in RunStatus
          /\ runner \in [pc : RunnerSteps, calls : 0..MaxToolCalls, proposed : BOOLEAN]
          /\ contested \subseteq Actions /\ unsettled \in BOOLEAN
      BY <2>1 DEF Init, AgentInit, RunStatus, RunnerSteps
    <2>4. /\ action \in [Actions -> [status : ActionStatus, type : ActionType, confirmed : BOOLEAN]]
          /\ call \in [Requests -> [pc : CallSteps, act : Actions]]
          /\ ran \in [Actions -> 0..2]
      BY <2>1 DEF Init, AgentInit, Action, ActionStatus, ActionType, Call, CallSteps
    <2> QED  BY <2>2, <2>3, <2>4 DEF TypeOK
  <1>2. CustomerIsHeard /\ Seen /\ NothingUnconfirmed /\ DecisionHolds /\ RunStatusIsTrue
    BY DEF Init, SupportInit, AgentInit, Action, CustomerIsHeard, Seen, NothingUnconfirmed, DecisionHolds,
           RunStatusIsTrue
  <1>3. Fresh
    BY SomeToolCalls DEF Init, AgentInit, Action, Fresh, Working
  <1>4. Known /\ Sole /\ Course /\ Settled
    BY DEF Init, AgentInit, Call, Action, Known, Sole, Course, Settled, At, Working, Pending
  <1> QED  BY <1>1, <1>2, <1>3, <1>4 DEF IInv

-------------------------------------------------------------------------------
(* The ticket. *)

LEMMA SupportKept ==
    ASSUME SupportOK, UNCHANGED support
    PROVE  SupportOK'
  BY DEF support, SupportOK, CustomerIsHeard, Seen, Written

LEMMA ReplyKeeps ==
    ASSUME SupportOK, AdminReply
    PROVE  SupportOK'
  BY DEF AdminReply, Store, Said, SupportOK, CustomerIsHeard, Seen, Written, TicketStatus

\* A reading is as good as the ticket; it only becomes worse when the customer writes,
\* and then its slot is in missed.
LEMMA ReadKeeps ==
    ASSUME SupportOK, NEW r \in Requests, StatusRead(r)
    PROVE  SupportOK'
  <1>1. ticket.status \in TicketStatus
    BY DEF StatusRead, Written, SupportOK
  <1>2. \A q \in Requests : update'[q] = IF q = r THEN ticket.status ELSE update[q]
    BY DEF StatusRead, SupportOK
  <1>3. UNCHANGED <<ticket, message, unanswered, missed, overlooked>> /\ Written
    BY DEF StatusRead
  <1>4. update' \in [Requests -> TicketStatus \cup {NoReading}]
    BY <1>1 DEF StatusRead, SupportOK
  <1> QED  BY <1>2, <1>3, <1>4 DEF SupportOK, CustomerIsHeard, Seen, Written

LEMMA WriteKeeps ==
    ASSUME SupportOK, NEW r \in Requests, NEW status \in TicketStatus, NEW note \in BOOLEAN,
           StatusWrite(r, status, note)
    PROVE  SupportOK'
  <1>1. /\ ticket'.status = status
        /\ ticket' \in [status : TicketStatus \cup {"NONE"}, resolved : BOOLEAN]
    <2>1. (status = "RESOLVED") \in BOOLEAN
      OBVIOUS
    <2> QED  BY <2>1 DEF StatusWrite, Store
  <1>2. /\ update' \in [Requests -> TicketStatus \cup {NoReading}]
        /\ \A q \in Requests : update'[q] = IF q = r THEN NoReading ELSE update[q]
        /\ missed' = missed \ {r} /\ UNCHANGED message
    BY DEF StatusWrite, SupportOK
  <1>3. ticket'.status # "NONE"
    BY <1>1 DEF TicketStatus
  <1>4. CASE status # update[r] \/ note
    <2>1. unanswered' = FALSE /\ overlooked' = FALSE
      BY <1>4 DEF StatusWrite, Said
    <2> QED  BY <1>1, <1>2, <1>3, <2>1 DEF SupportOK, CustomerIsHeard, Seen, Written
  <1>5. CASE status = update[r] /\ ~note
    <2>1. UNCHANGED unanswered /\ overlooked' = (overlooked \/ r \in missed)
      BY <1>5 DEF StatusWrite
    <2>2. status # NoReading
      BY NoReadingIsNoReading
    <2>3. overlooked' \in BOOLEAN
      BY <2>1
    <2>4. unanswered /\ ~overlooked' => status \in {"OPEN", "IN_PROGRESS"}
      BY <1>5, <2>1, <2>2 DEF SupportOK, Seen
    <2>5. CustomerIsHeard' /\ Seen'
      BY <1>1, <1>2, <1>3, <2>1, <2>4 DEF SupportOK, CustomerIsHeard, Seen, Written
    <2> QED  BY <1>1, <1>2, <2>1, <2>3, <2>5 DEF SupportOK
  <1> QED  BY <1>4, <1>5

LEMMA UpdateFailsKeeps ==
    ASSUME SupportOK, NEW r \in Requests, StatusFails(r)
    PROVE  SupportOK'
  <1>1. /\ update' \in [Requests -> TicketStatus \cup {NoReading}]
        /\ \A q \in Requests : update'[q] = IF q = r THEN NoReading ELSE update[q]
    BY DEF StatusFails, SupportOK
  <1> QED  BY <1>1 DEF StatusFails, SupportOK, CustomerIsHeard, Seen, Written

LEMMA CustomerKeeps ==
    ASSUME SupportOK, Customer \/ Console
    PROVE  SupportOK'
  <1>1. CASE CreateTicket
    BY <1>1 DEF CreateTicket, Store, Said, SupportOK, CustomerIsHeard, Seen, Written, TicketStatus
  <1>2. ASSUME NEW r \in Requests, MessageRead(r) PROVE SupportOK'
    BY <1>2 DEF MessageRead, Written, SupportOK, CustomerIsHeard, Seen, TicketStatus
  <1>3. ASSUME NEW r \in Requests, MessageWrite(r) PROVE SupportOK'
    <2>1. message[r] \in TicketStatus
      BY <1>3 DEF MessageWrite, SupportOK
    <2>2. /\ ticket'.status \in {"OPEN", "IN_PROGRESS"}
          /\ ticket' \in [status : TicketStatus \cup {"NONE"}, resolved : BOOLEAN]
      BY <1>3, <2>1 DEF MessageWrite, Store, Reopened, TicketStatus
    <2>3. Seen'
      BY <1>3, <2>2 DEF MessageWrite, Seen, Written
    <2> QED
      BY <1>3, <2>2, <2>3 DEF MessageWrite, Said, SupportOK, CustomerIsHeard
  <1>4. ASSUME NEW r \in Requests, MessageFails(r) PROVE SupportOK'
    BY <1>4 DEF MessageFails, SupportOK, CustomerIsHeard, Seen, Written
  <1>5. CASE Console
    BY <1>5, ReplyKeeps, ReadKeeps, WriteKeeps, UpdateFailsKeeps DEF Console
  <1> QED  BY <1>1, <1>2, <1>3, <1>4, <1>5 DEF Customer

\* A step that leaves the agent alone.
LEMMA SupportStep ==
    ASSUME IInv, SupportOK', UNCHANGED <<agent, bounds>>
    PROVE  IInv'
  <1>1. UNCHANGED <<run, runner, action, call, ran, contested, unsettled, crashes>>
    BY DEF agent, rows, bounds
  <1>2. TypeOK' /\ CustomerIsHeard' /\ Seen'
    BY <1>1 DEF IInv, TypeOK, SupportOK
  <1>3. NothingUnconfirmed' /\ DecisionHolds' /\ RunStatusIsTrue'
    BY <1>1 DEF IInv, NothingUnconfirmed, DecisionHolds, Deciding, RunStatusIsTrue, Undisturbed, Some,
                At, Working
  <1>4. Fresh' /\ Known' /\ Sole' /\ Course' /\ Settled'
    BY <1>1 DEF IInv, Fresh, Known, Sole, Course, Settled, Some, At, Working
  <1> QED  BY <1>2, <1>3, <1>4 DEF IInv

-------------------------------------------------------------------------------
(* processRun. *)

\* What a step that decides nothing and adds no row keeps.
LEMMA RowsKept ==
    ASSUME IInv, UNCHANGED <<action, call, ran, contested>>
    PROVE  NothingUnconfirmed' /\ DecisionHolds' /\ Known' /\ Sole' /\ Course'
  BY DEF IInv, NothingUnconfirmed, DecisionHolds, Deciding, Known, Sole, Course, At

LEMMA RunnerKeeps ==
    ASSUME IInv, UNCHANGED support, crashes' \in Nat,
           SendMessage \/ Ask \/ Settle \/ Complete \/ Throws \/ GiveUp \/ RunnerDies
    PROVE  IInv'
  <1>t. TypeOK
    BY DEF IInv
  <1>1. UNCHANGED <<action, call, ran, contested>>
    BY DEF SendMessage, Ask, Settle, Complete, Throws, GiveUp, RunnerDies, rows
  <1>s. SupportOK'
    BY SupportKept DEF IInv, TypeOK, SupportOK
  <1>2. /\ CustomerIsHeard' /\ Seen'
        /\ NothingUnconfirmed' /\ DecisionHolds' /\ Known' /\ Sole' /\ Course'
    BY <1>1, <1>s, RowsKept DEF SupportOK
  <1>3. CASE SendMessage
    <2>1. TypeOK'
      BY <1>3, <1>1, <1>t, <1>s DEF SupportOK, SendMessage, RunnerTo, TypeOK, RunStatus, RunnerSteps
    <2>2. Fresh'
      BY <1>3, <1>t, SomeToolCalls DEF IInv, Fresh, SendMessage, RunnerTo, TypeOK, Working
    <2>3. Settled'
      BY <1>3, <1>t DEF IInv, Fresh, Known, Settled, Some, Pending, SendMessage, RunnerTo, TypeOK, Working, At
    <2>4. RunStatusIsTrue'
      BY <1>3 DEF SendMessage, RunnerTo, RunStatusIsTrue, Undisturbed, Working, IInv, TypeOK
    <2> QED  BY <1>2, <2>1, <2>2, <2>3, <2>4 DEF IInv
  <1>4. CASE Ask \/ Throws
    <2>1. TypeOK'
      BY <1>4, <1>1, <1>t, <1>s DEF SupportOK, Ask, Throws, rows, RunnerTo, TypeOK, RunnerSteps
    <2>2. Fresh'
      BY <1>4, <1>t DEF IInv, Fresh, Ask, Throws, rows, RunnerTo, TypeOK, Working
    <2>3. Settled'
      BY <1>4, <1>t DEF IInv, Settled, Some, Ask, Throws, rows, RunnerTo, TypeOK, Working, At
    <2>4. RunStatusIsTrue'
      BY <1>4, <1>t DEF Ask, Throws, RunnerTo, RunStatusIsTrue, Undisturbed, Working, TypeOK
    <2> QED  BY <1>2, <2>1, <2>2, <2>3, <2>4 DEF IInv
  <1>5. CASE Settle \/ Complete \/ GiveUp \/ RunnerDies
    <2>1. TypeOK'
      <3>1. runner' \in [pc : RunnerSteps, calls : 0..MaxToolCalls, proposed : BOOLEAN]
        <4>1. Rest \/ RunnerTo("ask")
          BY <1>5 DEF Settle, Complete, GiveUp, RunnerDies
        <4>2. 0 \in 0..MaxToolCalls /\ {"idle", "ask"} \subseteq RunnerSteps
          BY SomeToolCalls DEF RunnerSteps
        <4>3. CASE Rest
          BY <4>2, <4>3 DEF Rest
        <4>4. CASE RunnerTo("ask")
          BY <1>t, <4>2, <4>4 DEF RunnerTo, TypeOK
        <4> QED  BY <4>1, <4>3, <4>4
      <3>2. run' \in RunStatus /\ unsettled' \in BOOLEAN
        BY <1>5, <1>t DEF Settle, Complete, GiveUp, RunnerDies, rows, TypeOK, RunStatus
      <3> QED  BY <1>1, <1>t, <1>s, <3>1, <3>2 DEF TypeOK, SupportOK
    <2>2. Fresh'
      BY <1>5, <1>t
         DEF IInv, Fresh, Settle, Complete, GiveUp, RunnerDies, rows, Rest, RunnerTo, TypeOK, Working
    <2>3. Settled'
      BY <1>5, <1>t
         DEF IInv, Settled, Some, Settle, Complete, GiveUp, RunnerDies, Rest, RunnerTo, TypeOK, Working, At
    <2>4. RunStatusIsTrue'
      BY <1>5, <1>t
         DEF IInv, Settled, RunStatusIsTrue, Undisturbed, Some, Settle, Complete, GiveUp, RunnerDies, Rest,
             RunnerTo, TypeOK, Working
    <2> QED  BY <1>2, <2>1, <2>2, <2>3, <2>4 DEF IInv
  <1> QED  BY <1>3, <1>4, <1>5

NewRow == [status : {"EXECUTED", "FAILED", "PROPOSED"}, type : ActionType, confirmed : {FALSE}]

LEMMA ProposedRow ==
    LET row == Action("PROPOSED", "WRITE", FALSE) IN
    row \in NewRow /\ row.status = "PROPOSED" /\ row.type = "WRITE"
  BY DEF Action, ActionType, NewRow

LEMMA ReadRow ==
    ASSUME NEW status \in {"EXECUTED", "FAILED"}
    PROVE  LET row == Action(status, "READ", FALSE) IN
           row \in NewRow /\ row.status # "PROPOSED" /\ row.type # "WRITE"
  BY DEF Action, ActionType, NewRow

LEMMA ToolCallKeeps ==
    ASSUME IInv, ToolCall, UNCHANGED bounds
    PROVE  IInv'
  <1> DEFINE a == runner.calls + 1
  <1>t. TypeOK
    BY DEF IInv
  <1>a. a \in Actions /\ action[a].status = "NONE" /\ ran[a] = 0 /\ run # "NONE"
    <2>1. /\ runner.pc = "tools" /\ runner.calls \in Nat /\ runner.calls < MaxToolCalls
          /\ \A b \in Actions : b > runner.calls => action[b].status = "NONE"
          /\ \A b \in Actions : action[b].status = "NONE" => ran[b] = 0
          /\ run # "NONE"
      BY <1>t DEF ToolCall, IInv, Fresh, Working, TypeOK
    <2>2. a \in Actions /\ a > runner.calls
      BY <2>1, SomeToolCalls DEF Actions
    <2> QED  BY <2>1, <2>2
  <1>1. PICK write \in BOOLEAN, pc \in {"tools", "settle"} :
           /\ IF write THEN CallWrite(a) ELSE CallRead(a)
           /\ pc = "tools" => MayGoOn(a)
           /\ runner' = [pc |-> pc, calls |-> a, proposed |-> runner.proposed \/ write]
    BY DEF ToolCall
  <1>2. UNCHANGED <<run, call, ran, contested, unsettled, crashes>>
    BY <1>1 DEF ToolCall, CallWrite, CallRead, bounds
  <1>s. SupportOK'
    <2>1. UNCHANGED support
      BY <1>1 DEF CallWrite, CallRead
    <2> QED  BY <2>1, SupportKept DEF IInv, TypeOK, SupportOK
  <1>3. PICK row \in NewRow :
           /\ action' = [action EXCEPT ![a] = row]
           /\ row.status = "PROPOSED" <=> write
           /\ row.type = "WRITE" <=> write
    <2>1. CASE write
      <3>1. action' = [action EXCEPT ![a] = Action("PROPOSED", "WRITE", FALSE)]
        BY <1>1, <2>1 DEF CallWrite
      <3> QED  BY <2>1, <3>1, ProposedRow
    <2>2. CASE ~write
      <3>1. PICK status \in {"EXECUTED", "FAILED"} :
                action' = [action EXCEPT ![a] = Action(status, "READ", FALSE)]
        BY <1>1, <2>2 DEF CallRead
      <3> QED  BY <2>2, <3>1, ReadRow
    <2> QED  BY <2>1, <2>2
  <1>4. \A b \in Actions : action'[b] = IF b = a THEN row ELSE action[b]
    BY <1>t, <1>a, <1>3 DEF TypeOK
  <1>5. \A r \in Requests : ~At(r, "idle") => call[r].act # a
    BY <1>a DEF IInv, Known
  <1>6. TypeOK'
    <2>1. runner' \in [pc : RunnerSteps, calls : 0..MaxToolCalls, proposed : BOOLEAN]
      <3>1. (runner.proposed \/ write) \in BOOLEAN /\ a \in 0..MaxToolCalls /\ pc \in RunnerSteps
        BY <1>a, <1>1, SomeToolCalls DEF Actions, RunnerSteps
      <3> QED  BY <1>1, <3>1
    <2>2. action' \in [Actions -> [status : ActionStatus, type : ActionType, confirmed : BOOLEAN]]
      BY <1>t, <1>3 DEF TypeOK, ActionStatus, Pending, NewRow
    <2> QED  BY <1>t, <1>2, <1>s, <2>1, <2>2 DEF TypeOK, SupportOK
  <1>7. CustomerIsHeard' /\ Seen' /\ NothingUnconfirmed'
    BY <1>2, <1>4, <1>a, <1>s DEF IInv, SupportOK, NothingUnconfirmed
  <1>8. DecisionHolds'
    BY <1>2, <1>3, <1>4, <1>a DEF IInv, DecisionHolds, Deciding, At, NewRow
  <1>9. Fresh'
    <2>1. /\ runner'.pc = pc /\ runner'.calls = a /\ pc # "idle" /\ pc # "ask"
          /\ pc = "tools" => a < MaxToolCalls
      BY <1>1 DEF MayGoOn
    <2>2. \A b \in Actions : b > a => action'[b].status = "NONE"
      <3>1. \A b \in Actions : b > runner.calls => action[b].status = "NONE"
        BY DEF ToolCall, IInv, Fresh, Working
      <3>2. \A b \in Actions : b > a => b > runner.calls /\ b # a
        BY <1>t DEF TypeOK, Actions
      <3> QED  BY <1>4, <3>1, <3>2
    <2>3. \A b \in Actions : action'[b].status = "NONE" => ran'[b] = 0
      BY <1>2, <1>3, <1>4 DEF IInv, Fresh, NewRow
    <2> QED  BY <1>2, <1>a, <2>1, <2>2, <2>3 DEF Fresh, Working
  <1>10. Known' /\ Sole' /\ Course'
    BY <1>t, <1>2, <1>3, <1>4, <1>5 DEF IInv, Known, Sole, Course, At, TypeOK, CallSteps, NewRow, Pending
  <1>11. Settled'
    <2>1. Some(Pending)' <=> Some(Pending) \/ write
      BY <1>3, <1>4, <1>a DEF Some, Pending, NewRow
    <2>2. runner'.pc \in {"tools", "settle"} /\ (runner'.proposed <=> runner.proposed \/ write)
      BY <1>1
    <2>3. ~unsettled =>
              /\ \A r \in Requests : At(r, "idle")
              /\ runner.proposed <=> Some(Pending)
      BY DEF IInv, Settled, ToolCall, Working
    <2> QED  BY <1>2, <2>1, <2>2, <2>3 DEF Settled, Working, At
  <1>12. RunStatusIsTrue'
    BY <1>1 DEF RunStatusIsTrue, Undisturbed, Working
  <1> QED  BY <1>6, <1>7, <1>8, <1>9, <1>10, <1>11, <1>12 DEF IInv
-------------------------------------------------------------------------------
(* Decisions. *)

LEMMA IdleCall == Call("idle", 1) \in [pc : CallSteps, act : Actions]
  BY SomeToolCalls DEF Call, CallSteps, Actions

\* What a step of slot r that writes no row keeps.
LEMMA CallMoves ==
    ASSUME IInv, NEW r \in Requests, NEW pc \in {"idle", "keepWaiting", "countFailed", "endDone", "endFailed"},
           call[r].pc \in {"count", "keepWaiting", "countFailed", "endDone", "endFailed"},
           (pc # "idle" /\ Goto(r, pc)) \/ (pc = "idle" /\ Hangup(r)),
           UNCHANGED <<action, runner, ran, contested, unsettled, support, bounds>>, run' \in RunStatus \ {"NONE"},
           run' = "RUNNING" => run = "RUNNING",
           ~unsettled =>
               /\ pc = "keepWaiting" => Some(Pending)
               /\ pc \in {"countFailed", "endDone", "endFailed"} => ~Some(Pending)
               /\ pc = "idle" => /\ run' = "COMPLETED" => ~Some(Pending)
                                 /\ run' = "WAITING_CONFIRMATION" => Some(Pending)
                                 /\ run' # "RUNNING"
    PROVE  IInv'
  <1>t. TypeOK
    BY DEF IInv
  <1>1. UNCHANGED crashes /\ SupportOK'
    BY SupportKept DEF bounds, IInv, TypeOK, SupportOK
  <1>2. /\ \A q \in Requests : q # r => call'[q] = call[q]
        /\ call'[r].pc = pc
        /\ pc # "idle" => call'[r].act = call[r].act
    BY <1>t DEF TypeOK, Goto, Hangup, Call
  <1>3. TypeOK'
    <2>1. call' \in [Requests -> [pc : CallSteps, act : Actions]]
      <3>1. CASE Goto(r, pc)
        BY <1>t, <3>1 DEF TypeOK, Goto, CallSteps
      <3>2. CASE Hangup(r)
        BY <1>t, <3>2, IdleCall DEF TypeOK, Hangup
      <3> QED  BY <3>1, <3>2
    <2> QED  BY <1>t, <1>1, <2>1 DEF TypeOK, SupportOK
  <1>4. CustomerIsHeard' /\ Seen' /\ NothingUnconfirmed' /\ Fresh'
    BY <1>1 DEF IInv, SupportOK, NothingUnconfirmed, Fresh, Working, Known, At
  <1>5. Known' /\ Sole' /\ Course'
    BY <1>2 DEF IInv, Known, Sole, Course, At
  <1>6. DecisionHolds'
    <2>1. ASSUME NEW a \in Actions \ contested, action[a].status = "CONFIRMED"
          PROVE  \E q \in Requests : ~At(q, "idle")' /\ call'[q].act = a
      <3>1. PICK q \in Requests : ~At(q, "idle") /\ call[q].act = a
        BY <2>1 DEF IInv, DecisionHolds, Deciding
      <3>2. q # r
        BY <2>1, <3>1 DEF IInv, Course, Pending
      <3> QED  BY <1>2, <3>1, <3>2 DEF At
    <2> QED  BY <2>1 DEF IInv, DecisionHolds, Deciding, At
  <1>7. Settled'
    BY <1>2 DEF IInv, Settled, Some, At, Working
  <1>8. RunStatusIsTrue'
    <2>1. ASSUME Undisturbed' PROVE pc = "idle"
      BY <1>2, <2>1 DEF Undisturbed, At
    <2> QED  BY <2>1 DEF RunStatusIsTrue, Some
  <1> QED  BY <1>3, <1>4, <1>5, <1>6, <1>7, <1>8 DEF IInv

LEMMA RefreshKeeps ==
    ASSUME IInv, NEW r \in Requests, UNCHANGED <<support, bounds>>,
           Count(r) \/ KeepWaiting(r) \/ CountFailed(r) \/ EndRun(r)
    PROVE  IInv'
  <1>1. run # "NONE" /\ run \in RunStatus
    <2>1. call[r].act \in Actions /\ ~At(r, "idle")
      BY DEF IInv, TypeOK, At, Count, KeepWaiting, CountFailed, EndRun
    <2> QED  BY <2>1 DEF IInv, TypeOK, Fresh, Known
  <1>2. CASE Count(r)
    <2>1. PICK pc \in {"keepWaiting", "countFailed"} :
             /\ Goto(r, pc)
             /\ pc = "keepWaiting" => Some(Pending)
             /\ pc = "countFailed" => ~Some(Pending)
      BY <1>2 DEF Count
    <2>2. call[r].pc = "count" /\ UNCHANGED <<run, action, runner, ran, contested, unsettled>>
      BY <1>2 DEF Count, At, rows
    <2>3. pc # "idle" /\ pc \notin {"endDone", "endFailed"} /\ run' \in RunStatus \ {"NONE"}
      BY <1>1, <2>2
    <2>4. UNCHANGED <<action, runner, ran, contested, unsettled, support, bounds>>
      BY <2>2
    <2> QED  BY <2>1, <2>2, <2>3, <2>4, CallMoves
  <1>3. CASE KeepWaiting(r)
    <2>1. Some(Pending) \/ unsettled
      BY <1>3 DEF KeepWaiting, IInv, Settled
    <2>2. /\ call[r].pc = "keepWaiting" /\ Hangup(r) /\ run' = "WAITING_CONFIRMATION"
          /\ UNCHANGED <<action, runner, ran, contested, unsettled>>
      BY <1>3 DEF KeepWaiting, At
    <2>3. "WAITING_CONFIRMATION" \in RunStatus \ {"NONE"}
      BY DEF RunStatus
    <2> QED  BY <2>1, <2>2, <2>3, CallMoves
  <1>4. CASE CountFailed(r)
    <2>1. ~Some(Pending) \/ unsettled
      BY <1>4 DEF CountFailed, IInv, Settled, At
    <2>2. PICK pc \in {"endDone", "endFailed"} : Goto(r, pc)
      BY <1>4 DEF CountFailed
    <2>3. call[r].pc = "countFailed" /\ UNCHANGED <<run, action, runner, ran, contested, unsettled>>
      BY <1>4 DEF CountFailed, At, rows
    <2>4. pc # "idle" /\ pc # "keepWaiting" /\ run' \in RunStatus \ {"NONE"}
      BY <1>1, <2>3
    <2>5. UNCHANGED <<action, runner, ran, contested, unsettled, support, bounds>>
      BY <2>3
    <2>6. /\ pc \in {"idle", "keepWaiting", "countFailed", "endDone", "endFailed"}
          /\ run' = "RUNNING" => run = "RUNNING"
          /\ ~unsettled => ~Some(Pending)
      BY <2>1, <2>2, <2>3
    <2> QED  BY <2>2, <2>3, <2>4, <2>5, <2>6, CallMoves
  <1>5. CASE EndRun(r)
    <2>1. ~Some(Pending) \/ unsettled
      BY <1>5 DEF EndRun, IInv, Settled
    <2>2. /\ call[r].pc \in {"endDone", "endFailed"} /\ Hangup(r) /\ run' \in {"COMPLETED", "FAILED"}
          /\ UNCHANGED <<action, runner, ran, contested, unsettled>>
      BY <1>5 DEF EndRun
    <2>3. {"COMPLETED", "FAILED"} \subseteq RunStatus \ {"NONE"}
      BY DEF RunStatus
    <2> QED  BY <2>1, <2>2, <2>3, CallMoves
  <1> QED  BY <1>2, <1>3, <1>4, <1>5

\* A decision begins.
LEMMA DecideKeeps ==
    ASSUME IInv, NEW r \in Requests, NEW a \in Actions, NEW pc \in {"confirm", "reject"},
           Decide(r, a, pc), UNCHANGED <<support, bounds>>
    PROVE  IInv'
  <1>t. TypeOK
    BY DEF IInv
  <1>1. UNCHANGED <<run, action, runner, ran, crashes>> /\ SupportOK'
    BY SupportKept DEF Decide, rows, bounds, IInv, TypeOK, SupportOK
  <1>2. /\ \A q \in Requests : q # r => call'[q] = call[q]
        /\ call'[r].pc = pc /\ call'[r].act = a
        /\ At(r, "idle") /\ action[a].status \in Pending
    BY <1>t DEF TypeOK, Decide, Call
  <1>3. /\ contested \subseteq contested' /\ contested' \subseteq contested \cup {a}
        /\ Deciding(a) # {} => a \in contested'
    BY DEF Decide
  <1>4. unsettled' \in BOOLEAN /\ (~unsettled' => ~unsettled /\ Undisturbed)
    BY <1>t DEF Decide, TypeOK
  <1>5. TypeOK'
    <2>1. Call(pc, a) \in [pc : CallSteps, act : Actions]
      BY DEF Call, CallSteps
    <2>2. call' \in [Requests -> [pc : CallSteps, act : Actions]]
      BY <1>t, <2>1 DEF TypeOK, Decide
    <2> QED  BY <1>t, <1>1, <1>3, <1>4, <2>2 DEF TypeOK, SupportOK
  <1>6. CustomerIsHeard' /\ Seen' /\ NothingUnconfirmed' /\ Fresh'
    BY <1>1 DEF IInv, SupportOK, NothingUnconfirmed, Fresh, Working
  <1>7. Known'
    <2>1. action[a].type = "WRITE" /\ action[a].status # "NONE"
      BY <1>2 DEF IInv, Known, Pending
    <2> QED  BY <1>1, <1>2, <2>1 DEF IInv, Known, At
  <1>8. Sole'
    BY <1>2, <1>3 DEF IInv, Sole, At, Deciding
  <1>9. a \notin contested' => action[a].status = "PROPOSED" /\ ran[a] = 0
    BY <1>2, <1>3 DEF IInv, DecisionHolds, Pending
  <1>10. Course'
    BY <1>1, <1>2, <1>3, <1>9 DEF IInv, Course, At
  <1>11. DecisionHolds'
    BY <1>1, <1>2, <1>3, <1>9 DEF IInv, DecisionHolds, Deciding, At
  <1>12. Settled'
    BY <1>1, <1>2, <1>4 DEF IInv, Settled, Undisturbed, Some, At, Working
  <1>13. RunStatusIsTrue'
    BY <1>2 DEF RunStatusIsTrue, Undisturbed, At
  <1> QED
    BY <1>5, <1>6, <1>7, <1>8, <1>10, <1>11, <1>12, <1>13 DEF IInv

\* A step of the only decision that writes its row: what all four have in common.
LEMMA RowStep ==
    ASSUME IInv, NEW r \in Requests, NEW row, NEW pc \in CallSteps \ {"idle"},
           ~At(r, "idle"), SupportOK',
           call' = [call EXCEPT ![r].pc = pc],
           action' = [action EXCEPT ![call[r].act] = row],
           row \in [status : ActionStatus, type : ActionType, confirmed : BOOLEAN],
           row.type = "WRITE", row.status # "NONE",
           action[call[r].act].confirmed => row.confirmed,
           pc \in {"execute", "update"} => row.confirmed,
           ran' \in [Actions -> 0..2],
           \A b \in Actions \ {call[r].act} : ran'[b] = ran[b],
           ran'[call[r].act] > 0 => row.confirmed,
           UNCHANGED <<run, runner, contested, unsettled, bounds>>,
           call[r].act \notin contested =>
               /\ pc \in {"execute", "update", "markDone", "markFailed"} => row.status = "CONFIRMED"
               /\ pc \in {"execute", "update"} => ran'[call[r].act] = 0
               /\ pc = "markDone" => ran'[call[r].act] = 1
               /\ pc \notin {"confirm", "reject", "execute", "update", "markDone", "markFailed"} =>
                      row.status \notin Pending
               /\ row.status \in {"PROPOSED", "REJECTED"} => ran'[call[r].act] = 0
               /\ row.status = "EXECUTED" => ran'[call[r].act] = 1
               /\ ran'[call[r].act] <= 1,
           pc \in {"execute", "update", "markDone", "markFailed", "count"}
    PROVE  IInv'
  <1> DEFINE a == call[r].act
  <1>t. TypeOK /\ a \in Actions
    BY DEF IInv, TypeOK
  <1>1. UNCHANGED crashes
    BY DEF bounds
  <1>2. \A b \in Actions : action'[b] = IF b = a THEN row ELSE action[b]
    BY <1>t DEF TypeOK
  <1>3. /\ \A q \in Requests : call'[q].act = call[q].act
        /\ \A q \in Requests : q # r => call'[q].pc = call[q].pc
        /\ call'[r].pc = pc
    BY <1>t DEF TypeOK
  <1>4. TypeOK'
    <2>1. call' \in [Requests -> [pc : CallSteps, act : Actions]]
      BY <1>t DEF TypeOK
    <2>2. action' \in [Actions -> [status : ActionStatus, type : ActionType, confirmed : BOOLEAN]]
      BY <1>t DEF TypeOK
    <2> QED  BY <1>t, <1>1, <2>1, <2>2 DEF TypeOK, SupportOK
  <1>5. CustomerIsHeard' /\ Seen' /\ NothingUnconfirmed'
    BY <1>t, <1>2 DEF IInv, SupportOK, NothingUnconfirmed
  <1>6. action[a].status # "NONE" /\ run # "NONE"
    BY <1>t DEF IInv, Known, Fresh
  <1>7. Fresh'
    BY <1>t, <1>2, <1>6 DEF IInv, Fresh, Working
  <1>8. Known'
    BY <1>t, <1>2, <1>3 DEF IInv, Known, TypeOK, At
  <1>9. Sole'
    BY <1>3 DEF IInv, Sole, At
  <1>10. \A q \in Requests \ {r} : ~At(q, "idle") /\ call[q].act = a => a \in contested
    BY DEF IInv, Sole
  <1>11. Course'
    <2>1. ASSUME NEW q \in Requests \ {r}, call[q].act = a, a \notin contested PROVE At(q, "idle")'
      BY <1>3, <1>10, <2>1 DEF At
    <2>2. ASSUME NEW q \in Requests, call[q].act # a
          PROVE  /\ call'[q] = call[q] /\ action'[call[q].act] = action[call[q].act]
                 /\ ran'[call[q].act] = ran[call[q].act]
      BY <1>t, <1>2, <2>2 DEF TypeOK
    <2> QED  BY <1>2, <1>3, <1>t, <2>1, <2>2 DEF IInv, Course, At
  <1>12. DecisionHolds'
    BY <1>t, <1>2, <1>3 DEF IInv, DecisionHolds, Deciding, At, Pending
  <1>13. Settled'
    BY <1>3 DEF IInv, Settled, At, Working
  <1>14. RunStatusIsTrue'
    BY <1>3 DEF RunStatusIsTrue, Undisturbed, At
  <1> QED
    BY <1>4, <1>5, <1>7, <1>8, <1>9, <1>11, <1>12, <1>13, <1>14 DEF IInv

\* The pieces of the invariant the row steps start from.
LEMMA RowFacts ==
    ASSUME IInv, NEW r \in Requests, ~At(r, "idle")
    PROVE  LET a == call[r].act IN
           /\ a \in Actions /\ ran[a] \in 0..2 /\ ran \in [Actions -> 0..2]
           /\ action \in [Actions -> [status : ActionStatus, type : ActionType, confirmed : BOOLEAN]]
           /\ action[a] \in [status : ActionStatus, type : ActionType, confirmed : BOOLEAN]
           /\ action[a].type = "WRITE" /\ action[a].status # "NONE"
           /\ ran[a] > 0 => action[a].confirmed
           /\ call[r].pc \in {"execute", "update"} => action[a].confirmed
           /\ a \notin contested =>
                  /\ ran[a] <= 1
                  /\ call[r].pc \in {"confirm", "reject"} => ran[a] = 0
                  /\ call[r].pc \in {"execute", "update", "markDone", "markFailed"} =>
                         action[a].status = "CONFIRMED"
                  /\ call[r].pc \in {"execute", "update"} => ran[a] = 0
                  /\ At(r, "markDone") => ran[a] = 1
           /\ SupportOK
  <1> DEFINE a == call[r].act
  <1>1. TypeOK /\ a \in Actions
    BY DEF IInv, TypeOK
  <1>2. /\ action[a].type = "WRITE" /\ action[a].status # "NONE"
        /\ ran[a] > 0 => action[a].confirmed
        /\ call[r].pc \in {"execute", "update"} => action[a].confirmed
    BY <1>1 DEF IInv, Known, NothingUnconfirmed
  <1>3. a \notin contested =>
            /\ ran[a] <= 1
            /\ call[r].pc \in {"confirm", "reject"} => ran[a] = 0
            /\ call[r].pc \in {"execute", "update", "markDone", "markFailed"} =>
                         action[a].status = "CONFIRMED"
            /\ call[r].pc \in {"execute", "update"} => ran[a] = 0
            /\ At(r, "markDone") => ran[a] = 1
    BY <1>1 DEF IInv, Course, DecisionHolds
  <1>4. SupportOK
    BY <1>1 DEF IInv, TypeOK, SupportOK
  <1>5. /\ ran[a] \in 0..2 /\ ran \in [Actions -> 0..2]
        /\ action \in [Actions -> [status : ActionStatus, type : ActionType, confirmed : BOOLEAN]]
        /\ action[a] \in [status : ActionStatus, type : ActionType, confirmed : BOOLEAN]
    BY <1>1 DEF TypeOK
  <1> QED  BY <1>1, <1>2, <1>3, <1>4, <1>5

LEMMA ConfirmKeeps ==
    ASSUME IInv, NEW r \in Requests, ConfirmWrite(r), UNCHANGED <<support, bounds>>
    PROVE  IInv'
  <1> DEFINE a == call[r].act
             row == Action("CONFIRMED", action[a].type, TRUE)
  <1>1. /\ call[r].pc = "confirm" /\ ~At(r, "idle")
        /\ call' = [call EXCEPT ![r].pc = "execute"]
        /\ action' = [action EXCEPT ![a] = row]
        /\ UNCHANGED <<run, runner, ran, contested, unsettled, bounds>>
    BY DEF ConfirmWrite, Goto, At
  <1>2. /\ row \in [status : ActionStatus, type : ActionType, confirmed : BOOLEAN]
        /\ row.status = "CONFIRMED" /\ row.type = "WRITE" /\ row.confirmed
    BY <1>1, RowFacts DEF Action, ActionStatus, Pending, ActionType
  <1>3. SupportOK'
    BY <1>1, RowFacts, SupportKept
  <1>4. "execute" \in CallSteps \ {"idle"}
    BY DEF CallSteps
  <1> HIDE DEF row
  <1> QED  BY <1>1, <1>2, <1>3, <1>4, RowFacts, RowStep

LEMMA MarkKeeps ==
    ASSUME IInv, NEW r \in Requests, Mark(r) \/ RejectWrite(r), UNCHANGED <<support, bounds>>
    PROVE  IInv'
  <1> DEFINE a == call[r].act
  <1>1. PICK s \in {"EXECUTED", "FAILED", "REJECTED"} :
           /\ action' = [action EXCEPT ![a].status = s]
           /\ s = "EXECUTED" => call[r].pc = "markDone"
           /\ s = "REJECTED" => call[r].pc = "reject"
    BY DEF Mark, RejectWrite, SetStatus, At
  <1> DEFINE row == [action[a] EXCEPT !.status = s]
  <1>2. /\ call[r].pc \in {"markDone", "markFailed", "reject"} /\ ~At(r, "idle")
        /\ call' = [call EXCEPT ![r].pc = "count"]
        /\ UNCHANGED <<run, runner, ran, contested, unsettled, bounds>>
    BY DEF Mark, RejectWrite, Goto, At
  <1>3. /\ row \in [status : ActionStatus, type : ActionType, confirmed : BOOLEAN]
        /\ row.status = s /\ row.type = "WRITE" /\ row.confirmed = action[a].confirmed
    BY <1>2, RowFacts DEF ActionStatus
  <1>4. action' = [action EXCEPT ![a] = row]
    BY <1>1
  <1>5. SupportOK'
    BY <1>2, RowFacts, SupportKept
  <1>6. "count" \in CallSteps \ {"idle"} /\ s \notin Pending
    BY DEF CallSteps, Pending
  <1> HIDE DEF row
  <1> QED  BY <1>1, <1>2, <1>3, <1>4, <1>5, <1>6, RowFacts, RowStep DEF At

LEMMA ExecuteKeeps ==
    ASSUME IInv, NEW r \in Requests, Execute(r) \/ ExecuteUpdate(r), UNCHANGED bounds
    PROVE  IInv'
  <1> DEFINE a == call[r].act
  <1>1. /\ call[r].pc \in {"execute", "update"} /\ ~At(r, "idle")
        /\ UNCHANGED <<run, action, runner, contested, unsettled, bounds>>
    BY DEF Execute, ExecuteUpdate, rows, At
  <1>2. SupportOK'
    BY <1>1, RowFacts, SupportKept, ReplyKeeps, ReadKeeps, WriteKeeps, UpdateFailsKeeps
       DEF Execute, ExecuteUpdate
  <1>3. PICK pc \in {"update", "markDone", "markFailed"} :
           /\ call' = [call EXCEPT ![r].pc = pc]
           /\ \/ TookEffect(a) /\ pc # "update"
              \/ UNCHANGED ran /\ pc # "markDone"
    BY DEF Execute, ExecuteUpdate, Goto
  <1>4. /\ ran' \in [Actions -> 0..2]
        /\ \A b \in Actions \ {a} : ran'[b] = ran[b]
        /\ a \notin contested =>
               /\ ran'[a] <= 1
               /\ pc = "markDone" => ran'[a] = 1
               /\ pc = "update" => ran'[a] = 0
    BY <1>1, <1>3, RowFacts DEF TookEffect
  <1>5. action' = [action EXCEPT ![a] = action[a]]
    BY <1>1, RowFacts
  <1>6. pc \in CallSteps \ {"idle"}
    BY DEF CallSteps
  <1> QED  BY <1>1, <1>2, <1>3, <1>4, <1>5, <1>6, RowFacts, RowStep

LEMMA CallDiesKeeps ==
    ASSUME IInv, NEW r \in Requests, CallDies(r), crashes' \in Nat
    PROVE  IInv'
  <1>t. TypeOK /\ SupportOK
    BY DEF IInv, TypeOK, SupportOK
  <1>1. /\ UNCHANGED <<run, action, runner, ran>>
        /\ contested' = contested \cup {call[r].act} /\ unsettled' = TRUE
    BY DEF CallDies, rows
  <1>s. SupportOK'
    BY <1>t, SupportKept, UpdateFailsKeeps DEF CallDies
  <1>2. /\ \A q \in Requests : q # r => call'[q] = call[q]
        /\ call'[r].pc = "idle"
    BY <1>t DEF CallDies, TypeOK, Hangup, Call
  <1>3. TypeOK'
    <2>1. call' \in [Requests -> [pc : CallSteps, act : Actions]]
      BY <1>t, IdleCall DEF CallDies, TypeOK, Hangup
    <2> QED  BY <1>t, <1>s, <1>1, <2>1 DEF TypeOK, SupportOK
  <1>4. /\ CustomerIsHeard' /\ Seen' /\ NothingUnconfirmed'
        /\ Fresh' /\ Settled' /\ RunStatusIsTrue'
    BY <1>1, <1>s DEF IInv, SupportOK, NothingUnconfirmed, Fresh, Working, Settled, RunStatusIsTrue
  <1>5. Known' /\ Sole' /\ Course'
    BY <1>1, <1>2 DEF IInv, Known, Sole, Course, At
  <1>6. DecisionHolds'
    BY <1>1, <1>2 DEF IInv, DecisionHolds, Deciding, At
  <1> QED  BY <1>3, <1>4, <1>5, <1>6 DEF IInv

-------------------------------------------------------------------------------
LEMMA StepInv == IInv /\ [Next]_vars => IInv'
  <1> SUFFICES ASSUME IInv, [Next]_vars PROVE IInv'
    OBVIOUS
  <1>1. SupportOK
    BY DEF IInv, TypeOK, SupportOK
  <1>2. CASE Customer \/ Console
    BY <1>1, <1>2, CustomerKeeps, SupportStep DEF Customer, Console
  <1>3. CASE Admin
    BY <1>3, RunnerKeeps, DecideKeeps DEF Admin, Confirm, Reject, bounds, IInv, TypeOK
  <1>4. CASE Process
    BY <1>4, RunnerKeeps, ToolCallKeeps DEF Process, bounds, IInv, TypeOK
  <1>5. ASSUME NEW r \in Requests, Carry(r) PROVE IInv'
    BY <1>5, ExecuteKeeps, ConfirmKeeps, MarkKeeps, RefreshKeeps DEF Carry
  <1>6. CASE Crash
    <2>1. crashes' \in Nat
      BY <1>6 DEF Crash, IInv, TypeOK
    <2> QED  BY <1>6, <2>1, RunnerKeeps, CallDiesKeeps DEF Crash
  <1>7. CASE UNCHANGED vars
    BY <1>1, <1>7, SupportKept, SupportStep DEF vars
  <1> QED  BY <1>2, <1>3, <1>4, <1>5, <1>6, <1>7 DEF Next

\* Every value keeps its type; toolCallsCount never passes its limit.
THEOREM DeskTypes == Spec => []TypeOK
  <1>1. IInv => TypeOK
    BY DEF IInv
  <1> QED  BY <1>1, InitInv, StepInv, PTL DEF Spec

\* The customer's last word is only ever filed away by an update that had read the
\* ticket before it came and that adds no message, for any number of messages, updates
\* and executed actions in flight.
THEOREM CustomerHeard == Spec => []CustomerIsHeard
  <1>1. IInv => CustomerIsHeard
    BY DEF IInv
  <1> QED  BY <1>1, InitInv, StepInv, PTL DEF Spec

\* No tool changes anything before an admin confirms, however decisions overlap and
\* whatever crashes.
THEOREM ConfirmedFirst == Spec => []NothingUnconfirmed
  <1>1. IInv => NothingUnconfirmed
    BY DEF IInv
  <1> QED  BY <1>1, InitInv, StepInv, PTL DEF Spec

\* An action no decisions crossed on ran as often as its row says.
THEOREM DecisionsHold == Spec => []DecisionHolds
  <1>1. IInv => DecisionHolds
    BY DEF IInv
  <1> QED  BY <1>1, InitInv, StepInv, PTL DEF Spec

\* A run whose decisions came one at a time says whether any is left.
THEOREM RunStatusTrue == Spec => []RunStatusIsTrue
  <1>1. IInv => RunStatusIsTrue
    BY DEF IInv
  <1> QED  BY <1>1, InitInv, StepInv, PTL DEF Spec
===============================================================================
