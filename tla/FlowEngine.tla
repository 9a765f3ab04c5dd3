----------------------------- MODULE FlowEngine -----------------------------
(***************************************************************************)
(* The flow engine on one ticket: a merchant's graph of steps is walked    *)
(* until it has to wait for the customer, resolves or escalates, and is    *)
(* resumed at the waiting step when a reply has come in.                   *)
(*                                                                         *)
(* Source: services/flow_engine.py, FlowCSRuntime.handle_ticket in         *)
(* services/agent_runtime/flow.py, append_reply in services/tickets.py.    *)
(* Runs of the engine do not overlap here, nor does ingestion overlap with *)
(* them (CSDesk has that); what this module has is the graph, its edits    *)
(* between and during runs, and runs cut off between an effect and the     *)
(* commit that records where the ticket stands.  Steps are numbered from 1 *)
(* (from 0 in the code).  Wording, order data and discount codes are left  *)
(* out: a failing create_discount is swallowed and steers nothing.         *)
(***************************************************************************)
EXTENDS Naturals, Sequences

CONSTANTS
    Flows,      \* the step lists the merchant may save for this flow
    MaxReplies, \* bound: replies of the customer
    MaxEdits,   \* bound: saves of a step list
    MaxAborts,  \* bound: runs cut off by an exception or a crash
    MaxMailed   \* bound: the e-mails of a step are counted up to this

StepType == {"message", "lookup_order", "cite_policy", "send_reply", "offer_discount",
             "request_refund_approval", "escalate", "resolve", "unknown"}

\* A goto is "resolve", "escalate", "next" or the id of a step; branches are
\* given by their gotos.
Step == [id : STRING, type : StepType, branches : Seq(STRING), goto : STRING]

ASSUME FlowsAssumption == Flows \subseteq Seq(Step)
ASSUME BoundsAssumption ==
    MaxReplies \in Nat /\ MaxEdits \in Nat /\ MaxAborts \in Nat /\ MaxMailed \in Nat

\* What can send an e-mail: a step, or an offer that is accepted.
Sender == {"accept_message"} \cup UNION {{f[k].id : k \in DOMAIN f} : f \in Flows}
Body == {"keyword", "accepts", "other"}   \* has an escalate keyword, reads as acceptance, neither
Actionable == {"new", "auto_handling"}
NotWaiting == 0

VARIABLES
    steps,      \* flows.steps
    status,     \* tickets.status
    flowStep,   \* tickets.flow_step
    awaiting,   \* tickets.flow_data["awaiting_step"]
    body,       \* the last inbound message
    replies, edits, aborts,     \* so far
    mailed,     \* e-mails sent, by sender
    asked,      \* history: the last e-mail, its flow, and whether the ticket waits for its answer
    refunds,    \* refund requests filed for the ticket
    at,         \* what the run stands before
    prog,       \* the run's copy of flows.steps
    i,          \* the run's current step
    waitOn,     \* data["awaiting_step"] of the run
    outcome     \* the outcome the run will persist

ticketVars == <<status, flowStep, awaiting, body, replies, refunds>>
runVars == <<at, prog, i, waitOn, outcome>>
vars == <<steps, status, flowStep, awaiting, body, replies, edits, aborts,
          mailed, asked, refunds, at, prog, i, waitOn, outcome>>

Init ==
    /\ steps \in Flows
    /\ status = "new" /\ flowStep = 1 /\ awaiting = NotWaiting
    /\ body \in Body
    /\ replies = 0 /\ edits = 0 /\ aborts = 0
    /\ mailed = [s \in Sender |-> 0] /\ refunds = 0
    /\ asked = [id |-> "nobody", flow |-> steps, recorded |-> FALSE]
    /\ at = "idle" /\ prog = steps /\ i = 1 /\ waitOn = NotWaiting /\ outcome = "none"

-----------------------------------------------------------------------------
\* append_reply: a ticket that awaits its customer becomes actionable again.
Reply(b) ==
    /\ at = "idle" /\ status # "resolved" /\ replies < MaxReplies
    /\ body' = b
    /\ replies' = replies + 1
    /\ status' = IF status = "awaiting_customer" THEN "auto_handling" ELSE status
    /\ UNCHANGED <<steps, flowStep, awaiting, edits, aborts, mailed, asked, refunds, runVars>>

\* update_flow: the whole list is replaced, whatever tickets wait on it.
UpdateFlow(f) ==
    /\ edits < MaxEdits
    /\ steps' = f
    /\ edits' = edits + 1
    /\ UNCHANGED <<ticketVars, aborts, mailed, asked, runVars>>

-----------------------------------------------------------------------------
(* One run: FlowEngine.run. *)

Finishing(o) == at' = "finish" /\ outcome' = o

\* Walk on at step j; past the last step the flow is complete.
GoTo(j) == at' = "walk" /\ i' = j /\ outcome' = "none"

\* Variant: an escalated ticket is picked up again.
BeginFrozenToo ==
    /\ at = "idle" /\ status # "resolved"
    /\ prog' = steps /\ i' = flowStep /\ waitOn' = awaiting
    /\ IF body = "keyword" THEN Finishing("escalate")
       ELSE /\ at' = IF awaiting = flowStep /\ flowStep <= Len(steps) THEN "resume" ELSE "walk"
            /\ outcome' = "none"
    /\ UNCHANGED <<steps, ticketVars, edits, aborts, mailed, asked>>

\* handle_ticket and the head of run: keywords first, then the waiting step.
Begin ==
    /\ at = "idle" /\ status \in Actionable
    /\ prog' = steps /\ i' = flowStep /\ waitOn' = awaiting
    /\ IF body = "keyword" THEN Finishing("escalate")
       ELSE /\ at' = IF awaiting = flowStep /\ flowStep <= Len(steps) THEN "resume" ELSE "walk"
            /\ outcome' = "none"
    /\ UNCHANGED <<steps, ticketVars, edits, aborts, mailed, asked>>

IndexOf(id) == {j \in DOMAIN prog : prog[j].id = id}

\* Variant: "next" stays where it is.
FollowStays(goto) ==
    IF goto \in {"resolve", "escalate"} THEN Finishing(goto) /\ UNCHANGED i
    ELSE GoTo(i)

\* _resolve_goto; of two steps with one id the later one is meant.
Follow(goto) ==
    IF goto \in {"resolve", "escalate"} THEN Finishing(goto) /\ UNCHANGED i
    ELSE IF goto = "next" THEN GoTo(i + 1)
    ELSE IF IndexOf(goto) # {}
         THEN \E j \in IndexOf(goto) : (\A k \in IndexOf(goto) : k <= j) /\ GoTo(j)
    ELSE Finishing("escalate") /\ UNCHANGED i

\* _resume_step.  The classifier may pick any branch, the last one included
\* when it fails; anything but a question the flow just moves past.
Resume ==
    /\ at = "resume"
    /\ IF prog[i].type = "message" /\ prog[i].branches # <<>>
       THEN /\ \E b \in DOMAIN prog[i].branches : Follow(prog[i].branches[b])
            /\ waitOn' = IF at' = "finish" THEN waitOn ELSE NotWaiting
       ELSE IF prog[i].type = "offer_discount" /\ body = "accepts"
       THEN at' = "accept" /\ UNCHANGED <<i, waitOn, outcome>>
       ELSE GoTo(i + 1) /\ waitOn' = NotWaiting
    /\ UNCHANGED <<steps, ticketVars, edits, aborts, mailed, asked, prog>>

Mails(s) ==
    /\ mailed' = [mailed EXCEPT ![s] = IF @ < MaxMailed THEN @ + 1 ELSE @]
    /\ asked' = [id |-> s, flow |-> prog, recorded |-> FALSE]

\* The thank-you of an accepted offer.
SendAcceptance ==
    /\ at = "accept"
    /\ Mails("accept_message")
    /\ Finishing("resolve")
    /\ UNCHANGED <<steps, ticketVars, edits, aborts, prog, i, waitOn>>

\* The loop of run ends behind the last step: "flow complete".
Complete ==
    /\ at = "walk" /\ i \notin DOMAIN prog
    /\ Finishing("resolve")
    /\ i' = IF prog = <<>> THEN 1 ELSE Len(prog)
    /\ UNCHANGED <<steps, ticketVars, edits, aborts, mailed, asked, prog, waitOn>>

\* _run_step up to its e-mail: a refund request is committed before it.
Walk ==
    /\ at = "walk" /\ i \in DOMAIN prog
    /\ CASE prog[i].type \in {"message", "send_reply", "offer_discount"} ->
              at' = "send" /\ UNCHANGED <<i, outcome, refunds>>
         [] prog[i].type = "request_refund_approval" ->
              at' = "send" /\ refunds' = refunds + 1 /\ UNCHANGED <<i, outcome>>
         [] prog[i].type \in {"lookup_order", "cite_policy"} ->
              GoTo(i + 1) /\ UNCHANGED refunds
         [] prog[i].type = "resolve" -> Finishing("resolve") /\ UNCHANGED <<i, refunds>>
         [] OTHER -> Finishing("escalate") /\ UNCHANGED <<i, refunds>>
    /\ UNCHANGED <<steps, status, flowStep, awaiting, body, replies, edits, aborts, mailed,
                   asked, prog, waitOn>>

\* Variant: a refund request does not end the walk.
SendRefundGoesOn ==
    /\ at = "send"
    /\ Mails(prog[i].id)
    /\ IF prog[i].type = "message" THEN Finishing("wait") /\ UNCHANGED i ELSE GoTo(i + 1)
    /\ UNCHANGED <<steps, ticketVars, edits, aborts, prog, waitOn>>

\* Variant: a question is not waited for.
SendNeverWaits ==
    /\ at = "send"
    /\ Mails(prog[i].id)
    /\ GoTo(i + 1)
    /\ UNCHANGED <<steps, ticketVars, edits, aborts, prog, waitOn>>

\* The e-mail of a step and what the step returns after it.
Send ==
    /\ at = "send"
    /\ Mails(prog[i].id)
    /\ CASE prog[i].type = "offer_discount" -> Finishing("wait") /\ UNCHANGED i
         [] prog[i].type = "message" ->
              IF prog[i].branches # <<>> THEN Finishing("wait") /\ UNCHANGED i
                                         ELSE Follow(prog[i].goto)
         [] prog[i].type = "request_refund_approval" -> Finishing("escalate") /\ UNCHANGED i
         [] OTHER -> GoTo(i + 1)
    /\ UNCHANGED <<steps, ticketVars, edits, aborts, prog, waitOn>>

StatusAfter(o) ==
    CASE o = "wait" -> "awaiting_customer"
      [] o = "resolve" -> "resolved"
      [] o = "escalate" -> "needs_rep"

\* Variant: the waiting step is not recorded.
FinishForgetsWait ==
    /\ at = "finish"
    /\ status' = StatusAfter(outcome) /\ flowStep' = i /\ awaiting' = waitOn
    /\ asked' = [asked EXCEPT !.recorded = (outcome = "wait")]
    /\ at' = "idle"
    /\ UNCHANGED <<steps, body, replies, edits, aborts, mailed, refunds, prog, i, waitOn, outcome>>

\* Variant: the step behind the question is recorded.
FinishRecordsNext ==
    /\ at = "finish"
    /\ status' = StatusAfter(outcome) /\ flowStep' = i + 1
    /\ awaiting' = IF outcome = "wait" THEN i + 1 ELSE waitOn
    /\ asked' = [asked EXCEPT !.recorded = (outcome = "wait")]
    /\ at' = "idle"
    /\ UNCHANGED <<steps, body, replies, edits, aborts, mailed, refunds, prog, i, waitOn, outcome>>

\* _persist_and_finish: one commit.
Finish ==
    /\ at = "finish"
    /\ status' = StatusAfter(outcome)
    /\ flowStep' = i
    /\ awaiting' = IF outcome = "wait" THEN i ELSE waitOn
    /\ asked' = [asked EXCEPT !.recorded = (outcome = "wait")]
    /\ at' = "idle"
    /\ UNCHANGED <<steps, body, replies, edits, aborts, mailed, refunds, prog, i, waitOn, outcome>>

\* The mail provider or the database raises, or the process dies.
Abort ==
    /\ at # "idle" /\ aborts < MaxAborts
    /\ at' = "idle"
    /\ aborts' = aborts + 1
    /\ UNCHANGED <<steps, ticketVars, edits, mailed, asked, prog, i, waitOn, outcome>>

Run == Begin \/ Resume \/ SendAcceptance \/ Walk \/ Complete \/ Send \/ Finish

Next ==
    \/ \E b \in Body : Reply(b)
    \/ \E f \in Flows : UpdateFlow(f)
    \/ Run
    \/ Abort

\* The loop is started again and again, and a run that has begun goes on.
Fairness == WF_vars(Run)

Spec == Init /\ [][Next]_vars /\ Fairness

-----------------------------------------------------------------------------
(* Properties. *)

\* What is remembered of an e-mail.
Mail == [id : Sender \cup {"nobody"}, flow : Flows, recorded : BOOLEAN]

TypeOK ==
    /\ steps \in Flows /\ prog \in Flows
    /\ status \in {"new", "auto_handling", "awaiting_customer", "needs_rep", "resolved"}
    /\ flowStep \in Nat \ {0} /\ i \in Nat \ {0}
    /\ awaiting \in Nat /\ waitOn \in Nat
    /\ body \in Body
    /\ replies \in Nat /\ edits \in Nat /\ aborts \in Nat /\ refunds \in Nat
    /\ mailed \in [Sender -> Nat]
    /\ asked \in Mail
    /\ at \in {"idle", "resume", "accept", "walk", "send", "finish"}
    /\ outcome \in {"none", "wait", "resolve", "escalate"}

\* However the merchant lays out and edits the flow, a ticket gets one refund
\* request, and at most one more for each run that was cut off: the request is
\* committed before the e-mail and before the escalation that freezes the ticket.
RefundsWithinAborts == refunds <= 1 + aborts

\* When no run was cut off, a ticket for which a refund was requested is with
\* a rep, and neither the flow nor a reply takes it away again.
RefundIsHandedOver == at = "idle" /\ refunds > aborts => status = "needs_rep"

\* In flows whose gotos lead forward, a step e-mails the customer once, and once
\* more at most for each run that was cut off and each save of other steps under
\* the ticket: the walk goes on from the waiting step and does not repeat it, and
\* a save can move the ticket back to the first step only as often as it happens.
EmailsWithinAborts == \A s \in Sender : mailed[s] <= 1 + aborts + edits

\* Whatever was saved and cut off in between: while the ticket is recorded to wait
\* for the answer to its last e-mail, a run that takes up a reply under the steps
\* that e-mail was sent by takes it for the answer to that e-mail.  (Under other
\* steps it takes it for the answer to whatever stands at that place now.)
AnswersWhatWasAsked ==
    at = "resume" /\ asked.recorded /\ prog = asked.flow => asked.id = prog[i].id

\* Every ticket that needs the flow gets to wait for its customer, to a rep or
\* to its end.
WalkEnds == status \in Actionable ~> status \notin Actionable

=============================================================================
