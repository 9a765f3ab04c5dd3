-------------------------- MODULE FlowEngine_proofs --------------------------
(***************************************************************************)
(* Proofs about FlowEngine for every set of flows, every number of saves,  *)
(* replies and runs that are cut off.                                      *)
(***************************************************************************)
EXTENDS MCFlowEngine, TLAPS

\* The run stands inside its copy of the flow wherever it reads a step, and it
\* has an outcome to persist when it finishes.
InFlow ==
    /\ at \in {"resume", "accept", "send"} => i \in DOMAIN prog
    /\ at = "finish" => outcome # "none"

\* A request no cut-off run accounts for is on its way to the rep or there.
OnItsWay ==
    refunds > aborts =>
        \/ at = "send" /\ prog[i].type = "request_refund_approval"
        \/ at = "finish" /\ outcome = "escalate"
        \/ at = "idle" /\ status = "needs_rep"

IInv == TypeOK /\ InFlow /\ RefundsWithinAborts /\ OnItsWay

-----------------------------------------------------------------------------
(* Helpers. *)

\* A step of a flow is a step, and its id is one that can send.
LEMMA StepOfFlow ==
    ASSUME NEW f \in Flows, NEW k \in DOMAIN f
    PROVE  /\ f \in Seq(Step) /\ k \in Nat \ {0}
           /\ f[k] \in Step
           /\ f[k].id \in Sender
  <1>1. f \in Seq(Step) /\ k \in 1..Len(f)
    BY FlowsAssumption
  <1>2. f[k].id \in {f[l].id : l \in DOMAIN f}
    OBVIOUS
  <1> QED
    BY <1>1, <1>2 DEF Sender

\* Counting an e-mail keeps the types of the counters.
LEMMA MailsType ==
    ASSUME TypeOK, NEW s \in Sender, Mails(s)
    PROVE  mailed' \in [Sender -> Nat] /\ asked' \in Mail
  BY DEF TypeOK, Mails, Mail

\* Following a goto leads to the walk or to an end of the run.
LEMMA FollowLeads ==
    ASSUME TypeOK, InFlow, NEW g, Follow(g)
    PROVE  /\ at' \in {"walk", "finish"}
           /\ i' \in Nat \ {0}
           /\ outcome' \in {"none", "resolve", "escalate"}
           /\ at' = "finish" => outcome' # "none"
  <1>1. prog \in Seq(Step)
    BY FlowsAssumption DEF TypeOK
  <1>2. \A j \in IndexOf(g) : j \in Nat \ {0}
    BY <1>1 DEF IndexOf
  <1>3. CASE g \in {"resolve", "escalate"}
    BY <1>3 DEF Follow, Finishing, TypeOK
  <1>4. CASE g \notin {"resolve", "escalate"} /\ g = "next"
    BY <1>4 DEF Follow, GoTo, TypeOK
  <1>5. CASE g \notin {"resolve", "escalate", "next"} /\ IndexOf(g) # {}
    BY <1>2, <1>5 DEF Follow, GoTo
  <1>6. CASE g \notin {"resolve", "escalate", "next"} /\ IndexOf(g) = {}
    BY <1>6 DEF Follow, Finishing, TypeOK
  <1> QED
    BY <1>3, <1>4, <1>5, <1>6

-----------------------------------------------------------------------------
(* The inductive invariant. *)

LEMMA InitIInv == Init => IInv
  <1> SUFFICES ASSUME Init PROVE IInv
    OBVIOUS
  <1>1. TypeOK
    BY DEF Init, TypeOK, NotWaiting, Body, Sender, Mail
  <1> QED
    BY <1>1 DEF Init, IInv, InFlow, RefundsWithinAborts, OnItsWay

LEMMA NextIInv == IInv /\ [Next]_vars => IInv'
  <1> SUFFICES ASSUME IInv, [Next]_vars PROVE IInv'
    OBVIOUS
  <1> USE DEF IInv
  <1>1. ASSUME NEW b \in Body, Reply(b) PROVE IInv'
    BY <1>1 DEF Reply, runVars, TypeOK, InFlow, RefundsWithinAborts, OnItsWay, Body
  <1>2. ASSUME NEW f \in Flows, UpdateFlow(f) PROVE IInv'
    BY <1>2 DEF UpdateFlow, ticketVars, runVars, TypeOK, InFlow, RefundsWithinAborts, OnItsWay
  <1>3. ASSUME Begin PROVE IInv'
    <2>1. at = "idle" /\ refunds <= aborts
      BY <1>3 DEF Begin, OnItsWay, Actionable, TypeOK
    <2>2. CASE body = "keyword"
      BY <1>3, <2>1, <2>2 DEF Begin, Finishing, ticketVars, TypeOK, InFlow, RefundsWithinAborts, OnItsWay
    <2>3. CASE body # "keyword"
      BY <1>3, <2>1, <2>3 DEF Begin, ticketVars, TypeOK, InFlow, RefundsWithinAborts, OnItsWay
    <2> QED
      BY <2>2, <2>3
  <1>4. ASSUME Resume PROVE IInv'
    <2>1. refunds <= aborts
      BY <1>4 DEF Resume, OnItsWay, TypeOK
    <2>2. /\ at' \in {"walk", "finish", "accept"}
          /\ i' \in Nat \ {0} /\ waitOn' \in Nat
          /\ at' = "accept" => i' = i
          /\ outcome' \in {"none", "wait", "resolve", "escalate"}
          /\ at' = "finish" => outcome' # "none"
      <3>1. CASE prog[i].type = "message" /\ prog[i].branches # <<>>
        <4>1. PICK k \in DOMAIN prog[i].branches : Follow(prog[i].branches[k])
          BY <1>4, <3>1 DEF Resume
        <4>2. waitOn' \in Nat
          BY <1>4, <3>1 DEF Resume, TypeOK, NotWaiting
        <4> QED
          BY <4>1, <4>2, FollowLeads
      <3>2. CASE ~(prog[i].type = "message" /\ prog[i].branches # <<>>)
        BY <1>4, <3>2 DEF Resume, GoTo, TypeOK, NotWaiting
      <3> QED
        BY <3>1, <3>2
    <2>3. at = "resume" /\ i \in DOMAIN prog
      BY <1>4 DEF Resume, InFlow
    <2>4. UNCHANGED <<steps, status, flowStep, awaiting, body, replies, refunds,
                      edits, aborts, mailed, asked, prog>>
      BY <1>4 DEF Resume, ticketVars
    <2> QED
      BY <2>1, <2>2, <2>3, <2>4 DEF TypeOK, InFlow, RefundsWithinAborts, OnItsWay
  <1>5. ASSUME SendAcceptance PROVE IInv'
    <2>1. refunds <= aborts
      BY <1>5 DEF SendAcceptance, OnItsWay, TypeOK
    <2>2. mailed' \in [Sender -> Nat] /\ asked' \in Mail
      BY <1>5, MailsType DEF SendAcceptance, Sender
    <2> QED
      BY <1>5, <2>1, <2>2 DEF SendAcceptance, Finishing, ticketVars, TypeOK, InFlow,
                              RefundsWithinAborts, OnItsWay
  <1>6. ASSUME Walk PROVE IInv'
    <2>1. refunds <= aborts
      BY <1>6 DEF Walk, OnItsWay, TypeOK
    <2>2. /\ at' \in {"send", "walk", "finish"}
          /\ at' = "send" => i' = i
          /\ i' \in Nat \ {0}
          /\ outcome' \in {"none", "wait", "resolve", "escalate"}
          /\ at' = "finish" => outcome' # "none"
          /\ refunds' = refunds
             \/ /\ prog[i].type = "request_refund_approval"
                /\ at' = "send" /\ refunds' = refunds + 1
      BY <1>6 DEF Walk, GoTo, Finishing, TypeOK
    <2>3. i \in DOMAIN prog
          /\ UNCHANGED <<steps, status, flowStep, awaiting, body, replies,
                         edits, aborts, mailed, asked, prog, waitOn>>
      BY <1>6 DEF Walk
    <2> QED
      BY <2>1, <2>2, <2>3 DEF TypeOK, InFlow, RefundsWithinAborts, OnItsWay
  <1>7. ASSUME Complete PROVE IInv'
    <2>1. refunds <= aborts
      BY <1>7 DEF Complete, OnItsWay, TypeOK
    <2>2. i' \in Nat \ {0}
      BY <1>7 DEF Complete, TypeOK
    <2> QED
      BY <1>7, <2>1, <2>2 DEF Complete, Finishing, ticketVars, TypeOK, InFlow,
                              RefundsWithinAborts, OnItsWay
  <1>8. ASSUME Send PROVE IInv'
    <2>1. at = "send" /\ i \in DOMAIN prog /\ prog[i].id \in Sender
      BY <1>8, StepOfFlow DEF Send, InFlow, TypeOK
    <2>2. mailed' \in [Sender -> Nat] /\ asked' \in Mail
      BY <1>8, <2>1, MailsType DEF Send
    <2>3. /\ at' \in {"walk", "finish"}
          /\ i' \in Nat \ {0}
          /\ outcome' \in {"none", "wait", "resolve", "escalate"}
          /\ at' = "finish" => outcome' # "none"
          /\ prog[i].type = "request_refund_approval" => at' = "finish" /\ outcome' = "escalate"
      <3>1. CASE prog[i].type = "message" /\ prog[i].branches = <<>>
        <4>1. Follow(prog[i].goto)
          BY <1>8, <3>1 DEF Send
        <4> QED
          BY <3>1, <4>1, FollowLeads
      <3>2. CASE ~(prog[i].type = "message" /\ prog[i].branches = <<>>)
        BY <1>8, <3>2 DEF Send, Finishing, GoTo, TypeOK
      <3> QED
        BY <3>1, <3>2
    <2>4. UNCHANGED <<steps, status, flowStep, awaiting, body, replies, refunds,
                      edits, aborts, prog, waitOn>>
      BY <1>8 DEF Send, ticketVars
    <2> QED
      BY <2>1, <2>2, <2>3, <2>4 DEF TypeOK, InFlow, RefundsWithinAborts, OnItsWay
  <1>9. ASSUME Finish PROVE IInv'
    <2>1. status' \in {"awaiting_customer", "needs_rep", "resolved"}
          /\ (outcome = "escalate" => status' = "needs_rep")
      BY <1>9 DEF Finish, StatusAfter, InFlow, TypeOK
    <2>2. awaiting' \in Nat /\ flowStep' \in Nat \ {0} /\ asked' \in Mail
      BY <1>9 DEF Finish, TypeOK, Mail
    <2> QED
      BY <1>9, <2>1, <2>2 DEF Finish, TypeOK, InFlow, RefundsWithinAborts, OnItsWay
  <1>10. ASSUME Abort PROVE IInv'
    BY <1>10 DEF Abort, ticketVars, TypeOK, InFlow, RefundsWithinAborts, OnItsWay
  <1>11. ASSUME UNCHANGED vars PROVE IInv'
    BY <1>11 DEF vars, TypeOK, InFlow, RefundsWithinAborts, OnItsWay
  <1> QED
    BY <1>1, <1>2, <1>3, <1>4, <1>5, <1>6, <1>7, <1>8, <1>9, <1>10, <1>11 DEF Next, Run

THEOREM Invariance == Spec => []IInv
  BY InitIInv, NextIInv, PTL DEF Spec

-----------------------------------------------------------------------------
(* Results. *)

\* Every variable keeps its type: in particular the step a ticket stands at
\* and the counters of e-mails stay within the flows the merchant has saved.
THEOREM TypeCorrect == Spec => []TypeOK
  BY Invariance, PTL DEF IInv

\* _step_request_refund files one request per ticket, and one more at most for
\* each run that was cut off, in every flow and under every edit of it.
THEOREM RefundRequestsBounded == Spec => []RefundsWithinAborts
  BY Invariance, PTL DEF IInv

\* A filed refund ends with the ticket at a rep, unless a run was cut off.
THEOREM RefundReachesRep == Spec => []RefundIsHandedOver
  <1>1. IInv => RefundIsHandedOver
    BY DEF IInv, TypeOK, OnItsWay, RefundIsHandedOver
  <1> QED
    BY <1>1, Invariance, PTL

-----------------------------------------------------------------------------
(* The answer to a question.                                                *)

\* The question that the ticket is recorded to wait on stands at the step it
\* waits at, in the flow it was asked by; that is the step a run takes up.
Answering ==
    /\ asked.recorded => asked.id = asked.flow[flowStep].id
    /\ at = "resume" => i = flowStep
    /\ at = "finish" /\ outcome = "wait" => asked.id = prog[i].id /\ asked.flow = prog

LEMMA AnsweringStep == IInv /\ Answering /\ [Next]_vars => Answering'
  <1> SUFFICES ASSUME IInv, Answering, [Next]_vars PROVE Answering'
    OBVIOUS
  <1> USE DEF IInv, TypeOK
  <1>1. ASSUME NEW b \in Body, Reply(b) PROVE Answering'
    BY <1>1 DEF Reply, runVars, Answering
  <1>2. ASSUME NEW f \in Flows, UpdateFlow(f) PROVE Answering'
    BY <1>2 DEF UpdateFlow, ticketVars, runVars, Answering
  <1>3. ASSUME Begin PROVE Answering'
    BY <1>3 DEF Begin, Finishing, ticketVars, Answering
  <1>4. ASSUME at' # "resume", ~(at' = "finish" /\ outcome' = "wait"),
               flowStep' = flowStep, asked' = asked \/ ~asked'.recorded
        PROVE  Answering'
    BY <1>4 DEF Answering
  <1>5. ASSUME Resume PROVE Answering'
    <2>1. CASE prog[i].type = "message" /\ prog[i].branches # <<>>
      <3>1. PICK k \in DOMAIN prog[i].branches : Follow(prog[i].branches[k])
        BY <1>5, <2>1 DEF Resume
      <3> QED
        BY <1>4, <1>5, <3>1, FollowLeads DEF Resume, ticketVars
    <2>2. CASE ~(prog[i].type = "message" /\ prog[i].branches # <<>>)
      BY <1>4, <1>5, <2>2 DEF Resume, GoTo, ticketVars
    <2> QED
      BY <2>1, <2>2
  <1>6. ASSUME SendAcceptance \/ Complete PROVE Answering'
    BY <1>4, <1>6 DEF SendAcceptance, Complete, Finishing, Mails, ticketVars
  <1>7. ASSUME Walk PROVE Answering'
    <2>1. at' \in {"send", "walk"} \/ (at' = "finish" /\ outcome' \in {"resolve", "escalate"})
      BY <1>7 DEF Walk, GoTo, Finishing
    <2> QED
      BY <1>4, <1>7, <2>1 DEF Walk
  <1>8. ASSUME Send PROVE Answering'
    <2>1. asked' = [id |-> prog[i].id, flow |-> prog, recorded |-> FALSE]
      BY <1>8 DEF Send, Mails
    <2>2. at' \in {"walk", "finish"} /\ (at' = "finish" /\ outcome' = "wait" => i' = i)
      <3>1. CASE prog[i].type = "message" /\ prog[i].branches = <<>>
        <4>1. Follow(prog[i].goto)
          BY <1>8, <3>1 DEF Send
        <4> QED
          BY <4>1, FollowLeads
      <3>2. CASE ~(prog[i].type = "message" /\ prog[i].branches = <<>>)
        BY <1>8, <3>2 DEF Send, Finishing, GoTo
      <3> QED
        BY <3>1, <3>2
    <2>3. prog' = prog
      BY <1>8 DEF Send
    <2> QED
      BY <2>1, <2>2, <2>3 DEF Answering
  <1>9. ASSUME Finish PROVE Answering'
    <2>1. /\ flowStep' = i /\ at' = "idle"
          /\ asked'.id = asked.id /\ asked'.flow = asked.flow
          /\ asked'.recorded = (outcome = "wait")
      BY <1>9 DEF Finish, Mail
    <2>2. outcome = "wait" => asked.id = prog[i].id /\ asked.flow = prog
      BY <1>9 DEF Finish, Answering
    <2> QED
      BY <2>1, <2>2 DEF Answering
  <1>10. ASSUME Abort PROVE Answering'
    BY <1>10 DEF Abort, ticketVars, Answering
  <1>11. ASSUME UNCHANGED vars PROVE Answering'
    BY <1>11 DEF vars, Answering
  <1> QED
    BY <1>1, <1>2, <1>3, <1>5, <1>6, <1>7, <1>8, <1>9, <1>10, <1>11 DEF Next, Run

\* In every flow, whatever is saved and cut off: _resume_step takes a reply as the
\* answer to the question that was asked last, as long as _persist_and_finish has
\* recorded the wait for it and the steps are those it was asked by.
THEOREM RepliesAnswerTheQuestion == Spec => []AnswersWhatWasAsked
  <1>1. Init => Answering
    BY DEF Init, Answering
  <1>2. Answering => AnswersWhatWasAsked
    BY DEF Answering, AnswersWhatWasAsked
  <1> QED
    BY <1>1, <1>2, AnsweringStep, Invariance, PTL DEF Spec

-----------------------------------------------------------------------------
(* E-mails of a step.                                                       *)

\* Steps that end the run without an e-mail.
EndsHere(step) == step.type \in {"escalate", "resolve", "unknown"}

Gotos(step) == {step.goto} \cup {step.branches[b] : b \in DOMAIN step.branches}

\* What a merchant has to keep to: a goto leads to a later step, or to one that
\* ends the run, and no two senders share an id.
GotosLeadForward ==
    \A f \in Flows : \A k, j \in DOMAIN f :
        f[j].id \in Gotos(f[k]) => j > k \/ EndsHere(f[j])
OneIdEach ==
    \A f \in Flows : \A k \in DOMAIN f :
        f[k].id # "accept_message" /\ \A j \in DOMAIN f : f[j].id = f[k].id => j = k

Frozen == {"needs_rep", "resolved"}

\* From step k on nothing was e-mailed more than n times.
Fresh(k, n) ==
    /\ mailed["accept_message"] <= n
    /\ \A j \in DOMAIN prog : j >= k => mailed[prog[j].id] <= n

\* No sender is more than one e-mail above n, and the ticket and the run stand
\* before steps that are not above it.
Frugal(n) ==
    /\ \A s \in Sender : mailed[s] <= 1 + n
    /\ at = "idle" /\ status \notin Frozen =>
          Fresh(IF awaiting = flowStep THEN flowStep + 1 ELSE flowStep, n)
    /\ at = "resume" => Fresh(i + 1, n)
    /\ at = "accept" => mailed["accept_message"] <= n
    /\ at = "walk" => Fresh(i, n) \/ (i \in DOMAIN prog /\ EndsHere(prog[i]))
    /\ at = "send" => Fresh(i, n)
    /\ at = "finish" /\ outcome = "wait" => Fresh(i + 1, n)

\* The cuts and saves account for n; while there is none to spare, the steps are
\* those that the last run has gone by.
Accounted(n) == n < aborts + edits \/ (n = aborts + edits /\ prog = steps)

FrugalInv == \E n \in Nat : Frugal(n) /\ Accounted(n)

\* Where a goto of the step leads.
LEMMA FollowForward ==
    ASSUME TypeOK, GotosLeadForward, i \in DOMAIN prog, prog' = prog,
           NEW g \in Gotos(prog[i]), Follow(g)
    PROVE  \/ at' = "finish" /\ outcome' \in {"resolve", "escalate"}
           \/ /\ at' = "walk"
              /\ i' \in Nat /\ (i' > i \/ (i' \in DOMAIN prog' /\ EndsHere(prog'[i'])))
  <1>1. prog \in Seq(Step) /\ prog \in Flows /\ i \in Nat
    BY FlowsAssumption DEF TypeOK
  <1>2. ASSUME NEW j \in IndexOf(g)
        PROVE  j \in Nat /\ j \in DOMAIN prog /\ (j > i \/ EndsHere(prog[j]))
    BY <1>1, <1>2 DEF IndexOf, GotosLeadForward
  <1>3. CASE g \in {"resolve", "escalate"}
    BY <1>3 DEF Follow, Finishing
  <1>4. CASE g \notin {"resolve", "escalate"} /\ g = "next"
    BY <1>1, <1>4 DEF Follow, GoTo
  <1>5. CASE g \notin {"resolve", "escalate", "next"} /\ IndexOf(g) # {}
    BY <1>2, <1>5 DEF Follow, GoTo
  <1>6. CASE g \notin {"resolve", "escalate", "next"} /\ IndexOf(g) = {}
    BY <1>6 DEF Follow, Finishing
  <1> QED
    BY <1>3, <1>4, <1>5, <1>6

\* One more e-mail of a fresh sender.
LEMMA MailsOnce ==
    ASSUME TypeOK, NEW n \in Nat, NEW s \in Sender, Mails(s), mailed[s] <= n,
           \A x \in Sender : mailed[x] <= 1 + n
    PROVE  /\ \A x \in Sender : mailed'[x] <= 1 + n
           /\ \A x \in Sender \ {s} : mailed'[x] = mailed[x]
  <1>1. mailed' \in [Sender -> Nat] /\ \A x \in Sender \ {s} : mailed'[x] = mailed[x]
    BY MailsType DEF Mails, TypeOK
  <1>2. mailed'[s] <= mailed[s] + 1
    BY DEF Mails, TypeOK
  <1> QED
    BY <1>1, <1>2 DEF TypeOK

\* Steps behind fresh ones are fresh.
LEMMA FreshFurther ==
    ASSUME TypeOK, NEW k \in Nat, NEW l \in Nat, NEW n \in Nat, l >= k, Fresh(k, n),
           UNCHANGED <<prog, mailed>>
    PROVE  Fresh(l, n) /\ Fresh(l, n)'
  <1>1. \A j \in DOMAIN prog : j \in Nat
    BY FlowsAssumption DEF TypeOK
  <1> QED
    BY <1>1 DEF Fresh

LEMMA FrugalSend ==
    ASSUME IInv, GotosLeadForward, OneIdEach, NEW n \in Nat, Frugal(n), Send
    PROVE  Frugal(n)'
  <1> USE DEF IInv, TypeOK
  <1>1. /\ i \in DOMAIN prog /\ i \in Nat /\ prog \in Flows /\ Fresh(i, n) /\ at = "send"
        /\ prog[i].id \in Sender
    BY StepOfFlow DEF Send, InFlow, Frugal
  <1>2. Mails(prog[i].id) /\ prog' = prog
    BY DEF Send
  <1>3. mailed[prog[i].id] <= n
    BY <1>1 DEF Fresh
  <1>4. /\ \A x \in Sender : mailed'[x] <= 1 + n
        /\ \A x \in Sender \ {prog[i].id} : mailed'[x] = mailed[x]
    <2>1. PICK s \in Sender : s = prog[i].id
      BY <1>1
    <2> QED
      BY <1>2, <1>3, <2>1, MailsOnce DEF Frugal
  <1>5. ASSUME NEW k \in Nat, k > i PROVE Fresh(k, n)'
    <2>1. "accept_message" \in Sender \ {prog[i].id}
      BY <1>1 DEF OneIdEach, Sender
    <2>2. ASSUME NEW j \in DOMAIN prog, j >= k
          PROVE  mailed'[prog[j].id] <= n
      <3>1. j \in Nat /\ j > i /\ prog[j].id \in Sender
        BY <1>1, <1>5, <2>2, StepOfFlow
      <3>2. prog[j].id # prog[i].id
        BY <1>1, <3>1 DEF OneIdEach
      <3> QED
        BY <1>1, <1>4, <3>1, <3>2 DEF Fresh
    <2> QED
      BY <1>1, <1>2, <1>4, <2>1, <2>2 DEF Fresh
  <1>6. \/ at' = "walk" /\ i' \in Nat
           /\ (i' > i \/ (i' \in DOMAIN prog' /\ EndsHere(prog'[i'])))
        \/ at' = "finish" /\ (outcome' = "wait" => i' = i)
    <2>1. CASE prog[i].type = "message" /\ prog[i].branches = <<>>
      <3>1. PICK g \in Gotos(prog[i]) : Follow(g)
        BY <2>1 DEF Send, Gotos
      <3> QED
        BY <1>1, <1>2, <3>1, FollowForward
    <2>2. CASE ~(prog[i].type = "message" /\ prog[i].branches = <<>>)
      BY <1>1, <2>2 DEF Send, Finishing, GoTo
    <2> QED
      BY <2>1, <2>2
  <1>7. CASE at' = "walk"
    <2>1. i' > i => Fresh(i, n)'
      <3>1. PICK k : k = i'
        OBVIOUS
      <3> QED
        BY <1>5, <1>6, <1>7, <3>1 DEF Fresh
    <2> QED
      BY <1>4, <1>6, <1>7, <2>1 DEF Frugal
  <1>8. CASE at' = "finish"
    <2>1. outcome' = "wait" => Fresh(i + 1, n)'
      <3>1. PICK k \in Nat : k = i + 1
        BY <1>1
      <3>2. Fresh(k, n)'
        BY <1>1, <1>5, <3>1
      <3> QED
        BY <1>1, <1>6, <1>8, <3>1, <3>2 DEF Fresh
    <2> QED
      BY <1>4, <1>6, <1>8, <2>1 DEF Frugal
  <1> QED
    BY <1>6, <1>7, <1>8

\* A run begins at the waiting step, or behind it when there is no such step.
LEMMA FrugalBegin ==
    ASSUME IInv, NEW n \in Nat, Frugal(n), prog = steps, Begin
    PROVE  Frugal(n)'
  <1> USE DEF IInv, TypeOK
  <1>1. /\ prog' = prog /\ i' = flowStep /\ mailed' = mailed
        /\ Fresh(IF awaiting = flowStep THEN flowStep + 1 ELSE flowStep, n)
        /\ \A j \in DOMAIN prog : j \in Nat /\ j <= Len(prog)
    BY FlowsAssumption DEF Begin, Frugal, Actionable, Frozen
  <1>2. CASE body = "keyword"
    BY <1>1, <1>2 DEF Begin, Finishing, Frugal
  <1>3. CASE body # "keyword" /\ awaiting = flowStep /\ flowStep <= Len(steps)
    BY <1>1, <1>3 DEF Begin, Frugal, Fresh
  <1>4. CASE body # "keyword" /\ awaiting = flowStep /\ flowStep > Len(steps)
    BY <1>1, <1>4 DEF Begin, Frugal, Fresh
  <1>5. CASE body # "keyword" /\ awaiting # flowStep
    BY <1>1, <1>5 DEF Begin, Frugal, Fresh
  <1> QED
    BY <1>2, <1>3, <1>4, <1>5

\* One e-mail of each sender more is accounted for: wherever ticket and run stand.
LEMMA FrugalAnew ==
    ASSUME TypeOK', NEW n \in Nat, \A s \in Sender : mailed[s] <= 1 + n, mailed' = mailed
    PROVE  Frugal(n + 1)'
  <1>1. PICK m \in Nat : m = n + 1
    OBVIOUS
  <1>2. \A s \in Sender : mailed'[s] \in Nat /\ mailed'[s] <= m
    BY <1>1 DEF TypeOK
  <1>3. \A j \in DOMAIN prog' : prog'[j].id \in Sender
    BY StepOfFlow DEF TypeOK
  <1>4. \A k : Fresh(k, m)'
    BY <1>2, <1>3 DEF Fresh, Sender
  <1>5. Frugal(m)'
    BY <1>2, <1>4 DEF Frugal, Sender
  <1> QED
    BY <1>1, <1>5

\* All other steps keep the count.
LEMMA FrugalStep ==
    ASSUME GotosLeadForward, OneIdEach, IInv, NEW n \in Nat, Frugal(n), [Next]_vars,
           ~Begin, ~Abort
    PROVE  Frugal(n)'
  <1> USE DEF IInv, TypeOK
  <1>1. ASSUME NEW b \in Body, Reply(b) PROVE Frugal(n)'
    BY <1>1 DEF Reply, runVars, Frugal, Fresh, Frozen
  <1>2. ASSUME NEW f \in Flows, UpdateFlow(f) PROVE Frugal(n)'
    BY <1>2 DEF UpdateFlow, ticketVars, runVars, Frugal, Fresh, Frozen
  <1>3. \A j \in DOMAIN prog : j \in Nat /\ j <= Len(prog) /\ prog[j].id \in Sender
    BY StepOfFlow, FlowsAssumption
  <1>4. ASSUME UNCHANGED <<prog, mailed>>,
               \/ at' = "finish" /\ outcome' \in {"resolve", "escalate"}
               \/ at' = "walk" /\ (Fresh(i, n)' \/ (i' \in DOMAIN prog' /\ EndsHere(prog'[i'])))
        PROVE  Frugal(n)'
    BY <1>4 DEF Frugal
  <1>5. ASSUME Resume PROVE Frugal(n)'
    <2>1. Fresh(i + 1, n) /\ i \in DOMAIN prog /\ i \in Nat /\ UNCHANGED <<prog, mailed>>
      BY <1>5 DEF Resume, ticketVars, Frugal, InFlow
    <2>2. ASSUME i' \in Nat, i' > i PROVE Fresh(i, n)'
      BY <1>3, <2>1, <2>2 DEF Fresh
    <2>3. CASE prog[i].type = "message" /\ prog[i].branches # <<>>
      <3>1. PICK g \in Gotos(prog[i]) : Follow(g)
        BY <1>5, <2>3 DEF Resume, Gotos
      <3> QED
        BY <1>4, <2>1, <2>2, <3>1, FollowForward
    <2>4. CASE ~(prog[i].type = "message" /\ prog[i].branches # <<>>) /\ at' = "accept"
      BY <2>1, <2>4 DEF Frugal, Fresh
    <2>5. CASE ~(prog[i].type = "message" /\ prog[i].branches # <<>>) /\ at' # "accept"
      <3>1. at' = "walk" /\ i' = i + 1
        BY <1>5, <2>5 DEF Resume, GoTo
      <3> QED
        BY <1>4, <2>1, <2>2, <3>1
    <2> QED
      BY <2>3, <2>4, <2>5
  <1>6. ASSUME SendAcceptance PROVE Frugal(n)'
    <2>1. "accept_message" \in Sender /\ mailed["accept_message"] <= n
      BY <1>6 DEF SendAcceptance, Frugal, Sender
    <2>2. \A x \in Sender : mailed'[x] <= 1 + n
      BY <1>6, <2>1, MailsOnce DEF SendAcceptance, Frugal
    <2> QED
      BY <1>6, <2>2 DEF SendAcceptance, Finishing, Frugal
  <1>7. ASSUME Walk PROVE Frugal(n)'
    <2>1. /\ i \in DOMAIN prog /\ i \in Nat
          /\ Fresh(i, n) \/ EndsHere(prog[i])
          /\ UNCHANGED <<prog, mailed>>
      BY <1>7 DEF Walk, Frugal
    <2>2. CASE at' = "send"
      <3>1. i' = i /\ ~EndsHere(prog[i])
        BY <1>7, <2>2 DEF Walk, Finishing, GoTo, EndsHere
      <3>2. Fresh(i, n)'
        BY <2>1, <3>1 DEF Fresh
      <3> QED
        BY <2>1, <2>2, <3>1, <3>2 DEF Frugal
    <2>3. CASE at' = "walk"
      <3>1. i' = i + 1 /\ ~EndsHere(prog[i])
        BY <1>7, <2>3 DEF Walk, Finishing, GoTo, EndsHere
      <3>2. Fresh(i, n)'
        BY <1>3, <2>1, <3>1 DEF Fresh
      <3> QED
        BY <1>4, <2>1, <2>3, <3>2
    <2>4. CASE at' = "finish"
      <3>1. outcome' \in {"resolve", "escalate"}
        BY <1>7, <2>4 DEF Walk, Finishing, GoTo
      <3> QED
        BY <1>4, <2>1, <2>4, <3>1
    <2> QED
      BY <1>7, <2>2, <2>3, <2>4 DEF Walk, Finishing, GoTo
  <1>8. ASSUME Complete PROVE Frugal(n)'
    BY <1>4, <1>8 DEF Complete, Finishing, ticketVars
  <1>9. ASSUME Send PROVE Frugal(n)'
    BY <1>9, FrugalSend DEF Send
  <1>10. ASSUME Finish PROVE Frugal(n)'
    <2>1. (outcome = "wait" /\ awaiting' = flowStep' /\ flowStep' = i) \/ status' \in Frozen
      BY <1>10 DEF Finish, StatusAfter, InFlow, Frozen
    <2>2. outcome = "wait" => Fresh(i + 1, n)
      BY <1>10 DEF Finish, Frugal
    <2> QED
      BY <1>10, <2>1, <2>2 DEF Finish, Frugal, Fresh
  <1>11. ASSUME UNCHANGED vars PROVE Frugal(n)'
    BY <1>11 DEF vars, Frugal, Fresh
  <1> QED
    BY <1>1, <1>2, <1>5, <1>6, <1>7, <1>8, <1>9, <1>10, <1>11 DEF Next, Run

\* Only a save or a cut counts, and a run takes its steps when it begins.
LEMMA StepCounts ==
    ASSUME [Next]_vars, ~Begin, ~Abort
    PROVE  \/ edits' = edits /\ aborts' = aborts /\ steps' = steps /\ prog' = prog
           \/ edits' = edits + 1 /\ aborts' = aborts
  <1>1. CASE \E b \in Body : Reply(b)
    BY <1>1 DEF Reply, runVars
  <1>2. CASE \E f \in Flows : UpdateFlow(f)
    BY <1>2 DEF UpdateFlow
  <1>3. CASE Resume \/ SendAcceptance \/ Complete
    BY <1>3 DEF Resume, SendAcceptance, Complete
  <1>4. CASE Walk \/ Send \/ Finish
    BY <1>4 DEF Walk, Send, Finish
  <1>5. CASE UNCHANGED vars
    BY <1>5 DEF vars
  <1> QED
    BY <1>1, <1>2, <1>3, <1>4, <1>5 DEF Next, Run

\* A cut, or a run under steps that were saved, uses one up that is accounted for.
LEMMA FrugalNext ==
    ASSUME GotosLeadForward, OneIdEach, IInv, IInv', FrugalInv, [Next]_vars
    PROVE  FrugalInv'
  <1> USE DEF IInv, TypeOK
  <1>1. PICK n \in Nat : Frugal(n) /\ Accounted(n)
    BY DEF FrugalInv
  <1>2. \A s \in Sender : mailed[s] <= 1 + n
    BY <1>1 DEF Frugal
  <1>3. CASE Abort
    <2>1. mailed' = mailed /\ aborts' = aborts + 1 /\ UNCHANGED <<edits, prog, steps>>
      BY <1>3 DEF Abort
    <2>2. Frugal(n + 1)'
      BY <1>2, <2>1, FrugalAnew
    <2>3. Accounted(n + 1)'
      BY <1>1, <2>1 DEF Accounted
    <2> QED
      BY <2>2, <2>3 DEF FrugalInv
  <1>4. CASE Begin
    <2>1. mailed' = mailed /\ prog' = steps' /\ UNCHANGED <<edits, aborts, steps>>
      BY <1>4 DEF Begin
    <2>2. CASE n < aborts + edits
      <3>1. Frugal(n + 1)'
        BY <1>2, <2>1, FrugalAnew
      <3>2. Accounted(n + 1)'
        BY <2>1, <2>2 DEF Accounted
      <3> QED
        BY <3>1, <3>2 DEF FrugalInv
    <2>3. CASE n = aborts + edits /\ prog = steps
      <3>1. Frugal(n)'
        BY <1>1, <1>4, <2>3, FrugalBegin
      <3>2. Accounted(n)'
        BY <2>1, <2>3 DEF Accounted
      <3> QED
        BY <3>1, <3>2 DEF FrugalInv
    <2> QED
      BY <1>1, <2>2, <2>3 DEF Accounted
  <1>5. CASE ~Abort /\ ~Begin
    <2>1. Frugal(n)'
      BY <1>1, <1>5, FrugalStep
    <2>2. \/ edits' = edits /\ aborts' = aborts /\ steps' = steps /\ prog' = prog
          \/ edits' = edits + 1 /\ aborts' = aborts
      BY <1>5, StepCounts
    <2>3. n < aborts + edits \/ (n = aborts + edits /\ prog = steps)
      BY <1>1 DEF Accounted
    <2>4. Accounted(n)'
      <3>1. edits \in Nat /\ aborts \in Nat
        OBVIOUS
      <3> HIDE DEF TypeOK, IInv
      <3> QED
        BY <2>2, <2>3, <3>1 DEF Accounted
    <2> QED
      BY <2>1, <2>4 DEF FrugalInv
  <1> QED
    BY <1>3, <1>4, <1>5

\* In flows whose gotos lead forward: run starts at the waiting step and does not
\* repeat it, so that a step e-mails the customer once, and once more at most for
\* each run that was cut off between the e-mail and its commit and for each time
\* the merchant saved other steps under the ticket.
THEOREM EmailsBounded ==
    ASSUME GotosLeadForward, OneIdEach
    PROVE  Spec => []EmailsWithinAborts
  <1>1. Init => FrugalInv
    <2> SUFFICES ASSUME Init PROVE FrugalInv
      OBVIOUS
    <2>1. aborts = 0 /\ edits = 0 /\ prog = steps /\ \A s \in Sender : mailed[s] = 0
      BY DEF Init
    <2>2. "accept_message" \in Sender /\ \A j \in DOMAIN prog : prog[j].id \in Sender
      BY StepOfFlow DEF Init, Sender
    <2>3. \A k : Fresh(k, 0)
      BY <2>1, <2>2 DEF Fresh
    <2>4. Frugal(0) /\ Accounted(0)
      BY <2>1, <2>3 DEF Init, Frugal, Accounted
    <2> QED
      BY <2>4 DEF FrugalInv
  <1>2. IInv /\ IInv' /\ FrugalInv /\ [Next]_vars => FrugalInv'
    BY FrugalNext
  <1>3. IInv /\ FrugalInv => EmailsWithinAborts
    <2> SUFFICES ASSUME IInv, FrugalInv PROVE EmailsWithinAborts
      OBVIOUS
    <2>1. PICK n \in Nat : (\A s \in Sender : mailed[s] <= 1 + n) /\ n <= aborts + edits
      BY DEF FrugalInv, Frugal, Accounted, IInv, TypeOK
    <2> QED
      BY <2>1 DEF EmailsWithinAborts, IInv, TypeOK
  <1> QED
    BY <1>1, <1>2, <1>3, Invariance, PTL DEF Spec

-----------------------------------------------------------------------------
(* The seeded refund flow.                                                  *)

\* The offers up to the k-th were sent.
Offered(k) ==
    /\ k >= 1 => mailed["offer_50"] > 0
    /\ k >= 2 => mailed["offer_80"] > 0

\* Wherever ticket and run stand, the offers before it were sent and answered.
InOrder ==
    /\ at # "accept"
    /\ status \notin Frozen =>
          \/ awaiting = NotWaiting /\ flowStep = 1
          \/ /\ awaiting = flowStep /\ flowStep \in {1, 2} /\ Offered(flowStep)
             /\ replies >= IF status = "awaiting_customer" THEN flowStep - 1 ELSE flowStep
    /\ at = "resume" => i \in {1, 2} /\ Offered(i) /\ replies >= i
    /\ at \in {"walk", "send"} => i \in {1, 2, 3} /\ Offered(i - 1) /\ replies >= i - 1
    /\ at = "finish" /\ outcome = "wait" => i \in {1, 2} /\ Offered(i) /\ replies >= i - 1
    /\ refunds > 0 => Offered(2) /\ replies >= 2

OrderInv == edits = 0 /\ steps = REFUND_FLOW => prog = steps /\ InOrder

\* What the seed says, one step at a time.
LEMMA RefundFlowSteps ==
    /\ DOMAIN REFUND_FLOW = {1, 2, 3} /\ Len(REFUND_FLOW) = 3 /\ REFUND_FLOW # <<>>
    /\ REFUND_FLOW[1].id = "offer_50" /\ REFUND_FLOW[2].id = "offer_80"
    /\ REFUND_FLOW[3].id = "file_refund"
    /\ \A k \in {1, 2} : REFUND_FLOW[k].type = "message" /\ REFUND_FLOW[k].branches # <<>>
    /\ REFUND_FLOW[3].type = "request_refund_approval"
    /\ REFUND_FLOW[1].branches = <<"resolve", "offer_80">>
    /\ REFUND_FLOW[2].branches = <<"resolve", "file_refund">>
  BY DEF REFUND_FLOW, Ask, Plain

\* E-mails are only ever added.
LEMMA MailsAdds ==
    ASSUME TypeOK, NEW s \in Sender, Mails(s)
    PROVE  /\ \A x \in Sender : mailed[x] > 0 => mailed'[x] > 0
           /\ MaxMailed # 0 => mailed'[s] > 0
  <1>1. ASSUME NEW x \in Sender, x # s PROVE mailed'[x] = mailed[x]
    BY <1>1 DEF TypeOK, Mails
  <1>2. mailed'[s] = IF mailed[s] < MaxMailed THEN mailed[s] + 1 ELSE mailed[s]
    BY DEF TypeOK, Mails
  <1>3. mailed[s] \in Nat
    BY DEF TypeOK
  <1> QED
    BY <1>1, <1>2, <1>3, BoundsAssumption

\* A goto of the flow: to the end, or to the next step.
LEMMA RefundFlowFollow ==
    ASSUME prog = REFUND_FLOW, prog' = prog, i \in {1, 2},
           NEW b \in DOMAIN prog[i].branches, Follow(prog[i].branches[b])
    PROVE  \/ at' = "finish" /\ outcome' = "resolve"
           \/ at' = "walk" /\ i' = i + 1
  <1>1. IndexOf("offer_80") = {2} /\ IndexOf("file_refund") = {3}
    BY RefundFlowSteps DEF IndexOf
  <1>2. CASE i = 1
    <2>1. prog[i].branches[b] \in {"resolve", "offer_80"}
      BY <1>2, RefundFlowSteps
    <2>2. CASE prog[i].branches[b] = "resolve"
      BY <2>2 DEF Follow, Finishing
    <2>3. CASE prog[i].branches[b] = "offer_80"
      BY <1>1, <1>2, <2>3 DEF Follow, GoTo
    <2> QED
      BY <2>1, <2>2, <2>3
  <1>3. CASE i = 2
    <2>1. prog[i].branches[b] \in {"resolve", "file_refund"}
      BY <1>3, RefundFlowSteps
    <2>2. CASE prog[i].branches[b] = "resolve"
      BY <2>2 DEF Follow, Finishing
    <2>3. CASE prog[i].branches[b] = "file_refund"
      BY <1>1, <1>3, <2>3 DEF Follow, GoTo
    <2> QED
      BY <2>1, <2>2, <2>3
  <1> QED
    BY <1>2, <1>3

LEMMA OrderStep ==
    ASSUME MaxMailed # 0, IInv, OrderInv, [Next]_vars
    PROVE  OrderInv'
  <1> SUFFICES ASSUME edits' = 0, steps' = REFUND_FLOW PROVE prog' = steps' /\ InOrder'
    BY DEF OrderInv
  <1> USE DEF IInv, TypeOK
  <1>1. ASSUME NEW f \in Flows, UpdateFlow(f) PROVE FALSE
    BY <1>1 DEF UpdateFlow
  <1>2. prog = REFUND_FLOW /\ steps = REFUND_FLOW /\ InOrder
    <2>1. (edits = 0 /\ steps' = steps) \/ \E f \in Flows : UpdateFlow(f)
      BY DEF Next, Run, Reply, Begin, Resume, SendAcceptance, Walk, Complete, Send, Finish, Abort, vars
    <2> QED
      BY <1>1, <2>1 DEF OrderInv
  <1>3. {"offer_50", "offer_80", "file_refund"} \subseteq Sender
    <2>1. \A k \in {1, 2, 3} : REFUND_FLOW[k].id \in Sender
      BY <1>2, StepOfFlow, RefundFlowSteps
    <2> QED
      BY <2>1, RefundFlowSteps
  <1>4. ASSUME NEW b \in Body, Reply(b) PROVE prog' = steps' /\ InOrder'
    BY <1>2, <1>4 DEF Reply, runVars, InOrder, Offered, Frozen
  <1>5. ASSUME Begin PROVE prog' = steps' /\ InOrder'
    <2>1. prog' = steps /\ i' = flowStep /\ UNCHANGED <<steps, mailed, replies, awaiting, flowStep, status, refunds>>
      BY <1>5 DEF Begin, ticketVars
    <2>2. \/ at' = "finish" /\ outcome' = "escalate"
          \/ at' = "resume" /\ awaiting = flowStep
          \/ at' = "walk" /\ ~(awaiting = flowStep /\ flowStep <= 3)
      BY <1>2, <1>5, RefundFlowSteps DEF Begin, Finishing
    <2>3. \/ awaiting = NotWaiting /\ flowStep = 1
          \/ /\ awaiting = flowStep /\ flowStep \in {1, 2} /\ Offered(flowStep)
             /\ replies >= flowStep
      BY <1>2, <1>5 DEF Begin, InOrder, Actionable, Frozen
    <2> QED
      BY <1>2, <2>1, <2>2, <2>3 DEF InOrder, Offered, NotWaiting
  <1>6. ASSUME Resume PROVE prog' = steps' /\ InOrder'
    <2>1. i \in {1, 2} /\ Offered(i) /\ replies >= i /\ at = "resume"
      BY <1>2, <1>6 DEF Resume, InOrder
    <2>2. PICK b \in DOMAIN prog[i].branches : Follow(prog[i].branches[b])
      BY <1>2, <1>6, <2>1, RefundFlowSteps DEF Resume
    <2>3. UNCHANGED <<prog, steps, mailed, replies, awaiting, flowStep, status, refunds>>
      BY <1>6 DEF Resume, ticketVars
    <2>4. \/ at' = "finish" /\ outcome' = "resolve"
          \/ at' = "walk" /\ i' = i + 1
      BY <1>2, <2>1, <2>2, <2>3, RefundFlowFollow
    <2> QED
      BY <1>2, <2>1, <2>3, <2>4 DEF InOrder, Offered
  <1>7. ASSUME SendAcceptance PROVE FALSE
    BY <1>2, <1>7 DEF SendAcceptance, InOrder
  <1>8. ASSUME Walk PROVE prog' = steps' /\ InOrder'
    <2>1. i \in {1, 2, 3} /\ Offered(i - 1) /\ replies >= i - 1
      BY <1>2, <1>8 DEF Walk, InOrder
    <2>2. at' = "send" /\ i' = i /\ (refunds' = refunds \/ i = 3)
      BY <1>2, <1>8, <2>1, RefundFlowSteps DEF Walk
    <2>3. UNCHANGED <<prog, steps, mailed, replies, awaiting, flowStep, status>>
      BY <1>8 DEF Walk
    <2> QED
      BY <1>2, <2>1, <2>2, <2>3 DEF InOrder, Offered
  <1>9. ASSUME Complete PROVE FALSE
    BY <1>2, <1>9, RefundFlowSteps DEF Complete, InOrder
  <1>10. ASSUME Send PROVE prog' = steps' /\ InOrder'
    <2>1. i \in {1, 2, 3} /\ Offered(i - 1) /\ replies >= i - 1
      BY <1>2, <1>10 DEF Send, InOrder
    <2>2. PICK s \in Sender : s = prog[i].id /\ Mails(s)
      BY <1>2, <1>3, <1>10, <2>1, RefundFlowSteps DEF Send
    <2>3. /\ \A x \in Sender : mailed[x] > 0 => mailed'[x] > 0
          /\ mailed'[s] > 0
      BY <2>2, MailsAdds
    <2>4. at' = "finish" /\ i' = i /\ (outcome' = "escalate" \/ (outcome' = "wait" /\ i \in {1, 2}))
      BY <1>2, <1>10, <2>1, RefundFlowSteps DEF Send, Finishing
    <2>5. UNCHANGED <<prog, steps, replies, awaiting, flowStep, status, refunds>>
      BY <1>10 DEF Send, ticketVars
    <2>6. \A k : Offered(k) => Offered(k)'
      BY <1>3, <2>3 DEF Offered
    <2>7. i \in {1, 2} => Offered(i)'
      <3>1. (i = 1 => s = "offer_50") /\ (i = 2 => s = "offer_80")
        BY <1>2, <2>2, RefundFlowSteps
      <3> QED
        BY <1>3, <2>1, <2>3, <2>4, <3>1 DEF Offered
    <2> QED
      BY <1>2, <2>1, <2>4, <2>5, <2>6, <2>7 DEF InOrder
  <1>11. ASSUME Finish PROVE prog' = steps' /\ InOrder'
    <2>1. (outcome = "wait" /\ awaiting' = i /\ status' = "awaiting_customer") \/ status' \in Frozen
      BY <1>11 DEF Finish, StatusAfter, InFlow, Frozen
    <2> QED
      BY <1>2, <1>11, <2>1 DEF Finish, InOrder, Offered
  <1>12. ASSUME Abort \/ UNCHANGED vars PROVE prog' = steps' /\ InOrder'
    BY <1>2, <1>12 DEF Abort, ticketVars, vars, InOrder, Offered
  <1> QED
    BY <1>1, <1>4, <1>5, <1>6, <1>7, <1>8, <1>9, <1>10, <1>11, <1>12 DEF Next, Run

\* services/flow_seeds.py: whatever the customer answers and wherever runs are
\* cut off, the seeded flow asks for a refund only behind both of its offers.
THEOREM RefundIsLastResort ==
    ASSUME MaxMailed # 0
    PROVE  Spec => []RefundOnlyAfterBothOffers
  <1>1. Init => OrderInv
    BY DEF Init, OrderInv, InOrder
  <1>2. IInv /\ OrderInv /\ [Next]_vars => OrderInv'
    BY OrderStep
  <1>3. OrderInv => RefundOnlyAfterBothOffers
    BY DEF OrderInv, InOrder, Offered, RefundOnlyAfterBothOffers
  <1> QED
    BY <1>1, <1>2, <1>3, Invariance, PTL DEF Spec
=============================================================================
