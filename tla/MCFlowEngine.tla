--------------------------- MODULE MCFlowEngine ---------------------------
(* Flows for the runs of FlowEngine: the two seeded ones (services/flow_seeds.py)
   and others the dashboard lets a merchant save. *)
EXTENDS FlowEngine

Plain(id, type) == [id |-> id, type |-> type, branches |-> <<>>, goto |-> "next"]
Tell(id, goto) == [id |-> id, type |-> "message", branches |-> <<>>, goto |-> goto]
Ask(id, gotos) == [id |-> id, type |-> "message", branches |-> gotos, goto |-> "next"]

WISMO_FLOW == << Ask("answer_wismo", <<"resolve", "escalate_wismo">>),
                 Tell("escalate_wismo", "escalate") >>

REFUND_FLOW == << Ask("offer_50", <<"resolve", "offer_80">>),
                  Ask("offer_80", <<"resolve", "file_refund">>),
                  Plain("file_refund", "request_refund_approval") >>

\* The merchant puts a greeting before the offers, also while a ticket waits there.
Greeted == << Plain("greeting", "send_reply") >> \o REFUND_FLOW

\* The step types the seeds do not use.
Legacy == << Plain("look", "lookup_order"), Plain("cite", "cite_policy"),
             Plain("hello", "send_reply"), Plain("ten", "offer_discount"),
             Tell("bye", "next"), Plain("twenty", "offer_discount"), Plain("done", "resolve") >>

\* A misspelt goto, a step of a later release, a refund that is not last.
Misspelt == << Ask("a", <<"b", "nowhere">>), Plain("b", "request_refund_approval"),
               Plain("c", "unknown") >>
Stops == << Tell("a", "c"), Plain("b", "unknown"), Ask("c", <<"next", "e", "b">>),
            Plain("d", "escalate"), Tell("e", "next") >>

Forward == {WISMO_FLOW, REFUND_FLOW, Greeted, Legacy, Misspelt, Stops, <<>>}

\* The seeded refund flow requests a refund only after it has sent both offers
\* and the customer has answered each, also when runs are cut off and repeated.
RefundOnlyAfterBothOffers ==
    refunds > 0 /\ edits = 0 /\ steps = REFUND_FLOW =>
        mailed["offer_50"] > 0 /\ mailed["offer_80"] > 0 /\ replies >= 2
=============================================================================
