---------------------------- MODULE TicketLanes -----------------------------
(***************************************************************************)
(* What the desk promises of a ticket, without runs, sessions or mailboxes *)
(* (README.md "Security invariants" 3; models/tickets.py; the docstrings   *)
(* of services/tickets.py and services/flow_engine.py): the lanes a ticket *)
(* moves through and where each message ends up.                           *)
(*                                                                         *)
(* CSDesk implements this as long as its runs do not overlap.              *)
(***************************************************************************)
CONSTANTS Mail, Ticket, NoTicket    \* NoTicket is no element of Ticket

VARIABLES
    lane,   \* "none", "open" (the desk may act), "waiting" (for the customer), "rep" or "closed"
    filed   \* the ticket a message was filed into

lanes == <<lane, filed>>

Init ==
    /\ lane = [t \in Ticket |-> "none"]
    /\ filed = [m \in Mail |-> NoTicket]

\* A message opens a ticket, or joins one that is not closed; it ends the wait
\* for the customer and leaves a rep's ticket with the rep.
File(m, t) ==
    /\ filed[m] = NoTicket
    /\ lane[t] # "closed"
    /\ filed' = [filed EXCEPT ![m] = t]
    /\ lane' = [lane EXCEPT ![t] = IF @ = "rep" THEN "rep" ELSE "open"]

\* The desk is done with an open ticket for now, or for good.
Settle(t) ==
    /\ lane[t] = "open"
    /\ \E l \in {"waiting", "rep", "closed"} : lane' = [lane EXCEPT ![t] = l]
    /\ UNCHANGED filed

Next == \E t \in Ticket : Settle(t) \/ \E m \in Mail : File(m, t)

Spec == Init /\ [][Next]_lanes
=============================================================================
