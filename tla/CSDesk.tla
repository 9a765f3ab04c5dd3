------------------------------- MODULE CSDesk -------------------------------
(***************************************************************************)
(* The customer-service desk: mail is ingested into tickets and a runtime  *)
(* answers the actionable ones or hands them to a human rep.               *)
(*                                                                         *)
(* Source: services/tickets.py, services/cs_loop.py, the runtimes in       *)
(* services/agent_runtime (in_app, llm, flow), api/ecom.py and             *)
(* api/ecom_webhooks.py.                                                   *)
(*                                                                         *)
(* run_cs_loop is triggered by a cron job, by the realtime webhook and     *)
(* from the console; nothing stops two runs from overlapping.  A run owns  *)
(* one session: it lists the mail, looks each message up and files it,     *)
(* then selects the actionable tickets and handles them one after the      *)
(* other, working on the copies it loaded (OrmRow).  POST /tickets/ingest  *)
(* does the first half only.                                               *)
(***************************************************************************)
EXTENDS Naturals, Sequences, FiniteSets, OrmRow

CONSTANTS
    Loop,       \* concurrent callers of run_cs_loop
    Sweep,      \* concurrent callers of POST /tickets/ingest; one in both sets calls either
    Customer,
    Runtime,    \* CS_RUNTIME: "in_app", "llm" (and "hermes", its subclass) or "flow"
    Kind,       \* the kinds of messages customers write, see below
    ListLimit,  \* messages one listing of the inbox returns: 25
    MaxMail,    \* bound: messages customers write
    MaxTicket,  \* bound: ticket rows
    MaxSent,    \* bound: e-mails counted for one ticket
    MaxAborts   \* bound: runs that die on an exception or with the process

Worker == Loop \cup Sweep
Ticket == 1 .. MaxTicket
NoTicket == 0
NoMail == 0

ASSUME RuntimeAssumption == Runtime \in {"in_app", "llm", "flow"}
ASSUME ListLimitAssumption == ListLimit \in Nat \ {0}
ASSUME BoundsAssumption == MaxMail \in Nat /\ MaxTicket \in Nat /\ MaxSent \in Nat /\ MaxAborts \in Nat

TICKET_STATUSES == {"new", "auto_handling", "awaiting_customer", "needs_rep", "resolved"}
Actionable == {"new", "auto_handling"}    \* cs_loop._ACTIONABLE
\* Variant: the lane the loop itself sets counts as frozen.
FrozenWhenClaimed == {"needs_rep", "resolved", "auto_handling"}

Frozen == {"needs_rep", "resolved"}       \* _FROZEN of every runtime

\* What a message is, as far as the code tells apart: one that is_wismo or the
\* triggers of a flow match, any other, or mail of an automated sender.
ASSUME KindAssumption == Kind \subseteq {"known", "other", "automated"}

VARIABLES
    mail,       \* the unread messages of the inbox, in order of arrival
    status,     \* tickets.status, "absent" before the row exists
    inbound,    \* the inbound ticket_messages of a ticket, as indices of mail
    age,        \* how many tickets have a later updated_at than this one
    sent,       \* e-mails the runtime sent to the customer of a ticket
    looked,     \* history: inbound messages of a ticket when a run last read them
    at,         \* what a worker stands before: a lookup, a filing commit, ...
    left,       \* messages of its listing a worker has still to look up
    cur,        \* the message a worker is filing
    tk,         \* the ticket a worker is filing into, or handling
    todo,       \* selected tickets a worker has still to handle
    made,       \* tickets a worker created in this run, kept in a Python list
    held,       \* a worker's copy of tickets.status, "none" where it has none
    aborts

deskVars == <<mail, status, inbound, age, sent, looked>>
workerVars == <<at, left, cur, tk, todo, made, held>>
vars == <<mail, status, inbound, age, sent, looked, at, left, cur, tk, todo, made, held, aborts>>

Exists(t) == status[t] # "absent"
Existing == {t \in Ticket : Exists(t)}
From(t) == mail[inbound[t][1]].from              \* tickets.customer_email
Conversation(t) == mail[inbound[t][1]].conv      \* tickets.external_ref
Touched(t) == [u \in Ticket |-> IF u = t THEN 0 ELSE IF age[u] < age[t] THEN age[u] + 1 ELSE age[u]]
NothingHeld == [t \in Ticket |-> "none"]

Init ==
    /\ mail = <<>>
    /\ status = [t \in Ticket |-> "absent"]
    /\ inbound = [t \in Ticket |-> <<>>]
    /\ age = [t \in Ticket |-> MaxTicket]
    /\ sent = [t \in Ticket |-> 0]
    /\ looked = [t \in Ticket |-> 0]
    /\ at = [w \in Worker |-> "idle"]
    /\ left = [w \in Worker |-> {}]
    /\ cur = [w \in Worker |-> NoMail]
    /\ tk = [w \in Worker |-> NoTicket]
    /\ todo = [w \in Worker |-> {}]
    /\ made = [w \in Worker |-> {}]
    /\ held = [w \in Worker |-> NothingHeld]
    /\ aborts = 0

-----------------------------------------------------------------------------
(* Customers.  A mail starts a conversation or continues one; an answer to *)
(* an e-mail of the runtime starts one too, because send_message sends a   *)
(* fresh "Re:" mail.                                                       *)

Arrives(m) ==
    /\ Len(mail) < MaxMail
    /\ mail' = Append(mail, m)
    /\ UNCHANGED <<status, inbound, age, sent, looked, workerVars, aborts>>

Write(c, k) == Arrives([from |-> c, conv |-> Len(mail) + 1, kind |-> k])

FollowUp(m, k) == Arrives([mail[m] EXCEPT !.kind = k])

-----------------------------------------------------------------------------
\* The worker's session is closed and what it knew is gone.
CloseSession(w) ==
    /\ at' = [at EXCEPT ![w] = "idle"]
    /\ left' = [left EXCEPT ![w] = {}]
    /\ cur' = [cur EXCEPT ![w] = NoMail]
    /\ tk' = [tk EXCEPT ![w] = NoTicket]
    /\ todo' = [todo EXCEPT ![w] = {}]
    /\ made' = [made EXCEPT ![w] = {}]
    /\ held' = [held EXCEPT ![w] = NothingHeld]

(* Ingestion: services/tickets.py ingest_inbox. *)

\* Variant: the oldest unread messages are listed.
StartOldest(w) ==
    /\ at[w] = "idle"
    /\ at' = [at EXCEPT ![w] = "lookup"]
    /\ left' = [left EXCEPT ![w] = {m \in 1 .. Len(mail) : m <= ListLimit}]
    /\ UNCHANGED <<deskVars, cur, tk, todo, made, held, aborts>>

\* inbox.list_messages: the newest of what is unread; the desk never marks
\* mail as read, so that older messages do not come up again.
Start(w) ==
    /\ at[w] = "idle"
    /\ at' = [at EXCEPT ![w] = "lookup"]
    /\ left' = [left EXCEPT ![w] = {m \in 1 .. Len(mail) : m + ListLimit > Len(mail)}]
    /\ UNCHANGED <<deskVars, cur, tk, todo, made, held, aborts>>

IsSupportCandidate(m) == mail[m].kind # "automated"

\* _seen, by the id the mail provider gives every message (one without would
\* never be seen).
Seen(m) == \E t \in Ticket : \E i \in DOMAIN inbound[t] : inbound[t][i] = m

\* _open_ticket_for_reply, as a set of one: the newest unresolved ticket of the conversation,
\* else the last updated one that awaits this customer.
OpenTicketForReply(m) ==
    LET sameThread == {t \in Existing : Conversation(t) = mail[m].conv /\ status[t] # "resolved"}
        awaiting   == {t \in Existing : From(t) = mail[m].from /\ status[t] = "awaiting_customer"}
    IN  IF sameThread # {} THEN {t \in sameThread : \A u \in sameThread : u <= t}
        ELSE IF awaiting # {} THEN {t \in awaiting : \A u \in awaiting : age[t] <= age[u]}
        ELSE {NoTicket}

\* The copy a session works on: the one it already has, else the row.
Loaded(w, t) == IF held[w][t] # "none" THEN held[w][t] ELSE status[t]

\* What the session keeps of the rows it loaded once it has looked t up: the
\* copy of t and of the tickets it created, which a Python list refers to.
HeldAfterLookUp(w, t) ==
    [u \in Ticket |-> IF u = t THEN Loaded(w, u)
                      ELSE IF u \in made[w] THEN held[w][u] ELSE "none"]

ToFile(w, m) ==
    \E t \in OpenTicketForReply(m) :
        /\ at' = [at EXCEPT ![w] = "file"]
        /\ cur' = [cur EXCEPT ![w] = m]
        /\ tk' = [tk EXCEPT ![w] = t]
        /\ held' = [held EXCEPT ![w] = HeldAfterLookUp(w, t)]

\* Variant: a message is looked up without the _seen test.
LookUpUnseen(w, m) ==
    /\ at[w] = "lookup" /\ m \in left[w]
    /\ left' = [left EXCEPT ![w] = @ \ {m}]
    /\ IF IsSupportCandidate(m) THEN ToFile(w, m) ELSE UNCHANGED <<at, cur, tk, held>>
    /\ UNCHANGED <<deskVars, todo, made, aborts>>

\* The reads of one round of the ingest loop.
LookUp(w, m) ==
    /\ at[w] = "lookup" /\ m \in left[w]
    /\ left' = [left EXCEPT ![w] = @ \ {m}]
    /\ IF IsSupportCandidate(m) /\ ~Seen(m) THEN ToFile(w, m) ELSE UNCHANGED <<at, cur, tk, held>>
    /\ UNCHANGED <<deskVars, todo, made, aborts>>

\* Variant: any reply re-activates its ticket.
ActivatedAlways(s) == "auto_handling"

\* Variant: no reply does.
ActivatedNever(s) == s

Activated(s) == IF s = "awaiting_customer" THEN "auto_handling" ELSE s

\* append_reply, one commit; the status it decides on is the loaded one.
AppendReply(w) ==
    LET t == tk[w]
        s == Activated(held[w][t])
    IN  /\ at[w] = "file" /\ t # NoTicket
        /\ inbound' = [inbound EXCEPT ![t] = Append(@, cur[w])]
        /\ status' = [status EXCEPT ![t] = Flushed(held[w][t], s, @)]
        /\ held' = [held EXCEPT ![w][t] = s]
        /\ age' = Touched(t)
        /\ at' = [at EXCEPT ![w] = "lookup"]
        /\ UNCHANGED <<mail, sent, looked, left, cur, tk, todo, made, aborts>>

\* create_ticket_from_message, one commit; t is the next row.
CreateTicket(w, t) ==
    /\ at[w] = "file" /\ tk[w] = NoTicket
    /\ ~Exists(t) /\ \A u \in Ticket : u < t => Exists(u)
    /\ status' = [status EXCEPT ![t] = "new"]
    /\ inbound' = [inbound EXCEPT ![t] = <<cur[w]>>]
    /\ age' = Touched(t)
    /\ made' = [made EXCEPT ![w] = @ \cup {t}]
    /\ held' = [held EXCEPT ![w][t] = "new"]
    /\ at' = [at EXCEPT ![w] = "lookup"]
    /\ UNCHANGED <<mail, sent, looked, left, cur, tk, todo, aborts>>

\* End of ingestion: the sweep answers its caller, the loop runs
\* SELECT ... WHERE status IN _ACTIONABLE.
FinishSweep(w) ==
    /\ w \in Sweep /\ at[w] = "lookup" /\ left[w] = {}
    /\ CloseSession(w)
    /\ UNCHANGED <<deskVars, aborts>>

SelectActionable(w) ==
    LET chosen == {t \in Ticket : status[t] \in Actionable} IN
    /\ w \in Loop /\ at[w] = "lookup" /\ left[w] = {}
    /\ at' = [at EXCEPT ![w] = "next"]
    /\ todo' = [todo EXCEPT ![w] = chosen]
    /\ held' = [held EXCEPT ![w] = [t \in Ticket |->
                   IF t \in made[w] THEN @[t] ELSE IF t \in chosen THEN status[t] ELSE "none"]]
    /\ UNCHANGED <<deskVars, left, cur, tk, made, aborts>>
-----------------------------------------------------------------------------
(* Handling: the loop of run_cs_loop and AgentRuntime.handle_ticket. *)

\* The next selected ticket; a frozen copy is skipped (sticky escalation).
Take(w, t) ==
    /\ at[w] = "next" /\ t \in todo[w]
    /\ todo' = [todo EXCEPT ![w] = @ \ {t}]
    /\ tk' = [tk EXCEPT ![w] = t]
    /\ at' = [at EXCEPT ![w] = IF held[w][t] \in Frozen THEN "next" ELSE "handle"]
    /\ UNCHANGED <<deskVars, left, cur, made, held, aborts>>

\* The first inbound message matches no flow, or is no WISMO question.
Matched(t) == Runtime = "llm" \/ mail[inbound[t][1]].kind = "known"

Commit(w, s) ==
    /\ status' = [status EXCEPT ![tk[w]] = Flushed(held[w][tk[w]], s, @)]
    /\ held' = [held EXCEPT ![w][tk[w]] = s]
    /\ age' = Touched(tk[w])

\* Variant: handle_ticket goes on after _escalate.
EscalateUnmatchedAndGoOn(w) ==
    /\ at[w] = "handle" /\ ~Matched(tk[w])
    /\ Commit(w, "needs_rep")
    /\ at' = [at EXCEPT ![w] = "work"]
    /\ UNCHANGED <<mail, inbound, sent, looked, left, cur, tk, todo, made, aborts>>

EscalateUnmatched(w) ==
    /\ at[w] = "handle" /\ ~Matched(tk[w])
    /\ Commit(w, "needs_rep")
    /\ at' = [at EXCEPT ![w] = "next"]
    /\ UNCHANGED <<mail, inbound, sent, looked, left, cur, tk, todo, made, aborts>>

\* in_app and llm commit auto_handling and read the messages; flow commits
\* the flow's id, leaves the status alone and reads the last message.
Claim(w) ==
    /\ at[w] = "handle" /\ Matched(tk[w])
    /\ IF Runtime = "flow" THEN UNCHANGED <<status, held, age>>
                           ELSE Commit(w, "auto_handling")
    /\ looked' = [looked EXCEPT ![tk[w]] = Len(inbound[tk[w]])]
    /\ at' = [at EXCEPT ![w] = "work"]
    /\ UNCHANGED <<mail, inbound, sent, left, cur, tk, todo, made, aborts>>

\* inbox.send_message goes out before anything about it is committed.  A flow
\* may send several e-mails in one run, the other runtimes one.
SendReply(w) ==
    /\ at[w] \in {"work", "sent"} /\ (at[w] = "sent" => Runtime = "flow")
    /\ sent' = [sent EXCEPT ![tk[w]] = IF @ < MaxSent THEN @ + 1 ELSE @]
    /\ at' = [at EXCEPT ![w] = "sent"]
    /\ UNCHANGED <<mail, status, inbound, age, looked, left, cur, tk, todo, made, held, aborts>>

\* Variant: a run may resolve before it has answered.
OutcomesUnanswered(w) == {"resolved"}

\* What a run may end with: in_app resolves after its reply; llm resolves after
\* its reply or escalates before one; a flow also waits after an e-mail.
Outcomes(w) ==
    (IF at[w] = "sent" \/ Runtime = "flow" THEN {"resolved"} ELSE {})
    \cup (IF Runtime = "flow" \/ (Runtime = "llm" /\ at[w] = "work") THEN {"needs_rep"} ELSE {})
    \cup (IF Runtime = "flow" /\ at[w] = "sent" THEN {"awaiting_customer"} ELSE {})

\* Variant: the tool-use loop goes on after _escalate.
FinishAndGoOn(w) ==
    /\ at[w] \in {"work", "sent"}
    /\ \E s \in Outcomes(w) : /\ Commit(w, s)
                              /\ at' = [at EXCEPT ![w] = IF s = "needs_rep" THEN "work" ELSE "next"]
    /\ UNCHANGED <<mail, inbound, sent, looked, left, cur, tk, todo, made, aborts>>

\* The last commit of a run: the outbound message, the status, the audit row.
Finish(w) ==
    /\ at[w] \in {"work", "sent"}
    /\ \E s \in Outcomes(w) : Commit(w, s)
    /\ at' = [at EXCEPT ![w] = "next"]
    /\ UNCHANGED <<mail, inbound, sent, looked, left, cur, tk, todo, made, aborts>>

FinishLoop(w) ==
    /\ at[w] = "next" /\ todo[w] = {}
    /\ CloseSession(w)
    /\ UNCHANGED <<deskVars, aborts>>

\* An exception leaves the run (there is no handler around handle_ticket) or
\* the process dies: the session is rolled back, what was committed stays.
Abort(w) ==
    /\ at[w] # "idle" /\ aborts < MaxAborts
    /\ CloseSession(w)
    /\ aborts' = aborts + 1
    /\ UNCHANGED deskVars

CustomerWrites ==
    \/ \E c \in Customer, k \in Kind : Write(c, k)
    \/ \E m \in DOMAIN mail, k \in Kind : FollowUp(m, k)

Ingest(w) ==
    \/ \E m \in left[w] : LookUp(w, m)
    \/ AppendReply(w)
    \/ \E t \in Ticket : CreateTicket(w, t)
    \/ FinishSweep(w)

Handle(w) ==
    \/ SelectActionable(w)
    \/ \E t \in todo[w] : Take(w, t)
    \/ EscalateUnmatched(w) \/ Claim(w) \/ SendReply(w) \/ Finish(w) \/ FinishLoop(w)

Next ==
    \/ CustomerWrites
    \/ \E w \in Worker : Start(w) \/ Ingest(w) \/ Handle(w) \/ Abort(w)

\* Cron starts a loop again and again, and a run that has begun goes on to its
\* end or to an exception; the e-mails of a flow come to an end (FlowEngine).
Fairness ==
    \A w \in Worker : /\ WF_vars(Start(w)) /\ WF_vars(Ingest(w))
                      /\ WF_vars(Handle(w)) /\ WF_vars(Finish(w))

Spec == Init /\ [][Next]_vars /\ Fairness
-----------------------------------------------------------------------------
MailRecord == [from : Customer, conv : Nat, kind : Kind]

\* Every variable stays in its domain.
TypeOK ==
    /\ mail \in Seq(MailRecord)
    /\ status \in [Ticket -> TICKET_STATUSES \cup {"absent"}]
    /\ inbound \in [Ticket -> Seq(Nat)]
    /\ age \in [Ticket -> Nat]
    /\ sent \in [Ticket -> Nat]
    /\ looked \in [Ticket -> Nat]
    /\ at \in [Worker -> {"idle", "lookup", "file", "next", "handle", "work", "sent"}]
    /\ left \in [Worker -> SUBSET Nat]
    /\ cur \in [Worker -> Nat]
    /\ tk \in [Worker -> Ticket \cup {NoTicket}]
    /\ todo \in [Worker -> SUBSET Ticket]
    /\ made \in [Worker -> SUBSET Ticket]
    /\ held \in [Worker -> [Ticket -> TICKET_STATUSES \cup {"none"}]]
    /\ aborts \in Nat

\* Sticky escalation (models/tickets.py:3, README.md:32): once a ticket needs a
\* rep, no run, reply or stale copy takes it out of the rep's lane.
StickyEscalation ==
    [][\A t \in Ticket : status[t] = "needs_rep" => status'[t] = "needs_rep"]_vars

\* No e-mail of the runtime goes out about a ticket a rep owns.
NoMailOverRep ==
    [][\A t \in Ticket : sent'[t] # sent[t] => status[t] # "needs_rep"]_vars

\* No run holds a copy of the ticket from before its escalation.
Quiet(t) == /\ status[t] = "needs_rep"
            /\ \A w \in Worker : held[w][t] \in {"none", "needs_rep"}

\* What the frozen checks give however many runs and sweeps overlap: once no
\* run holds an older copy, an escalated ticket is left alone for ever.
StickyOnceQuiet ==
    [][\A t \in Ticket : Quiet(t) => Quiet(t)' /\ sent'[t] = sent[t]]_vars

\* A message is filed at most once, into one ticket, however often the unread
\* listing repeats it and wherever a run was cut off.
FiledOnce ==
    \A t, u \in Ticket : \A i \in DOMAIN inbound[t], j \in DOMAIN inbound[u] :
        inbound[t][i] = inbound[u][j] => t = u /\ i = j

\* No constraint of the database keeps overlapping sweeps from filing a message
\* twice; but only sweeps that looked it up before the first of them filed it
\* do so, each once, and whatever comes later finds it seen.
Filings(m) == UNION {{t} \X {i \in DOMAIN inbound[t] : inbound[t][i] = m} : t \in Ticket}
FiledOncePerWorker == \A m \in 1 .. Len(mail) : Cardinality(Filings(m)) <= Cardinality(Worker)

\* A ticket is not closed without an answer to the customer (in_app and llm,
\* whose runs resolve only after a reply), also when runs overlap.
ResolvedWasAnswered ==
    \A t \in Ticket : status[t] = "resolved" => sent[t] > 0

\* A flow does not close a ticket, or go on waiting for its customer, over a
\* reply that no run has read.
NoReplyOverlooked ==
    \A t \in Ticket :
        status[t] \in {"awaiting_customer", "resolved"} => looked[t] = Len(inbound[t])

\* The mail of a customer is filed in the end, whatever runs are cut off, unless
\* it has left the listing: as many messages came after it as one listing returns.
MailGetsFiled ==
    \A m \in 1 .. MaxMail :
        (m \in DOMAIN mail /\ IsSupportCandidate(m)) ~> (Seen(m) \/ m + ListLimit <= Len(mail))

\* A ticket the desk may act on is answered, parked or handed over in the end.
TicketsGetHandled ==
    \A t \in Ticket : status[t] \in Actionable ~> status[t] \notin Actionable
-----------------------------------------------------------------------------
\* The lane of a ticket and the place of a message, as TicketLanes sees them.
LaneOf(t) ==
    CASE status[t] = "absent" -> "none"
      [] status[t] \in Actionable -> "open"
      [] status[t] = "awaiting_customer" -> "waiting"
      [] status[t] = "needs_rep" -> "rep"
      [] status[t] = "resolved" -> "closed"
      [] OTHER -> "unknown"

PlaceOf(m) ==
    IF Seen(m) THEN CHOOSE t \in Ticket : \E i \in DOMAIN inbound[t] : inbound[t][i] = m
               ELSE NoTicket

Lanes == INSTANCE TicketLanes
            WITH Mail <- 1 .. MaxMail,
                 lane <- [t \in Ticket |-> LaneOf(t)],
                 filed <- [m \in 1 .. MaxMail |-> PlaceOf(m)]

\* While runs do not overlap the desk keeps the promises of TicketLanes:
\* closed tickets stay closed, a rep's ticket stays the rep's, only a filed
\* message ends a wait, and a message is filed into one ticket.
KeepsLanes == Lanes!Spec
=============================================================================
