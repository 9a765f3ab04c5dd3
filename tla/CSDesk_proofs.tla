--------------------------- MODULE CSDesk_proofs ----------------------------
(***************************************************************************)
(* Theorems about CSDesk, for any number of runs and ingest calls, any     *)
(* runtime and any bounds.  Sticky escalation does not hold when runs      *)
(* overlap; what does hold is proved here: an escalated ticket is left     *)
(* alone once no run holds an older copy of it, and with one worker at a   *)
(* time there never is such a copy.                                        *)
(***************************************************************************)
EXTENDS CSDesk, FiniteSetTheorems, TLAPS

At == {"idle", "lookup", "file", "next", "handle", "work", "sent"}

LEMMA FlushedType ==
    ASSUME NEW S, NEW x, NEW y \in S \cup {x}, NEW z \in S
    PROVE  Flushed(x, y, z) \in S
  BY DEF Flushed

LEMMA ActivatedType ==
    ASSUME NEW s \in TICKET_STATUSES \cup {"none"}
    PROVE  Activated(s) \in TICKET_STATUSES \cup {"none"}
  BY DEF Activated, TICKET_STATUSES

LEMMA TouchedType ==
    ASSUME age \in [Ticket -> Nat], NEW t
    PROVE  Touched(t) \in [Ticket -> Nat]
  BY DEF Touched

\* The domains are kept when mail arrives.
LEMMA TypeArrives ==
    ASSUME TypeOK, NEW m \in MailRecord, Arrives(m)
    PROVE  TypeOK'
  <1>1. mail' \in Seq(MailRecord)
    BY DEF TypeOK, Arrives
  <1> QED
    BY <1>1 DEF TypeOK, Arrives, workerVars

LEMMA TypeCustomer == TypeOK /\ CustomerWrites => TypeOK'
  <1> SUFFICES ASSUME TypeOK, CustomerWrites PROVE TypeOK'
    OBVIOUS
  <1>0. mail \in Seq(MailRecord) /\ Len(mail) + 1 \in Nat
    BY DEF TypeOK
  <1>1. ASSUME NEW c \in Customer, NEW k \in Kind, Write(c, k) PROVE TypeOK'
    BY <1>1, <1>0, TypeArrives DEF Write, MailRecord
  <1>2. ASSUME NEW m \in DOMAIN mail, NEW k \in Kind, FollowUp(m, k) PROVE TypeOK'
    <2>1. mail[m] \in MailRecord
      BY <1>0
    <2>2. [mail[m] EXCEPT !.kind = k] \in MailRecord
      BY <2>1 DEF MailRecord
    <2> QED
      BY <1>2, <2>2, TypeArrives DEF FollowUp
  <1> QED
    BY <1>1, <1>2 DEF CustomerWrites

LEMMA TypeClose ==
    ASSUME TypeOK, NEW w \in Worker, CloseSession(w)
    PROVE  /\ at' \in [Worker -> At] /\ left' \in [Worker -> SUBSET Nat]
           /\ cur' \in [Worker -> Nat] /\ tk' \in [Worker -> Ticket \cup {NoTicket}]
           /\ todo' \in [Worker -> SUBSET Ticket] /\ made' \in [Worker -> SUBSET Ticket]
           /\ held' \in [Worker -> [Ticket -> TICKET_STATUSES \cup {"none"}]]
  BY DEF TypeOK, CloseSession, At, NoMail, NothingHeld

LEMMA TypeIngest ==
    ASSUME TypeOK, NEW w \in Worker, Start(w) \/ Ingest(w)
    PROVE  TypeOK'
  <1> USE DEF TypeOK, At, deskVars
  <1>1. CASE Start(w)
    BY <1>1 DEF Start
  <1>2. ASSUME NEW m \in left[w], LookUp(w, m) PROVE TypeOK'
    <2>1. CASE UNCHANGED <<at, cur, tk, held>>
      BY <1>2, <2>1 DEF LookUp
    <2>2. CASE ToFile(w, m)
      <3>1. PICK t \in OpenTicketForReply(m) :
               /\ at' = [at EXCEPT ![w] = "file"]
               /\ cur' = [cur EXCEPT ![w] = m]
               /\ tk' = [tk EXCEPT ![w] = t]
               /\ held' = [held EXCEPT ![w] = HeldAfterLookUp(w, t)]
        BY <2>2 DEF ToFile
      <3>2. t \in Ticket \cup {NoTicket}
        BY DEF OpenTicketForReply, Existing
      <3>3. ASSUME NEW u \in Ticket, u = t PROVE Loaded(w, u) \in TICKET_STATUSES \cup {"none"}
        <4>1. u \in Existing
          BY <3>3 DEF OpenTicketForReply, NoTicket, Ticket, Existing
        <4> QED
          BY <4>1 DEF Loaded, Existing, Exists
      <3>4. HeldAfterLookUp(w, t) \in [Ticket -> TICKET_STATUSES \cup {"none"}]
        BY <3>3 DEF HeldAfterLookUp
      <3> QED
        BY <1>2, <3>1, <3>2, <3>4 DEF LookUp
    <2> QED
      BY <1>2, <2>1, <2>2 DEF LookUp
  <1>3. CASE AppendReply(w)
    <2> DEFINE t == tk[w]
               s == Activated(held[w][t])
    <2>0. t \in Ticket
      BY <1>3 DEF AppendReply
    <2>1. s \in TICKET_STATUSES \cup {"none"}
      BY <2>0, ActivatedType
    <2>2. Flushed(held[w][t], s, status[t]) \in TICKET_STATUSES \cup {"absent"}
      BY <2>0 DEF Flushed, Activated, TICKET_STATUSES
    <2>3. inbound' \in [Ticket -> Seq(Nat)]
      BY <1>3, <2>0 DEF AppendReply
    <2>4. held' \in [Worker -> [Ticket -> TICKET_STATUSES \cup {"none"}]]
      BY <1>3, <2>0, <2>1 DEF AppendReply
    <2>5. age' \in [Ticket -> Nat]
      BY <1>3, TouchedType DEF AppendReply
    <2> QED
      BY <1>3, <2>0, <2>2, <2>3, <2>4, <2>5 DEF AppendReply
  <1>4. ASSUME NEW t \in Ticket, CreateTicket(w, t) PROVE TypeOK'
    <2>1. inbound' \in [Ticket -> Seq(Nat)]
      BY <1>4 DEF CreateTicket
    <2>2. held' \in [Worker -> [Ticket -> TICKET_STATUSES \cup {"none"}]]
      BY <1>4 DEF CreateTicket, TICKET_STATUSES
    <2>3. age' \in [Ticket -> Nat]
      BY <1>4, TouchedType DEF CreateTicket
    <2> QED
      BY <1>4, <2>1, <2>2, <2>3 DEF CreateTicket, TICKET_STATUSES
  <1>5. CASE FinishSweep(w)
    BY <1>5, TypeClose DEF FinishSweep
  <1> QED
    BY <1>1, <1>2, <1>3, <1>4, <1>5 DEF Ingest

\* What a commit of a run makes of the status, the copy and the order.
LEMMA TypeCommit ==
    ASSUME TypeOK, NEW w \in Worker, NEW s \in TICKET_STATUSES, Commit(w, s)
    PROVE  /\ status' \in [Ticket -> TICKET_STATUSES \cup {"absent"}]
           /\ held' \in [Worker -> [Ticket -> TICKET_STATUSES \cup {"none"}]]
           /\ age' \in [Ticket -> Nat]
  <1>1. age' \in [Ticket -> Nat]
    BY TouchedType DEF TypeOK, Commit
  <1>2. ASSUME NEW x, NEW z \in TICKET_STATUSES \cup {"absent"}
        PROVE  Flushed(x, s, z) \in TICKET_STATUSES \cup {"absent"}
    BY DEF Flushed
  <1>3. status' \in [Ticket -> TICKET_STATUSES \cup {"absent"}]
    BY <1>2 DEF TypeOK, Commit
  <1>4. held' \in [Worker -> [Ticket -> TICKET_STATUSES \cup {"none"}]]
    BY DEF TypeOK, Commit
  <1> QED
    BY <1>1, <1>3, <1>4

LEMMA TypeHandle ==
    ASSUME TypeOK, NEW w \in Worker, Handle(w)
    PROVE  TypeOK'
  <1> USE DEF TypeOK, At, deskVars
  <1>1. CASE SelectActionable(w)
    <2> DEFINE chosen == {t \in Ticket : status[t] \in Actionable}
               copy == [t \in Ticket |-> IF t \in made[w] THEN held[w][t]
                                         ELSE IF t \in chosen THEN status[t] ELSE "none"]
    <2>1. copy \in [Ticket -> TICKET_STATUSES \cup {"none"}]
      BY DEF Actionable, TICKET_STATUSES
    <2>2. held' = [held EXCEPT ![w] = copy]
      BY <1>1 DEF SelectActionable
    <2> QED
      BY <1>1, <2>1, <2>2 DEF SelectActionable
  <1>2. ASSUME NEW t \in todo[w], Take(w, t) PROVE TypeOK'
    BY <1>2 DEF Take
  <1>3. CASE EscalateUnmatched(w)
    BY <1>3, TypeCommit DEF EscalateUnmatched, TICKET_STATUSES
  <1>4. CASE Claim(w)
    <2>1. looked' \in [Ticket -> Nat]
      <3>1. ASSUME tk[w] \in Ticket PROVE Len(inbound[tk[w]]) \in Nat
        BY <3>1
      <3> QED
        BY <1>4, <3>1 DEF Claim
    <2>2. CASE UNCHANGED <<status, held, age>>
      BY <1>4, <2>1, <2>2 DEF Claim
    <2>3. CASE Commit(w, "auto_handling")
      <3>1. "auto_handling" \in TICKET_STATUSES
        BY DEF TICKET_STATUSES
      <3>2. /\ status' \in [Ticket -> TICKET_STATUSES \cup {"absent"}]
            /\ held' \in [Worker -> [Ticket -> TICKET_STATUSES \cup {"none"}]]
            /\ age' \in [Ticket -> Nat]
        BY <2>3, <3>1, TypeCommit
      <3> QED
        BY <1>4, <2>1, <3>2 DEF Claim
    <2> QED
      BY <1>4, <2>2, <2>3 DEF Claim
  <1>5. CASE SendReply(w)
    <2>1. sent' \in [Ticket -> Nat]
      <3>1. ASSUME tk[w] \in Ticket
            PROVE  (IF sent[tk[w]] < MaxSent THEN sent[tk[w]] + 1 ELSE sent[tk[w]]) \in Nat
        BY <3>1
      <3> QED
        BY <1>5, <3>1 DEF SendReply
    <2> QED
      BY <1>5, <2>1 DEF SendReply
  <1>6. CASE Finish(w)
    <2>1. PICK s \in Outcomes(w) : Commit(w, s)
      BY <1>6 DEF Finish
    <2>2. s \in TICKET_STATUSES
      BY DEF Outcomes, TICKET_STATUSES
    <2> QED
      BY <1>6, <2>1, <2>2, TypeCommit DEF Finish
  <1>7. CASE FinishLoop(w)
    BY <1>7, TypeClose DEF FinishLoop
  <1> QED
    BY <1>1, <1>2, <1>3, <1>4, <1>5, <1>6, <1>7 DEF Handle

LEMMA TypeAbort ==
    ASSUME TypeOK, NEW w \in Worker, Abort(w)
    PROVE  TypeOK'
  BY TypeClose DEF Abort, TypeOK, At, deskVars

LEMMA TypeInit == Init => TypeOK
  BY BoundsAssumption DEF Init, TypeOK, NothingHeld, NoMail

\* The domains of CSDesk's variables.
THEOREM TypeCorrect == Spec => []TypeOK
  <1>1. TypeOK /\ [Next]_vars => TypeOK'
    <2> SUFFICES ASSUME TypeOK, [Next]_vars PROVE TypeOK'
      OBVIOUS
    <2>1. CASE UNCHANGED vars
      BY <2>1 DEF TypeOK, vars
    <2> QED
      BY <2>1, TypeCustomer, TypeIngest, TypeHandle, TypeAbort DEF Next
  <1> QED
    BY <1>1, TypeInit, PTL DEF Spec

-----------------------------------------------------------------------------
(* Why the frozen checks suffice: what a run works on was not frozen in its *)
(* own copy, and it has a copy of everything it may still work on.          *)

Thawed(w) ==
    /\ at[w] \in {"idle", "lookup", "file"} => todo[w] = {}
    /\ \A t \in todo[w] \cup made[w] : held[w][t] # "none"
    /\ at[w] \in {"handle", "work", "sent"} =>
          tk[w] \in Ticket /\ held[w][tk[w]] \notin Frozen \cup {"none"}

IInv == TypeOK /\ \A w \in Worker : Thawed(w)

\* A worker's own steps, and no others, touch what Thawed(w) speaks of.
LEMMA ThawedElsewhere ==
    ASSUME NEW w \in Worker, Thawed(w),
           at'[w] = at[w], todo'[w] = todo[w], made'[w] = made[w],
           tk'[w] = tk[w], held'[w] = held[w]
    PROVE  Thawed(w)'
  BY DEF Thawed

\* The variables of the other workers stay as they are.
OthersKeep(w) ==
    \A v \in Worker \ {w} : /\ at'[v] = at[v] /\ todo'[v] = todo[v] /\ made'[v] = made[v]
                            /\ tk'[v] = tk[v] /\ held'[v] = held[v]

LEMMA ThawedClose ==
    ASSUME TypeOK, NEW w \in Worker, CloseSession(w)
    PROVE  OthersKeep(w) /\ Thawed(w)'
  BY DEF TypeOK, CloseSession, OthersKeep, Thawed

LEMMA ThawedStep ==
    ASSUME TypeOK, NEW w \in Worker, Thawed(w),
           Start(w) \/ Ingest(w) \/ Handle(w) \/ Abort(w)
    PROVE  OthersKeep(w) /\ Thawed(w)'
  <1> USE DEF TypeOK, deskVars
  <1>1. CASE Start(w)
    BY <1>1 DEF Start, OthersKeep, Thawed
  <1>2. ASSUME NEW m \in left[w], LookUp(w, m) PROVE OthersKeep(w) /\ Thawed(w)'
    <2>1. CASE UNCHANGED <<at, cur, tk, held>>
      BY <1>2, <2>1 DEF LookUp, OthersKeep, Thawed
    <2>2. CASE ToFile(w, m)
      <3>1. PICK t : /\ at' = [at EXCEPT ![w] = "file"]
                     /\ tk' = [tk EXCEPT ![w] = t]
                     /\ held' = [held EXCEPT ![w] = HeldAfterLookUp(w, t)]
        BY <2>2 DEF ToFile
      <3>2. todo' = todo /\ made' = made /\ at[w] = "lookup"
        BY <1>2 DEF LookUp
      <3>3. ASSUME NEW u \in made[w] PROVE HeldAfterLookUp(w, t)[u] # "none"
        <4>1. u \in Ticket /\ held[w][u] # "none"
          BY DEF Thawed
        <4> QED
          BY <4>1 DEF HeldAfterLookUp, Loaded
      <3> QED
        BY <3>1, <3>2, <3>3 DEF OthersKeep, Thawed
    <2> QED
      BY <1>2, <2>1, <2>2 DEF LookUp
  <1>3. CASE AppendReply(w)
    <2>1. tk[w] \in Ticket
      BY <1>3 DEF AppendReply
    <2>2. \A u \in made[w] : Activated(held[w][u]) # "none"
      BY DEF Thawed, Activated
    <2>3. held'[w] = [held[w] EXCEPT ![tk[w]] = Activated(held[w][tk[w]])]
      BY <1>3 DEF AppendReply
    <2>4. \A u \in made[w] : held'[w][u] # "none"
      BY <2>1, <2>2, <2>3 DEF Thawed
    <2> QED
      BY <1>3, <2>4 DEF AppendReply, OthersKeep, Thawed
  <1>4. ASSUME NEW t \in Ticket, CreateTicket(w, t) PROVE OthersKeep(w) /\ Thawed(w)'
    BY <1>4 DEF CreateTicket, OthersKeep, Thawed
  <1>5. CASE FinishSweep(w)
    BY <1>5, ThawedClose DEF FinishSweep
  <1>6. CASE SelectActionable(w)
    <2>1. \A t \in Ticket : status[t] \in Actionable => status[t] # "none"
      BY DEF Actionable
    <2> QED
      BY <1>6, <2>1 DEF SelectActionable, OthersKeep, Thawed
  <1>7. ASSUME NEW t \in todo[w], Take(w, t) PROVE OthersKeep(w) /\ Thawed(w)'
    BY <1>7 DEF Take, OthersKeep, Thawed
  <1>8. CASE EscalateUnmatched(w)
    BY <1>8 DEF EscalateUnmatched, Commit, OthersKeep, Thawed
  <1>9. CASE Claim(w)
    BY <1>9 DEF Claim, Commit, OthersKeep, Thawed, Frozen
  <1>10. CASE SendReply(w)
    BY <1>10 DEF SendReply, OthersKeep, Thawed
  <1>11. CASE Finish(w)
    <2>1. PICK s \in Outcomes(w) : Commit(w, s)
      BY <1>11 DEF Finish
    <2>2. s # "none"
      BY DEF Outcomes
    <2> QED
      BY <1>11, <2>1, <2>2 DEF Finish, Commit, OthersKeep, Thawed
  <1>12. CASE FinishLoop(w)
    BY <1>12, ThawedClose DEF FinishLoop
  <1>13. CASE Abort(w)
    BY <1>13, ThawedClose DEF Abort
  <1> QED
    BY <1>1, <1>2, <1>3, <1>4, <1>5, <1>6, <1>7, <1>8, <1>9, <1>10, <1>11, <1>12, <1>13
       DEF Ingest, Handle

\* Mail and stuttering change no worker.
LEMMA ThawedOutside ==
    ASSUME NEW w \in Worker, Thawed(w), CustomerWrites \/ UNCHANGED vars
    PROVE  Thawed(w)'
  <1>1. UNCHANGED workerVars
    BY DEF CustomerWrites, Write, FollowUp, Arrives, vars, workerVars
  <1> QED
    BY <1>1, ThawedElsewhere DEF workerVars

THEOREM Invariance == Spec => []IInv
  <1>1. Init => IInv
    BY TypeInit DEF Init, IInv, Thawed
  <1>2. IInv /\ TypeOK' /\ [Next]_vars => IInv'
    <2> SUFFICES ASSUME IInv, TypeOK', [Next]_vars, NEW v \in Worker PROVE Thawed(v)'
      BY DEF IInv
    <2>1. CASE CustomerWrites \/ UNCHANGED vars
      BY <2>1, ThawedOutside DEF IInv
    <2>2. ASSUME NEW w \in Worker, Start(w) \/ Ingest(w) \/ Handle(w) \/ Abort(w)
          PROVE  Thawed(v)'
      <3>1. OthersKeep(w) /\ Thawed(w)'
        BY <2>2, ThawedStep DEF IInv
      <3>2. CASE v # w
        BY <3>1, <3>2, ThawedElsewhere DEF OthersKeep, IInv
      <3> QED
        BY <3>1, <3>2
    <2> QED
      BY <2>1, <2>2 DEF Next
  <1> QED
    BY <1>1, <1>2, TypeCorrect, PTL DEF Spec

-----------------------------------------------------------------------------
(* Sticky escalation. *)

\* A run never commits over a quiet ticket: it is handling another one.
LEMMA HandlesAnother ==
    ASSUME IInv, NEW t \in Ticket, Quiet(t), NEW w \in Worker,
           at[w] \in {"handle", "work", "sent"}
    PROVE  tk[w] # t /\ tk[w] \in Ticket
  BY DEF IInv, Thawed, Quiet, Frozen

LEMMA CommitElsewhere ==
    ASSUME TypeOK, NEW t \in Ticket, Quiet(t), NEW w \in Worker, NEW s,
           Commit(w, s), tk[w] # t
    PROVE  Quiet(t)'
  BY DEF TypeOK, Commit, Quiet

LEMMA QuietClose ==
    ASSUME TypeOK, NEW t \in Ticket, Quiet(t), NEW w \in Worker,
           CloseSession(w), UNCHANGED deskVars
    PROVE  Quiet(t)' /\ sent'[t] = sent[t]
  BY DEF TypeOK, Quiet, CloseSession, NothingHeld, deskVars

LEMMA QuietStep ==
    ASSUME IInv, NEW t \in Ticket, Quiet(t), NEW w \in Worker,
           Start(w) \/ Ingest(w) \/ Handle(w) \/ Abort(w)
    PROVE  Quiet(t)' /\ sent'[t] = sent[t]
  <1> USE DEF IInv, TypeOK, deskVars
  <1>1. CASE Start(w)
    BY <1>1 DEF Start, Quiet
  <1>2. ASSUME NEW m \in left[w], LookUp(w, m) PROVE Quiet(t)' /\ sent'[t] = sent[t]
    <2>1. CASE UNCHANGED <<at, cur, tk, held>>
      BY <1>2, <2>1 DEF LookUp, Quiet
    <2>2. CASE ToFile(w, m)
      <3>1. PICK u : held' = [held EXCEPT ![w] = HeldAfterLookUp(w, u)]
        BY <2>2 DEF ToFile
      <3>2. HeldAfterLookUp(w, u)[t] \in {"none", "needs_rep"}
        BY DEF HeldAfterLookUp, Loaded, Quiet
      <3> QED
        BY <1>2, <3>1, <3>2 DEF LookUp, Quiet
    <2> QED
      BY <1>2, <2>1, <2>2 DEF LookUp
  <1>3. CASE AppendReply(w)
    <2>1. CASE tk[w] # t
      BY <1>3, <2>1 DEF AppendReply, Quiet
    <2>2. CASE tk[w] = t
      <3>1. Activated(held[w][t]) = held[w][t]
        BY DEF Quiet, Activated
      <3>2. status'[t] = status[t] /\ held'[w][t] = held[w][t]
        BY <1>3, <2>2, <3>1 DEF AppendReply, Flushed
      <3> QED
        BY <1>3, <3>2 DEF AppendReply, Quiet
    <2> QED
      BY <2>1, <2>2
  <1>4. ASSUME NEW u \in Ticket, CreateTicket(w, u) PROVE Quiet(t)' /\ sent'[t] = sent[t]
    <2>1. u # t
      BY <1>4 DEF CreateTicket, Exists, Quiet
    <2> QED
      BY <1>4, <2>1 DEF CreateTicket, Quiet
  <1>5. CASE FinishSweep(w)
    BY <1>5, QuietClose DEF FinishSweep
  <1>6. CASE SelectActionable(w)
    BY <1>6 DEF SelectActionable, Quiet, Actionable
  <1>7. ASSUME NEW u \in todo[w], Take(w, u) PROVE Quiet(t)' /\ sent'[t] = sent[t]
    BY <1>7 DEF Take, Quiet
  <1>8. CASE EscalateUnmatched(w)
    BY <1>8, HandlesAnother, CommitElsewhere DEF EscalateUnmatched
  <1>9. CASE Claim(w)
    <2>1. CASE UNCHANGED <<status, held, age>>
      BY <1>9, <2>1 DEF Claim, Quiet
    <2>2. CASE Commit(w, "auto_handling")
      BY <1>9, <2>2, HandlesAnother, CommitElsewhere DEF Claim
    <2> QED
      BY <1>9, <2>1, <2>2 DEF Claim
  <1>10. CASE SendReply(w)
    <2>1. tk[w] # t
      BY <1>10, HandlesAnother DEF SendReply
    <2> QED
      BY <1>10, <2>1 DEF SendReply, Quiet
  <1>11. CASE Finish(w)
    <2>1. PICK s : Commit(w, s)
      BY <1>11 DEF Finish
    <2>2. tk[w] # t
      BY <1>11, HandlesAnother DEF Finish
    <2> QED
      BY <1>11, <2>1, <2>2, CommitElsewhere DEF Finish
  <1>12. CASE FinishLoop(w)
    BY <1>12, QuietClose DEF FinishLoop
  <1>13. CASE Abort(w)
    BY <1>13, QuietClose DEF Abort
  <1> QED
    BY <1>1, <1>2, <1>3, <1>4, <1>5, <1>6, <1>7, <1>8, <1>9, <1>10, <1>11, <1>12, <1>13
       DEF Ingest, Handle

LEMMA QuietOutside ==
    ASSUME NEW t \in Ticket, Quiet(t), CustomerWrites \/ UNCHANGED vars
    PROVE  Quiet(t)' /\ sent'[t] = sent[t]
  <1>1. status' = status /\ held' = held /\ sent' = sent
    BY DEF CustomerWrites, Write, FollowUp, Arrives, vars, workerVars
  <1> QED
    BY <1>1 DEF Quiet

\* However many runs and ingest calls overlap, in whichever order they read
\* and commit: an escalated ticket of which no run holds an older copy keeps
\* its lane and gets no e-mail from the runtime, for ever.
THEOREM StickyWhenQuiet == Spec => StickyOnceQuiet
  <1>1. IInv /\ [Next]_vars
          => [\A t \in Ticket : Quiet(t) => Quiet(t)' /\ sent'[t] = sent[t]]_vars
    BY QuietStep, QuietOutside DEF Next
  <1> QED
    BY <1>1, Invariance, PTL DEF Spec, StickyOnceQuiet

\* One worker at a time: when the ticket is escalated nobody has an older copy.
AlwaysQuiet == \A t \in Ticket : status[t] = "needs_rep" => Quiet(t)

LEMMA AlwaysQuietStep ==
    ASSUME \A v, w \in Worker : v = w,
           IInv, AlwaysQuiet, NEW w \in Worker,
           Start(w) \/ Ingest(w) \/ Handle(w) \/ Abort(w)
    PROVE  AlwaysQuiet'
  <1> SUFFICES ASSUME NEW t \in Ticket, status[t] # "needs_rep", status'[t] = "needs_rep"
               PROVE  \A v \in Worker : held'[v][t] \in {"none", "needs_rep"}
    BY QuietStep DEF AlwaysQuiet, Quiet
  <1> USE DEF IInv, TypeOK
  <1>1. ASSUME NEW s, Commit(w, s), w \in Worker
        PROVE  held'[w][t] = "needs_rep"
    <2>1. tk[w] = t
      BY <1>1 DEF Commit
    <2>2. s = "needs_rep"
      BY <1>1, <2>1 DEF Commit, Flushed
    <2> QED
      BY <1>1, <2>1, <2>2 DEF Commit
  <1>2. Commit(w, "needs_rep") \/ Commit(w, "auto_handling") \/ \E s : Commit(w, s)
    <2>1. CASE AppendReply(w)
      BY <2>1 DEF AppendReply, Activated, Flushed
    <2>2. ASSUME NEW u \in Ticket, CreateTicket(w, u) PROVE FALSE
      BY <2>2 DEF CreateTicket
    <2>3. CASE EscalateUnmatched(w) \/ Claim(w) \/ Finish(w)
      BY <2>3 DEF EscalateUnmatched, Claim, Finish
    <2>4. CASE status' = status
      BY <2>4
    <2> QED
      BY <2>1, <2>2, <2>3, <2>4
         DEF Ingest, Handle, Start, LookUp, FinishSweep, SelectActionable, Take, SendReply,
             FinishLoop, Abort, deskVars
  <1> QED
    BY <1>1, <1>2

\* Invariant 3 of the product, for deployments where runs and ingest calls do
\* not overlap: a rep's ticket stays the rep's and is never e-mailed about.
THEOREM StickyForOneWorker ==
    ASSUME \A v, w \in Worker : v = w
    PROVE  Spec => StickyEscalation /\ NoMailOverRep
  <1>1. Init => AlwaysQuiet
    BY DEF Init, AlwaysQuiet
  <1>2. IInv /\ AlwaysQuiet /\ [Next]_vars => AlwaysQuiet'
    <2> SUFFICES ASSUME IInv, AlwaysQuiet, [Next]_vars PROVE AlwaysQuiet'
      OBVIOUS
    <2>1. CASE CustomerWrites \/ UNCHANGED vars
      <3>1. status' = status /\ held' = held
        BY <2>1 DEF CustomerWrites, Write, FollowUp, Arrives, vars, workerVars
      <3> QED
        BY <3>1 DEF AlwaysQuiet, Quiet
    <2>2. ASSUME NEW w \in Worker, Start(w) \/ Ingest(w) \/ Handle(w) \/ Abort(w)
          PROVE  AlwaysQuiet'
      BY <2>2, AlwaysQuietStep
    <2> QED
      BY <2>1, <2>2 DEF Next
  <1>3. Spec => [](IInv /\ AlwaysQuiet)
    BY <1>1, <1>2, Invariance, PTL DEF Spec
  <1>4. IInv /\ AlwaysQuiet /\ [Next]_vars
          => [\A t \in Ticket : Quiet(t) => Quiet(t)' /\ sent'[t] = sent[t]]_vars
    BY QuietStep, QuietOutside DEF Next
  <1>5. IInv /\ AlwaysQuiet /\ [Next]_vars
          => /\ [\A t \in Ticket : status[t] = "needs_rep" => status'[t] = "needs_rep"]_vars
             /\ [\A t \in Ticket : sent'[t] # sent[t] => status[t] # "needs_rep"]_vars
    BY <1>4 DEF AlwaysQuiet, Quiet
  <1> QED
    BY <1>3, <1>5, PTL DEF Spec, StickyEscalation, NoMailOverRep

\* With one worker no e-mail leaves about a ticket that a rep has: the runtimes
\* take up, and finish, only tickets whose copies are current.
THEOREM NoMailForOneWorker ==
    ASSUME \A v, w \in Worker : v = w
    PROVE  Spec => NoMailOverRep
  BY StickyForOneWorker

-----------------------------------------------------------------------------
(* No ticket is closed unanswered. *)

\* A run that stands behind its e-mail has sent one about its ticket.
Answered(w) == at[w] = "sent" => sent[tk[w]] > 0

AnsweredInv == ResolvedWasAnswered /\ \A w \in Worker : Answered(w)

\* E-mails are not unsent, and a ticket is resolved only behind an e-mail.
AnsweredStep(w) ==
    /\ \A t \in Ticket : sent[t] > 0 => sent'[t] > 0
    /\ \A t \in Ticket : status'[t] = "resolved" =>
          status[t] = "resolved" \/ (at[w] = "sent" /\ tk[w] = t)
    /\ Answered(w)'

LEMMA AnsweredClose ==
    ASSUME TypeOK, NEW w \in Worker, CloseSession(w), UNCHANGED deskVars
    PROVE  AnsweredStep(w)
  BY DEF TypeOK, CloseSession, deskVars, AnsweredStep, Answered

LEMMA AnsweredCommit ==
    ASSUME TypeOK, NEW w \in Worker, NEW s, Commit(w, s), sent' = sent, at'[w] # "sent",
           s = "resolved" => at[w] = "sent"
    PROVE  AnsweredStep(w)
  BY DEF TypeOK, Commit, Flushed, AnsweredStep, Answered

LEMMA AnsweredByStep ==
    ASSUME IInv, Runtime # "flow", MaxSent # 0, NEW w \in Worker,
           Start(w) \/ Ingest(w) \/ Handle(w) \/ Abort(w)
    PROVE  AnsweredStep(w)
  <1> USE DEF IInv, TypeOK, deskVars
  <1>1. CASE Start(w)
    BY <1>1 DEF Start, AnsweredStep, Answered
  <1>2. ASSUME NEW m \in left[w], LookUp(w, m) PROVE AnsweredStep(w)
    BY <1>2 DEF LookUp, ToFile, AnsweredStep, Answered
  <1>3. CASE AppendReply(w)
    BY <1>3 DEF AppendReply, Activated, Flushed, AnsweredStep, Answered
  <1>4. ASSUME NEW t \in Ticket, CreateTicket(w, t) PROVE AnsweredStep(w)
    BY <1>4 DEF CreateTicket, AnsweredStep, Answered
  <1>5. CASE FinishSweep(w)
    BY <1>5, AnsweredClose DEF FinishSweep
  <1>6. CASE SelectActionable(w)
    BY <1>6 DEF SelectActionable, AnsweredStep, Answered
  <1>7. ASSUME NEW t \in todo[w], Take(w, t) PROVE AnsweredStep(w)
    BY <1>7 DEF Take, AnsweredStep, Answered
  <1>8. CASE EscalateUnmatched(w)
    BY <1>8, AnsweredCommit DEF EscalateUnmatched
  <1>9. CASE Claim(w)
    BY <1>9, AnsweredCommit DEF Claim
  <1>10. CASE SendReply(w)
    <2>1. tk[w] \in Ticket
      BY <1>10 DEF SendReply, Thawed
    <2>2. sent' = [sent EXCEPT ![tk[w]] = IF @ < MaxSent THEN @ + 1 ELSE @]
          /\ status' = status /\ tk' = tk
      BY <1>10 DEF SendReply
    <2>3. sent'[tk[w]] > 0
      BY <2>1, <2>2, BoundsAssumption
    <2> QED
      BY <2>1, <2>2, <2>3 DEF AnsweredStep, Answered
  <1>11. CASE Finish(w)
    <2>1. PICK s \in Outcomes(w) : Commit(w, s)
      BY <1>11 DEF Finish
    <2>2. s = "resolved" => at[w] = "sent"
      BY DEF Outcomes
    <2> QED
      BY <1>11, <2>1, <2>2, AnsweredCommit DEF Finish
  <1>12. CASE FinishLoop(w)
    BY <1>12, AnsweredClose DEF FinishLoop
  <1>13. CASE Abort(w)
    BY <1>13, AnsweredClose DEF Abort
  <1> QED
    BY <1>1, <1>2, <1>3, <1>4, <1>5, <1>6, <1>7, <1>8, <1>9, <1>10, <1>11, <1>12, <1>13
       DEF Ingest, Handle

\* The in_app and llm runtimes, which resolve only behind a reply: however many
\* runs and ingest calls overlap and wherever they are cut off, no ticket is
\* closed without an e-mail to its customer.
THEOREM ClosedWasAnswered ==
    ASSUME Runtime # "flow", MaxSent # 0
    PROVE  Spec => []ResolvedWasAnswered
  <1>1. Init => AnsweredInv
    BY DEF Init, AnsweredInv, ResolvedWasAnswered, Answered
  <1>2. IInv /\ AnsweredInv /\ [Next]_vars => AnsweredInv'
    <2> SUFFICES ASSUME IInv, AnsweredInv, [Next]_vars PROVE AnsweredInv'
      OBVIOUS
    <2>1. CASE CustomerWrites \/ UNCHANGED vars
      BY <2>1 DEF CustomerWrites, Write, FollowUp, Arrives, vars, workerVars,
                  AnsweredInv, ResolvedWasAnswered, Answered
    <2>2. ASSUME NEW w \in Worker, Start(w) \/ Ingest(w) \/ Handle(w) \/ Abort(w)
          PROVE  AnsweredInv'
      <3>1. OthersKeep(w) /\ AnsweredStep(w)
        BY <2>2, ThawedStep, AnsweredByStep DEF IInv
      <3>2. at[w] = "sent" => tk[w] \in Ticket
        BY DEF IInv, Thawed
      <3>3. ResolvedWasAnswered'
        BY <3>1, <3>2 DEF AnsweredStep, AnsweredInv, ResolvedWasAnswered, Answered
      <3>4. ASSUME NEW v \in Worker \ {w}, at'[v] = "sent" PROVE sent'[tk'[v]] > 0
        <4>1. at[v] = "sent" /\ tk'[v] = tk[v] /\ tk[v] \in Ticket
          BY <3>1, <3>4 DEF OthersKeep, IInv, Thawed
        <4> QED
          BY <3>1, <4>1 DEF AnsweredStep, AnsweredInv, Answered
      <3> QED
        BY <3>1, <3>3, <3>4 DEF AnsweredStep, AnsweredInv, Answered
    <2> QED
      BY <2>1, <2>2 DEF Next
  <1>3. AnsweredInv => ResolvedWasAnswered
    BY DEF AnsweredInv
  <1> QED
    BY <1>1, <1>2, <1>3, Invariance, PTL DEF Spec

-----------------------------------------------------------------------------
(* A message is filed no more often than workers overlap. *)

\* The workers that stand before filing m.
Filing(m) == {w \in Worker : at[w] = "file" /\ cur[w] = m}

PerWorker ==
    \A m \in Nat : /\ IsFiniteSet(Filings(m))
                   /\ Cardinality(Filings(m)) + Cardinality(Filing(m)) <= Cardinality(Worker)

LEMMA FilingsAre ==
    ASSUME NEW m, NEW f
    PROVE  f \in Filings(m) <=>
              \E t \in Ticket : \E i \in DOMAIN inbound[t] : inbound[t][i] = m /\ f = <<t, i>>
  BY DEF Filings

\* Nothing new is filed, and nobody has come to file.
LEMMA FilingsFewer ==
    ASSUME IsFiniteSet(Worker), PerWorker, NEW m \in Nat,
           Filings(m)' \subseteq Filings(m), Filing(m)' \subseteq Filing(m)
    PROVE  /\ IsFiniteSet(Filings(m)')
           /\ Cardinality(Filings(m)') + Cardinality(Filing(m)') <= Cardinality(Worker)
  <1>1. Filing(m) \subseteq Worker
    BY DEF Filing
  <1>2. IsFiniteSet(Filing(m)) /\ IsFiniteSet(Filing(m)') /\ IsFiniteSet(Filings(m))
    BY <1>1, FS_Subset DEF PerWorker
  <1>3. /\ IsFiniteSet(Filings(m)') /\ Cardinality(Filings(m)') <= Cardinality(Filings(m))
        /\ Cardinality(Filing(m)') <= Cardinality(Filing(m))
    BY <1>2, FS_Subset
  <1>4. /\ Cardinality(Filings(m)) \in Nat /\ Cardinality(Filings(m)') \in Nat
        /\ Cardinality(Filing(m)) \in Nat /\ Cardinality(Filing(m)') \in Nat
        /\ Cardinality(Worker) \in Nat
    BY <1>2, <1>3, FS_CardinalityType
  <1> QED
    BY <1>3, <1>4 DEF PerWorker

\* A worker comes to file what nobody has filed yet.
LEMMA FilingsNone ==
    ASSUME IsFiniteSet(Worker), NEW m \in Nat, Filings(m)' = {}
    PROVE  /\ IsFiniteSet(Filings(m)')
           /\ Cardinality(Filings(m)') + Cardinality(Filing(m)') <= Cardinality(Worker)
  <1>1. Filing(m)' \subseteq Worker
    BY DEF Filing
  <1>2. IsFiniteSet(Filing(m)') /\ Cardinality(Filing(m)') <= Cardinality(Worker)
    BY <1>1, FS_Subset
  <1>3. Cardinality(Filing(m)') \in Nat /\ Cardinality(Worker) \in Nat
    BY <1>2, FS_CardinalityType
  <1> QED
    BY <1>2, <1>3, FS_EmptySet

\* A worker files: one filing more, one worker less that is about to.
LEMMA FilingsOneMore ==
    ASSUME IsFiniteSet(Worker), PerWorker, NEW m \in Nat, NEW w \in Filing(m), NEW f,
           Filings(m)' \subseteq Filings(m) \cup {f}, Filing(m)' = Filing(m) \ {w}
    PROVE  /\ IsFiniteSet(Filings(m)')
           /\ Cardinality(Filings(m)') + Cardinality(Filing(m)') <= Cardinality(Worker)
  <1>1. Filing(m) \subseteq Worker
    BY DEF Filing
  <1>2. IsFiniteSet(Filing(m)) /\ IsFiniteSet(Filings(m))
    BY <1>1, FS_Subset DEF PerWorker
  <1>3. /\ IsFiniteSet(Filings(m) \cup {f})
        /\ Cardinality(Filings(m) \cup {f}) \in {Cardinality(Filings(m)), Cardinality(Filings(m)) + 1}
    BY <1>2, FS_AddElement
  <1>4. IsFiniteSet(Filings(m)') /\ Cardinality(Filings(m)') <= Cardinality(Filings(m) \cup {f})
    BY <1>3, FS_Subset
  <1>5. IsFiniteSet(Filing(m)') /\ Cardinality(Filing(m)') = Cardinality(Filing(m)) - 1
    BY <1>2, FS_RemoveElement
  <1>6. /\ Cardinality(Filings(m)) \in Nat /\ Cardinality(Filings(m)') \in Nat
        /\ Cardinality(Filings(m) \cup {f}) \in Nat
        /\ Cardinality(Filing(m)) \in Nat /\ Cardinality(Filing(m)') \in Nat
        /\ Cardinality(Worker) \in Nat
    BY <1>2, <1>3, <1>4, <1>5, FS_CardinalityType
  <1> QED
    BY <1>3, <1>4, <1>5, <1>6 DEF PerWorker

\* q has what s has, and perhaps c at place n.
Gains(q, s, n, c) == \A i \in DOMAIN q : (i \in DOMAIN s /\ q[i] = s[i]) \/ (i = n /\ q[i] = c)

\* What is filed when the messages of ticket t become q.
LEMMA FilingsInto ==
    ASSUME TypeOK, NEW t \in Ticket, NEW q, NEW n, NEW m, NEW c,
           inbound' = [inbound EXCEPT ![t] = q], Gains(q, inbound[t], n, c)
    PROVE  Filings(m)' \subseteq Filings(m) \cup (IF m = c THEN {<<t, n>>} ELSE {})
  <1> SUFFICES ASSUME NEW f \in Filings(m)'
               PROVE  f \in Filings(m) \/ (m = c /\ f = <<t, n>>)
    OBVIOUS
  <1>1. PICK u \in Ticket : \E i \in DOMAIN inbound'[u] : inbound'[u][i] = m /\ f = <<u, i>>
    BY DEF Filings
  <1>2. PICK i \in DOMAIN inbound'[u] : inbound'[u][i] = m /\ f = <<u, i>>
    BY <1>1
  <1>3. CASE u # t
    BY <1>2, <1>3, FilingsAre DEF TypeOK
  <1>4. CASE u = t
    <2>1. inbound'[u] = q
      BY <1>4 DEF TypeOK
    <2> QED
      BY <1>2, <1>4, <2>1, FilingsAre DEF Gains
  <1> QED
    BY <1>3, <1>4

\* A worker files the message it stands before.
LEMMA FilingsAtFile ==
    ASSUME IsFiniteSet(Worker), TypeOK, PerWorker, NEW w \in Worker, at[w] = "file", NEW f,
           at' = [at EXCEPT ![w] = "lookup"], cur' = cur,
           \A m \in Nat : Filings(m)' \subseteq Filings(m) \cup (IF m = cur[w] THEN {f} ELSE {})
    PROVE  PerWorker'
  <1> SUFFICES ASSUME NEW m \in Nat
               PROVE  /\ IsFiniteSet(Filings(m)')
                      /\ Cardinality(Filings(m)') + Cardinality(Filing(m)') <= Cardinality(Worker)
    BY DEF PerWorker
  <1>1. Filing(m)' = Filing(m) \ {w}
    BY DEF Filing, TypeOK
  <1>2. CASE m = cur[w]
    <2>1. w \in Filing(m)
      BY <1>2 DEF Filing
    <2>2. Filings(m)' \subseteq Filings(m) \cup {f}
      BY <1>2
    <2> QED
      BY <1>1, <2>1, <2>2, FilingsOneMore
  <1>3. CASE m # cur[w]
    <2>1. Filings(m)' \subseteq Filings(m)
      BY <1>3
    <2> QED
      BY <1>1, <2>1, FilingsFewer
  <1> QED
    BY <1>2, <1>3

\* A step that files nothing and brings nobody to file.
LEMMA FilingsElsewhere ==
    ASSUME IsFiniteSet(Worker), PerWorker, inbound' = inbound,
           \A w \in Worker : at'[w] = "file" => at[w] = "file" /\ cur'[w] = cur[w]
    PROVE  PerWorker'
  <1> SUFFICES ASSUME NEW m \in Nat
               PROVE  /\ IsFiniteSet(Filings(m)')
                      /\ Cardinality(Filings(m)') + Cardinality(Filing(m)') <= Cardinality(Worker)
    BY DEF PerWorker
  <1>1. Filings(m)' = Filings(m)
    BY DEF Filings
  <1>2. Filing(m)' \subseteq Filing(m)
    BY DEF Filing
  <1> QED
    BY <1>1, <1>2, FilingsFewer

LEMMA FilingsStep ==
    ASSUME IsFiniteSet(Worker), TypeOK, PerWorker, NEW w \in Worker,
           Start(w) \/ Ingest(w) \/ Handle(w) \/ Abort(w)
    PROVE  PerWorker'
  <1>1. ASSUME NEW m \in left[w], LookUp(w, m) PROVE PerWorker'
    <2>1. CASE UNCHANGED <<at, cur, tk, held>>
      BY <1>1, <2>1, FilingsElsewhere DEF LookUp, deskVars
    <2>2. CASE ~Seen(m) /\ ToFile(w, m)
      <3> SUFFICES ASSUME NEW k \in Nat
                   PROVE  /\ IsFiniteSet(Filings(k)')
                          /\ Cardinality(Filings(k)') + Cardinality(Filing(k)') <= Cardinality(Worker)
        BY DEF PerWorker
      <3>1. /\ inbound' = inbound /\ at' = [at EXCEPT ![w] = "file"]
            /\ cur' = [cur EXCEPT ![w] = m]
        BY <1>1, <2>2 DEF LookUp, ToFile, deskVars
      <3>2. Filings(k)' = Filings(k)
        BY <3>1 DEF Filings
      <3>3. CASE k = m
        <4>1. Filings(k) = {}
          BY <2>2, <3>3 DEF Seen, Filings
        <4> QED
          BY <3>2, <4>1, FilingsNone
      <3>4. CASE k # m
        <4>1. Filing(k)' \subseteq Filing(k)
          BY <1>1, <3>1, <3>4 DEF Filing, TypeOK, LookUp
        <4> QED
          BY <3>2, <4>1, FilingsFewer
      <3> QED
        BY <3>3, <3>4
    <2> QED
      BY <1>1, <2>1, <2>2 DEF LookUp
  <1>2. CASE AppendReply(w)
    <2>1. PICK t \in Ticket : t = tk[w]
      BY <1>2 DEF AppendReply, TypeOK
    <2>2. PICK c \in Nat : c = cur[w]
      BY DEF TypeOK
    <2>3. PICK n : n = Len(inbound[t]) + 1
      OBVIOUS
    <2>4. PICK q : q = Append(inbound[t], c)
      OBVIOUS
    <2>5. inbound[t] \in Seq(Nat)
      BY DEF TypeOK
    <2>6. Gains(q, inbound[t], n, c)
      BY <2>3, <2>4, <2>5 DEF Gains
    <2>7. /\ inbound' = [inbound EXCEPT ![t] = q] /\ at' = [at EXCEPT ![w] = "lookup"] /\ cur' = cur
          /\ at[w] = "file"
      BY <1>2, <2>1, <2>2, <2>4 DEF AppendReply
    <2>8. \A m : Filings(m)' \subseteq Filings(m) \cup (IF m = c THEN {<<t, n>>} ELSE {})
      BY <2>6, <2>7, FilingsInto
    <2>9. PICK f : f = <<t, n>>
      OBVIOUS
    <2> QED
      BY <2>2, <2>7, <2>8, <2>9, FilingsAtFile
  <1>3. ASSUME NEW t \in Ticket, CreateTicket(w, t) PROVE PerWorker'
    <2>1. PICK c \in Nat : c = cur[w]
      BY DEF TypeOK
    <2>2. PICK q : q = <<c>>
      OBVIOUS
    <2>3. Gains(q, inbound[t], 1, c)
      BY <2>2 DEF Gains
    <2>4. /\ inbound' = [inbound EXCEPT ![t] = q] /\ at' = [at EXCEPT ![w] = "lookup"] /\ cur' = cur
          /\ at[w] = "file"
      BY <1>3, <2>1, <2>2 DEF CreateTicket
    <2>5. \A m : Filings(m)' \subseteq Filings(m) \cup (IF m = c THEN {<<t, 1>>} ELSE {})
      BY <2>3, <2>4, FilingsInto
    <2>6. PICK f : f = <<t, 1>>
      OBVIOUS
    <2> QED
      BY <2>1, <2>4, <2>5, <2>6, FilingsAtFile
  <1>4. CASE Start(w) \/ FinishSweep(w) \/ Handle(w) \/ Abort(w)
    BY <1>4, FilingsElsewhere
       DEF Start, FinishSweep, Handle, SelectActionable, Take, EscalateUnmatched, Claim, SendReply,
           Finish, FinishLoop, Abort, CloseSession, deskVars, TypeOK
  <1> QED
    BY <1>1, <1>2, <1>3, <1>4 DEF Ingest

\* However many sweeps overlap and wherever they are cut off: a message is filed
\* no more often than there are workers.
THEOREM FiledOnceByEach ==
    ASSUME IsFiniteSet(Worker)
    PROVE  Spec => []FiledOncePerWorker
  <1>1. Init => PerWorker
    <2> SUFFICES ASSUME Init, NEW m \in Nat
                 PROVE  /\ IsFiniteSet(Filings(m))
                        /\ Cardinality(Filings(m)) + Cardinality(Filing(m)) <= Cardinality(Worker)
      BY DEF PerWorker
    <2>1. Filings(m) = {} /\ Filing(m) = {}
      BY DEF Init, Filings, Filing
    <2> QED
      BY <2>1, FS_EmptySet, FS_CardinalityType
  <1>2. TypeOK /\ PerWorker /\ [Next]_vars => PerWorker'
    <2> SUFFICES ASSUME TypeOK, PerWorker, [Next]_vars PROVE PerWorker'
      OBVIOUS
    <2>1. CASE CustomerWrites \/ UNCHANGED vars
      BY <2>1, FilingsElsewhere DEF CustomerWrites, Write, FollowUp, Arrives, vars, workerVars
    <2> QED
      BY <2>1, FilingsStep DEF Next
  <1>3. TypeOK /\ PerWorker => FiledOncePerWorker
    <2> SUFFICES ASSUME TypeOK, PerWorker, NEW m \in 1 .. Len(mail)
                 PROVE  Cardinality(Filings(m)) <= Cardinality(Worker)
      BY DEF FiledOncePerWorker
    <2>1. m \in Nat
      BY DEF TypeOK
    <2>2. Filing(m) \subseteq Worker
      BY DEF Filing
    <2>3. /\ Cardinality(Filing(m)) \in Nat /\ Cardinality(Filings(m)) \in Nat
          /\ Cardinality(Worker) \in Nat
      BY <2>1, <2>2, FS_Subset, FS_CardinalityType DEF PerWorker
    <2> QED
      BY <2>1, <2>3 DEF PerWorker
  <1> QED
    BY <1>1, <1>2, <1>3, TypeCorrect, PTL DEF Spec

-----------------------------------------------------------------------------
(* One worker at a time: what a run reads is still so when it commits.      *)

\* Its copies are the rows.
Agrees(w) == \A t \in Ticket : held[w][t] \in {"none", status[t]}

\* What it is about to file is filed nowhere, and its ticket is open.
FilesNew(w) ==
    /\ left[w] \subseteq 1 .. Len(mail)
    /\ at[w] = "file" =>
          /\ cur[w] \in 1 .. Len(mail) /\ ~Seen(cur[w])
          /\ tk[w] # NoTicket =>
                held[w][tk[w]] = status[tk[w]] /\ status[tk[w]] \notin {"absent", "resolved"}

\* What it handles, and will handle, is actionable; it has read the last reply.
OnActionable(w) ==
    /\ \A t \in todo[w] : status[t] \in Actionable
    /\ at[w] \in {"handle", "work", "sent"} =>
          tk[w] \in Ticket \ todo[w] /\ status[tk[w]] \in Actionable
    /\ at[w] \in {"work", "sent"} => looked[tk[w]] = Len(inbound[tk[w]])

Solo(w) == Agrees(w) /\ FilesNew(w) /\ OnActionable(w)

\* A row that does not exist yet has no messages.
RowsStartEmpty == \A t \in Ticket : status[t] = "absent" => inbound[t] = <<>>

DeskInOrder == FiledOnce /\ NoReplyOverlooked /\ RowsStartEmpty /\ Len(mail) <= MaxMail

SoloInv == DeskInOrder /\ \A w \in Worker : Solo(w)

LEMMA SoloMail ==
    ASSUME TypeOK, SoloInv, CustomerWrites
    PROVE  SoloInv'
  <1>1. PICK m : mail' = Append(mail, m) /\ Len(mail) < MaxMail
    BY DEF CustomerWrites, Write, FollowUp, Arrives
  <1>2. UNCHANGED <<status, inbound, looked, at, left, cur, tk, todo, held>>
    BY DEF CustomerWrites, Write, FollowUp, Arrives, workerVars
  <1>3. Len(mail') = Len(mail) + 1 /\ Len(mail) \in Nat
    BY <1>1 DEF TypeOK
  <1>4. DeskInOrder'
    BY <1>1, <1>2, <1>3, BoundsAssumption
       DEF SoloInv, DeskInOrder, FiledOnce, NoReplyOverlooked, RowsStartEmpty
  <1>5. ASSUME NEW w \in Worker PROVE Solo(w)'
    <2>1. Agrees(w)' /\ OnActionable(w)'
      BY <1>2 DEF SoloInv, Solo, Agrees, OnActionable
    <2>2. 1 .. Len(mail) \subseteq 1 .. Len(mail')
      BY <1>3
    <2>3. FilesNew(w)'
      BY <1>2, <2>2 DEF SoloInv, Solo, FilesNew, Seen
    <2> QED
      BY <2>1, <2>3 DEF Solo
  <1> QED
    BY <1>4, <1>5 DEF SoloInv

LEMMA SoloClose ==
    ASSUME TypeOK, NEW w \in Worker, CloseSession(w), UNCHANGED deskVars
    PROVE  Solo(w)'
  BY DEF TypeOK, CloseSession, NothingHeld, deskVars, Solo, Agrees, FilesNew, OnActionable

\* A commit of the run on the ticket it handles.
LEMMA SoloCommit ==
    ASSUME IInv, NEW w \in Worker, Solo(w), at[w] \in {"handle", "work", "sent"},
           NEW s, Commit(w, s)
    PROVE  /\ tk[w] \in Ticket
           /\ status' = [status EXCEPT ![tk[w]] = s]
           /\ Agrees(w)'
  <1>1. PICK t \in Ticket : t = tk[w]
    BY DEF IInv, Thawed
  <1>2. held[w][t] = status[t]
    BY <1>1 DEF IInv, Thawed, Solo, Agrees
  <1>3. status' = [status EXCEPT ![t] = s] /\ held' = [held EXCEPT ![w][t] = s]
    BY <1>1, <1>2 DEF Commit, Flushed, IInv, TypeOK
  <1> QED
    BY <1>1, <1>3 DEF IInv, TypeOK, Solo, Agrees

\* The reads of the ingest loop.
LEMMA SoloLookUp ==
    ASSUME IInv, NEW w \in Worker, Solo(w), NEW m \in left[w], LookUp(w, m)
    PROVE  Solo(w)'
  <1> USE DEF IInv, TypeOK, deskVars
  <1>1. left'[w] \subseteq 1 .. Len(mail') /\ m \in 1 .. Len(mail)
    BY DEF LookUp, Solo, FilesNew
  <1>2. todo' = todo /\ at[w] = "lookup" /\ UNCHANGED <<mail, status, inbound, looked>>
    BY DEF LookUp
  <1>3. CASE UNCHANGED <<at, cur, tk, held>>
    BY <1>1, <1>2, <1>3 DEF Solo, Agrees, FilesNew, OnActionable
  <1>4. CASE ~Seen(m) /\ ToFile(w, m)
    <2>1. PICK t \in OpenTicketForReply(m) :
             /\ at' = [at EXCEPT ![w] = "file"]
             /\ cur' = [cur EXCEPT ![w] = m]
             /\ tk' = [tk EXCEPT ![w] = t]
             /\ held' = [held EXCEPT ![w] = HeldAfterLookUp(w, t)]
      BY <1>4 DEF ToFile
    <2>2. t = NoTicket \/ (t \in Ticket /\ status[t] \notin {"absent", "resolved"})
      BY DEF OpenTicketForReply, Existing, Exists
    <2>3. \A u \in Ticket : Loaded(w, u) = status[u]
      BY DEF Loaded, Solo, Agrees
    <2>4. held'[w] = HeldAfterLookUp(w, t)
      BY <2>1
    <2>5. Agrees(w)'
      BY <1>2, <2>3, <2>4 DEF HeldAfterLookUp, Solo, Agrees
    <2>6. t \in Ticket => held'[w][t] = status[t]
      BY <2>3, <2>4 DEF HeldAfterLookUp
    <2>7. at'[w] = "file" /\ cur'[w] = m /\ tk'[w] = t /\ ~Seen(m)'
      BY <1>2, <1>4, <2>1 DEF Seen
    <2>8. FilesNew(w)'
      BY <1>1, <1>2, <2>2, <2>6, <2>7 DEF FilesNew
    <2>9. OnActionable(w)'
      BY <1>2, <2>7 DEF Solo, OnActionable
    <2> QED
      BY <2>5, <2>8, <2>9 DEF Solo
  <1> QED
    BY <1>3, <1>4 DEF LookUp

\* What the filing of the worker's message changes.
LEMMA SoloAppend ==
    ASSUME IInv, NEW w \in Worker, Solo(w), AppendReply(w)
    PROVE  \E t \in Ticket :
              /\ t = tk[w] /\ status[t] \notin {"absent", "resolved"} /\ cur[w] \in 1 .. Len(mail)
              /\ ~Seen(cur[w])
              /\ inbound' = [inbound EXCEPT ![t] = Append(@, cur[w])]
              /\ status' = [status EXCEPT ![t] = Activated(@)]
              /\ held' = [held EXCEPT ![w][t] = Activated(status[t])]
  <1>1. PICK t \in Ticket : t = tk[w]
    BY DEF AppendReply, IInv, TypeOK
  <1>2. /\ held[w][t] = status[t] /\ status[t] \notin {"absent", "resolved"}
        /\ cur[w] \in 1 .. Len(mail) /\ ~Seen(cur[w])
    BY <1>1 DEF AppendReply, Solo, FilesNew, NoTicket, Ticket
  <1>3. Flushed(status[t], Activated(status[t]), status[t]) = Activated(status[t])
    BY DEF Flushed
  <1>4. status' = [status EXCEPT ![t] = Activated(@)]
    BY <1>1, <1>2, <1>3 DEF AppendReply
  <1>5. held' = [held EXCEPT ![w][t] = Activated(status[t])]
    BY <1>1, <1>2 DEF AppendReply
  <1> QED
    BY <1>1, <1>2, <1>4, <1>5 DEF AppendReply

LEMMA SoloStep ==
    ASSUME IInv, NEW w \in Worker, Solo(w),
           Start(w) \/ Ingest(w) \/ Handle(w) \/ Abort(w)
    PROVE  Solo(w)'
  <1> USE DEF IInv, TypeOK, deskVars
  <1>1. CASE Start(w)
    <2>1. todo[w] = {}
      BY <1>1 DEF Start, Thawed
    <2> QED
      BY <1>1, <2>1 DEF Start, Solo, Agrees, FilesNew, OnActionable
  <1>2. ASSUME NEW m \in left[w], LookUp(w, m) PROVE Solo(w)'
    BY <1>2, SoloLookUp
  <1>3. CASE AppendReply(w)
    <2>1. PICK t \in Ticket :
             /\ status' = [status EXCEPT ![t] = Activated(@)]
             /\ held' = [held EXCEPT ![w][t] = Activated(status[t])]
      BY <1>3, SoloAppend
    <2>2. Agrees(w)'
      BY <2>1 DEF Solo, Agrees
    <2>3. todo[w] = {} /\ todo' = todo /\ at'[w] = "lookup" /\ left' = left /\ mail' = mail
      BY <1>3 DEF AppendReply, Thawed
    <2> QED
      BY <2>2, <2>3 DEF Solo, FilesNew, OnActionable
  <1>4. ASSUME NEW t \in Ticket, CreateTicket(w, t) PROVE Solo(w)'
    <2>1. todo[w] = {} /\ todo' = todo /\ at'[w] = "lookup" /\ left' = left /\ mail' = mail
      BY <1>4 DEF CreateTicket, Thawed
    <2>2. Agrees(w)'
      BY <1>4 DEF CreateTicket, Solo, Agrees
    <2> QED
      BY <2>1, <2>2 DEF Solo, FilesNew, OnActionable
  <1>5. CASE FinishSweep(w)
    BY <1>5, SoloClose DEF FinishSweep
  <1>6. CASE SelectActionable(w)
    BY <1>6 DEF SelectActionable, Solo, Agrees, FilesNew, OnActionable
  <1>7. ASSUME NEW t \in todo[w], Take(w, t) PROVE Solo(w)'
    BY <1>7 DEF Take, Solo, Agrees, FilesNew, OnActionable
  <1>8. CASE EscalateUnmatched(w) \/ Finish(w)
    <2>1. PICK s : Commit(w, s)
      BY <1>8 DEF EscalateUnmatched, Finish
    <2>2. /\ at[w] \in {"handle", "work", "sent"} /\ at'[w] = "next"
          /\ UNCHANGED <<mail, left, todo>>
      BY <1>8 DEF EscalateUnmatched, Finish
    <2>3. /\ tk[w] \in Ticket /\ status' = [status EXCEPT ![tk[w]] = s] /\ Agrees(w)'
      BY <2>1, <2>2, SoloCommit
    <2> QED
      BY <2>2, <2>3 DEF Solo, FilesNew, OnActionable
  <1>9. CASE Claim(w)
    <2>1. PICK t \in Ticket : t = tk[w] /\ t \notin todo[w] /\ status[t] \in Actionable
      BY <1>9 DEF Claim, Solo, OnActionable
    <2>2. /\ at[w] = "handle" /\ at'[w] = "work" /\ looked' = [looked EXCEPT ![t] = Len(inbound[t])]
          /\ UNCHANGED <<mail, inbound, left, todo, tk>>
      BY <1>9, <2>1 DEF Claim
    <2>3. Agrees(w)' /\ status' \in {status, [status EXCEPT ![t] = "auto_handling"]}
      <3>1. CASE UNCHANGED <<status, held, age>>
        BY <3>1 DEF Solo, Agrees
      <3>2. CASE Commit(w, "auto_handling")
        BY <2>1, <2>2, <3>2, SoloCommit
      <3> QED
        BY <1>9, <3>1, <3>2 DEF Claim
    <2>4. \A u \in Ticket : status[u] \in Actionable => status'[u] \in Actionable
      BY <2>3 DEF Actionable
    <2> QED
      BY <2>1, <2>2, <2>3, <2>4 DEF Solo, FilesNew, OnActionable
  <1>10. CASE SendReply(w)
    BY <1>10 DEF SendReply, Solo, Agrees, FilesNew, OnActionable
  <1>11. CASE FinishLoop(w)
    BY <1>11, SoloClose DEF FinishLoop
  <1>12. CASE Abort(w)
    BY <1>12, SoloClose DEF Abort
  <1> QED
    BY <1>1, <1>2, <1>3, <1>4, <1>5, <1>6, <1>7, <1>8, <1>9, <1>10, <1>11, <1>12
       DEF Ingest, Handle

\* Filing what is filed nowhere, into ticket t.
LEMMA FiledOnceMore ==
    ASSUME TypeOK, FiledOnce, NEW t \in Ticket, NEW m, ~Seen(m),
           inbound' = [inbound EXCEPT ![t] = Append(@, m)] \/ inbound' = [inbound EXCEPT ![t] = <<m>>]
    PROVE  FiledOnce'
  <1>1. \A u \in Ticket : inbound[u] \in Seq(Nat)
    BY DEF TypeOK
  <1>2. \A u \in Ticket \ {t} : inbound'[u] = inbound[u]
    BY DEF TypeOK
  <1>3. PICK n : Gains(inbound'[t], inbound[t], n, m)
    <2>1. CASE inbound' = [inbound EXCEPT ![t] = Append(@, m)]
      <3>1. inbound'[t] = Append(inbound[t], m)
        BY <2>1 DEF TypeOK
      <3>2. Gains(Append(inbound[t], m), inbound[t], Len(inbound[t]) + 1, m)
        BY <1>1 DEF Gains
      <3> QED
        BY <3>1, <3>2
    <2>2. CASE inbound' = [inbound EXCEPT ![t] = <<m>>]
      <3>1. inbound'[t] = <<m>>
        BY <2>2 DEF TypeOK
      <3>2. Gains(<<m>>, inbound[t], 1, m)
        BY DEF Gains
      <3> QED
        BY <3>1, <3>2
    <2> QED
      BY <2>1, <2>2
  <1>4. \A u \in Ticket : \A i \in DOMAIN inbound[u] : inbound[u][i] # m
    BY DEF Seen
  <1>5. ASSUME NEW u \in Ticket, NEW i \in DOMAIN inbound'[u]
        PROVE  \/ i \in DOMAIN inbound[u] /\ inbound'[u][i] = inbound[u][i] /\ inbound'[u][i] # m
               \/ u = t /\ i = n /\ inbound'[u][i] = m
    BY <1>2, <1>3, <1>4 DEF Gains
  <1> QED
    BY <1>5 DEF FiledOnce

\* What leaves status, replies and readings of all tickets but t as they are.
LEMMA OverlookedElsewhere ==
    ASSUME NoReplyOverlooked, NEW t,
           \A u \in Ticket \ {t} :
              status'[u] = status[u] /\ inbound'[u] = inbound[u] /\ looked'[u] = looked[u],
           t \in Ticket => \/ status'[t] \notin {"awaiting_customer", "resolved"}
                           \/ looked'[t] = Len(inbound'[t])
    PROVE  NoReplyOverlooked'
  BY DEF NoReplyOverlooked

LEMMA DeskStep ==
    ASSUME IInv, DeskInOrder, NEW w \in Worker, Solo(w),
           Start(w) \/ Ingest(w) \/ Handle(w) \/ Abort(w)
    PROVE  DeskInOrder'
  <1> USE DEF IInv, deskVars
  <1>1. CASE AppendReply(w)
    <2>1. PICK t \in Ticket :
             /\ status[t] \notin {"absent", "resolved"} /\ ~Seen(cur[w])
             /\ inbound' = [inbound EXCEPT ![t] = Append(@, cur[w])]
             /\ status' = [status EXCEPT ![t] = Activated(@)]
      BY <1>1, SoloAppend
    <2>2. UNCHANGED <<mail, looked>>
      BY <1>1 DEF AppendReply
    <2>3. FiledOnce'
      BY <2>1, FiledOnceMore DEF DeskInOrder
    <2>4. status'[t] \notin {"awaiting_customer", "resolved"}
      BY <2>1 DEF TypeOK, Activated
    <2>5. NoReplyOverlooked'
      BY <2>1, <2>2, <2>4, OverlookedElsewhere DEF DeskInOrder, TypeOK
    <2>6. RowsStartEmpty'
      BY <2>1 DEF DeskInOrder, RowsStartEmpty, Activated, TypeOK
    <2> QED
      BY <2>2, <2>3, <2>5, <2>6 DEF DeskInOrder
  <1>2. ASSUME NEW t \in Ticket, CreateTicket(w, t) PROVE DeskInOrder'
    <2>1. ~Seen(cur[w])
      BY <1>2 DEF CreateTicket, Solo, FilesNew
    <2>2. /\ inbound' = [inbound EXCEPT ![t] = <<cur[w]>>] /\ status' = [status EXCEPT ![t] = "new"]
          /\ UNCHANGED <<mail, looked>>
      BY <1>2 DEF CreateTicket
    <2>3. FiledOnce'
      BY <2>1, <2>2, FiledOnceMore DEF DeskInOrder
    <2>4. NoReplyOverlooked'
      BY <2>2, OverlookedElsewhere DEF DeskInOrder, TypeOK
    <2>5. RowsStartEmpty'
      BY <2>2 DEF DeskInOrder, RowsStartEmpty, TypeOK
    <2> QED
      BY <2>2, <2>3, <2>4, <2>5 DEF DeskInOrder
  <1>3. ASSUME UNCHANGED <<mail, inbound>>, NoReplyOverlooked',
               \A u \in Ticket : status'[u] = "absent" => status[u] = "absent"
        PROVE  DeskInOrder'
    BY <1>3 DEF DeskInOrder, FiledOnce, RowsStartEmpty
  <1>4. CASE EscalateUnmatched(w) \/ Finish(w)
    <2>1. PICK s : /\ Commit(w, s) /\ s # "absent"
                   /\ s = "needs_rep" \/ at[w] \in {"work", "sent"}
      BY <1>4 DEF EscalateUnmatched, Finish, Outcomes
    <2>2. at[w] \in {"handle", "work", "sent"} /\ UNCHANGED <<mail, inbound, looked>>
      BY <1>4 DEF EscalateUnmatched, Finish
    <2>3. PICK t \in Ticket : t = tk[w] /\ status' = [status EXCEPT ![t] = s]
      BY <2>1, <2>2, SoloCommit
    <2>4. s = "needs_rep" \/ looked[t] = Len(inbound[t])
      BY <2>1, <2>3 DEF Solo, OnActionable
    <2>5. NoReplyOverlooked'
      BY <2>2, <2>3, <2>4, OverlookedElsewhere DEF DeskInOrder, TypeOK
    <2>6. \A u \in Ticket : status'[u] = "absent" => status[u] = "absent"
      BY <2>1, <2>3 DEF TypeOK
    <2> QED
      BY <1>3, <2>2, <2>5, <2>6
  <1>5. CASE Claim(w)
    <2>1. PICK t \in Ticket : t = tk[w]
      BY <1>5 DEF Claim, Solo, OnActionable
    <2>2. /\ looked' = [looked EXCEPT ![t] = Len(inbound[t])] /\ UNCHANGED <<mail, inbound>>
          /\ status' = [status EXCEPT ![t] = status'[t]]
      BY <1>5, <2>1 DEF Claim, Commit, TypeOK
    <2>3. NoReplyOverlooked'
      BY <2>2, OverlookedElsewhere DEF DeskInOrder, TypeOK
    <2>4. \A u \in Ticket : status'[u] = "absent" => status[u] = "absent"
      <3>1. CASE UNCHANGED status
        BY <3>1
      <3>2. CASE Commit(w, "auto_handling")
        <4>1. at[w] = "handle"
          BY <1>5 DEF Claim
        <4>2. status' = [status EXCEPT ![t] = "auto_handling"]
          BY <2>1, <3>2, <4>1, SoloCommit
        <4> QED
          BY <4>2 DEF TypeOK
      <3> QED
        BY <1>5, <3>1, <3>2 DEF Claim
    <2> QED
      BY <1>3, <2>2, <2>3, <2>4
  <1>6. ASSUME UNCHANGED <<mail, inbound, status, looked>> PROVE DeskInOrder'
    BY <1>6 DEF DeskInOrder, FiledOnce, NoReplyOverlooked, RowsStartEmpty
  <1> QED
    BY <1>1, <1>2, <1>4, <1>5, <1>6
       DEF Ingest, Handle, Start, LookUp, FinishSweep, SelectActionable, Take, SendReply, FinishLoop,
           Abort

LEMMA SoloInvariance ==
    ASSUME \A v, w \in Worker : v = w
    PROVE  Spec => []SoloInv
  <1>1. Init => SoloInv
    BY BoundsAssumption
       DEF Init, SoloInv, Solo, Agrees, FilesNew, OnActionable, DeskInOrder, FiledOnce,
           NoReplyOverlooked, RowsStartEmpty, NothingHeld
  <1>2. IInv /\ SoloInv /\ [Next]_vars => SoloInv'
    <2> SUFFICES ASSUME IInv, SoloInv, [Next]_vars PROVE SoloInv'
      OBVIOUS
    <2>1. CASE CustomerWrites
      BY <2>1, SoloMail DEF IInv
    <2>2. CASE UNCHANGED vars
      BY <2>2 DEF vars, SoloInv, Solo, Agrees, FilesNew, OnActionable, Seen, DeskInOrder, FiledOnce,
                  NoReplyOverlooked, RowsStartEmpty
    <2>3. ASSUME NEW w \in Worker, Start(w) \/ Ingest(w) \/ Handle(w) \/ Abort(w)
          PROVE  SoloInv'
      <3>1. DeskInOrder' /\ Solo(w)'
        BY <2>3, DeskStep, SoloStep DEF SoloInv
      <3>2. ASSUME NEW v \in Worker PROVE Solo(v)'
        <4>1. v = w
          OBVIOUS
        <4> QED
          BY <3>1, <4>1
      <3> QED
        BY <3>1, <3>2 DEF SoloInv
    <2> QED
      BY <2>1, <2>2, <2>3 DEF Next
  <1> QED
    BY <1>1, <1>2, Invariance, PTL DEF Spec

\* One worker at a time, every runtime: however often the listing repeats a
\* message and wherever a run is cut off, it is filed once.
THEOREM FiledOnceForOneWorker ==
    ASSUME \A v, w \in Worker : v = w
    PROVE  Spec => []FiledOnce
  <1>1. SoloInv => FiledOnce
    BY DEF SoloInv, DeskInOrder
  <1> QED
    BY <1>1, SoloInvariance, PTL

\* One worker at a time, every runtime: no ticket is closed, or parked with its
\* customer, over a reply that no run has read.
THEOREM RepliesReadForOneWorker ==
    ASSUME \A v, w \in Worker : v = w
    PROVE  Spec => []NoReplyOverlooked
  <1>1. SoloInv => NoReplyOverlooked
    BY DEF SoloInv, DeskInOrder
  <1> QED
    BY <1>1, SoloInvariance, PTL

-----------------------------------------------------------------------------
(* One worker at a time: the desk implements TicketLanes. *)

LaneMap == [t \in Ticket |-> LaneOf(t)]
PlaceMap == [m \in 1 .. MaxMail |-> PlaceOf(m)]

\* Where a filed message is, now and after the step.
LEMMA PlaceIs ==
    ASSUME FiledOnce, FiledOnce', NEW m, NEW t \in Ticket
    PROVE  /\ (\E i \in DOMAIN inbound[t] : inbound[t][i] = m) => Seen(m) /\ PlaceOf(m) = t
           /\ (\E i \in DOMAIN inbound'[t] : inbound'[t][i] = m) => Seen(m)' /\ PlaceOf(m)' = t
  <1>1. ASSUME NEW i \in DOMAIN inbound[t], inbound[t][i] = m
        PROVE  Seen(m) /\ PlaceOf(m) = t
    <2>1. Seen(m)
      BY <1>1 DEF Seen
    <2>2. \A u \in Ticket : (\E j \in DOMAIN inbound[u] : inbound[u][j] = m) => u = t
      BY <1>1 DEF FiledOnce
    <2> QED
      BY <1>1, <2>1, <2>2 DEF PlaceOf
  <1>2. ASSUME NEW i \in DOMAIN inbound'[t], inbound'[t][i] = m
        PROVE  Seen(m)' /\ PlaceOf(m)' = t
    <2>1. Seen(m)'
      BY <1>2 DEF Seen
    <2>2. \A u \in Ticket : (\E j \in DOMAIN inbound'[u] : inbound'[u][j] = m) => u = t
      BY <1>2 DEF FiledOnce
    <2> QED
      BY <1>2, <2>1, <2>2 DEF PlaceOf
  <1> QED
    BY <1>1, <1>2

\* A message stays where it is when every ticket has it that had it.
LEMMA PlaceKept ==
    ASSUME FiledOnce, FiledOnce', NEW m,
           \A u \in Ticket : (\E i \in DOMAIN inbound'[u] : inbound'[u][i] = m)
                                <=> (\E i \in DOMAIN inbound[u] : inbound[u][i] = m)
    PROVE  PlaceOf(m)' = PlaceOf(m)
  <1>1. Seen(m)' <=> Seen(m)
    BY DEF Seen
  <1>2. CASE Seen(m)
    <2>1. PICK t \in Ticket : \E i \in DOMAIN inbound[t] : inbound[t][i] = m
      BY <1>2 DEF Seen
    <2> QED
      BY <2>1, PlaceIs
  <1>3. CASE ~Seen(m)
    BY <1>1, <1>3 DEF PlaceOf
  <1> QED
    BY <1>2, <1>3

LEMMA PlacesKept ==
    ASSUME FiledOnce, inbound' = inbound
    PROVE  PlaceMap' = PlaceMap
  <1>1. FiledOnce'
    BY DEF FiledOnce
  <1>2. \A m : PlaceOf(m)' = PlaceOf(m)
    BY <1>1, PlaceKept
  <1> QED
    BY <1>2 DEF PlaceMap

\* A commit on an actionable ticket leaves it open, or settles it.
LEMMA SettleStep ==
    ASSUME TypeOK, FiledOnce, inbound' = inbound, NEW t \in Ticket, status[t] \in Actionable,
           NEW s \in {"auto_handling", "awaiting_customer", "needs_rep", "resolved"},
           status' = [status EXCEPT ![t] = s]
    PROVE  UNCHANGED Lanes!lanes \/ Lanes!Settle(t)
  <1>1. PlaceMap' = PlaceMap
    BY PlacesKept
  <1>2. \A u \in Ticket \ {t} : LaneOf(u)' = LaneOf(u)
    BY DEF LaneOf, TypeOK
  <1>3. LaneOf(t) = "open"
    BY DEF LaneOf, Actionable
  <1>4. LaneOf(t)' = CASE s = "auto_handling" -> "open" [] s = "awaiting_customer" -> "waiting"
                       [] s = "needs_rep" -> "rep" [] s = "resolved" -> "closed"
    BY DEF LaneOf, Actionable, TypeOK
  <1>5. PICK l \in {"open", "waiting", "rep", "closed"} : l = LaneOf(t)'
    BY <1>4
  <1>6. LaneMap' = [LaneMap EXCEPT ![t] = l]
    BY <1>2, <1>5 DEF LaneMap
  <1>7. CASE l = "open"
    BY <1>1, <1>3, <1>6, <1>7 DEF LaneMap, PlaceMap, Lanes!lanes
  <1>8. CASE l # "open"
    BY <1>1, <1>3, <1>6, <1>8 DEF LaneMap, PlaceMap, Lanes!Settle
  <1> QED
    BY <1>7, <1>8

\* Filing a message that is filed nowhere.
LEMMA FileStep ==
    ASSUME TypeOK, FiledOnce, FiledOnce', NEW t \in Ticket, NEW m \in 1 .. MaxMail, ~Seen(m),
           \/ inbound' = [inbound EXCEPT ![t] = Append(@, m)] /\ status[t] # "absent"
           \/ inbound' = [inbound EXCEPT ![t] = <<m>>] /\ inbound[t] = <<>>,
           status[t] # "resolved",
           \/ status' = [status EXCEPT ![t] = Activated(@)] /\ status[t] # "absent"
           \/ status' = [status EXCEPT ![t] = "new"] /\ status[t] = "absent"
    PROVE  Lanes!File(m, t)
  <1>1. PlaceOf(m) = NoTicket
    BY DEF PlaceOf
  <1>2. \A u \in Ticket \ {t} : inbound'[u] = inbound[u]
    BY DEF TypeOK
  <1>3. inbound'[t] = Append(inbound[t], m)
    <2>1. CASE inbound' = [inbound EXCEPT ![t] = Append(@, m)]
      BY <2>1 DEF TypeOK
    <2>2. CASE inbound' = [inbound EXCEPT ![t] = <<m>>] /\ inbound[t] = <<>>
      <3>1. <<m>> = Append(<<>>, m)
        OBVIOUS
      <3> QED
        BY <2>2, <3>1 DEF TypeOK
    <2> QED
      BY <2>1, <2>2
  <1>4. inbound[t] \in Seq(Nat)
    BY DEF TypeOK
  <1>5. PlaceOf(m)' = t
    <2>1. Len(inbound[t]) + 1 \in DOMAIN inbound'[t] /\ inbound'[t][Len(inbound[t]) + 1] = m
      BY <1>3, <1>4
    <2> QED
      BY <2>1, PlaceIs
  <1>6. ASSUME NEW k \in 1 .. MaxMail, k # m PROVE PlaceOf(k)' = PlaceOf(k)
    <2>1. (\E i \in DOMAIN inbound'[t] : inbound'[t][i] = k) <=> (\E i \in DOMAIN inbound[t] : inbound[t][i] = k)
      <3>1. Len(inbound'[t]) = Len(inbound[t]) + 1 /\ inbound'[t] \in Seq(Nat)
        BY <1>3, <1>4
      <3>2. \A i \in DOMAIN inbound[t] : i \in DOMAIN inbound'[t] /\ inbound'[t][i] = inbound[t][i]
        BY <1>3, <1>4
      <3>3. \A i \in DOMAIN inbound'[t] : i \in DOMAIN inbound[t] \/ inbound'[t][i] = m
        BY <1>3, <1>4
      <3> QED
        BY <1>6, <3>2, <3>3
    <2>2. \A u \in Ticket : (\E i \in DOMAIN inbound'[u] : inbound'[u][i] = k)
                                <=> (\E i \in DOMAIN inbound[u] : inbound[u][i] = k)
      BY <1>2, <2>1
    <2> QED
      BY <2>2, PlaceKept
  <1>7. PlaceMap' = [PlaceMap EXCEPT ![m] = t]
    BY <1>5, <1>6 DEF PlaceMap
  <1>8. \A u \in Ticket \ {t} : LaneOf(u)' = LaneOf(u)
    BY DEF LaneOf, TypeOK
  <1>9. LaneOf(t)' = IF LaneOf(t) = "rep" THEN "rep" ELSE "open"
    BY DEF LaneOf, Activated, Actionable, TypeOK, TICKET_STATUSES
  <1>10. LaneMap' = [LaneMap EXCEPT ![t] = IF @ = "rep" THEN "rep" ELSE "open"]
    BY <1>8, <1>9 DEF LaneMap
  <1>11. LaneOf(t) # "closed"
    BY DEF LaneOf, Actionable
  <1> QED
    BY <1>1, <1>7, <1>10, <1>11 DEF LaneMap, PlaceMap, Lanes!File

\* What changes neither a status nor what is filed changes nothing here.
LEMMA LanesStutter ==
    ASSUME FiledOnce, UNCHANGED <<status, inbound>>
    PROVE  UNCHANGED Lanes!lanes
  <1>1. PlaceMap' = PlaceMap
    BY PlacesKept
  <1>2. LaneMap' = LaneMap
    BY DEF LaneMap, LaneOf
  <1> QED
    BY <1>1, <1>2 DEF LaneMap, PlaceMap, Lanes!lanes

\* Each step of the worker is a step of TicketLanes or none at all.
LEMMA WorkerKeepsLanes ==
    ASSUME IInv, DeskInOrder, DeskInOrder', NEW w \in Worker, Solo(w),
           Start(w) \/ Ingest(w) \/ Handle(w) \/ Abort(w)
    PROVE  Lanes!Next \/ UNCHANGED Lanes!lanes
  <1>1. CASE AppendReply(w)
    <2>1. PICK t \in Ticket :
             /\ t = tk[w] /\ status[t] \notin {"absent", "resolved"} /\ cur[w] \in 1 .. Len(mail)
             /\ ~Seen(cur[w])
             /\ inbound' = [inbound EXCEPT ![t] = Append(@, cur[w])]
             /\ status' = [status EXCEPT ![t] = Activated(@)]
      BY <1>1, SoloAppend
    <2>2. PICK m \in 1 .. MaxMail : m = cur[w]
      BY <2>1, BoundsAssumption DEF DeskInOrder, IInv, TypeOK
    <2>3. Lanes!File(m, t)
      BY <2>1, <2>2, FileStep DEF DeskInOrder, IInv
    <2> QED
      BY <2>3 DEF Lanes!Next
  <1>2. ASSUME NEW t \in Ticket, CreateTicket(w, t)
        PROVE  Lanes!Next
    <2>1. ~Seen(cur[w]) /\ cur[w] \in 1 .. Len(mail)
      BY <1>2 DEF CreateTicket, Solo, FilesNew
    <2>2. PICK m \in 1 .. MaxMail : m = cur[w]
      BY <2>1, BoundsAssumption DEF DeskInOrder, IInv, TypeOK
    <2>3. /\ inbound' = [inbound EXCEPT ![t] = <<m>>] /\ status' = [status EXCEPT ![t] = "new"]
          /\ status[t] = "absent" /\ inbound[t] = <<>>
      BY <1>2, <2>2 DEF CreateTicket, Exists, DeskInOrder, RowsStartEmpty
    <2>4. Lanes!File(m, t)
      BY <2>1, <2>2, <2>3, FileStep DEF DeskInOrder, IInv
    <2> QED
      BY <2>4 DEF Lanes!Next
  <1>3. ASSUME NEW s \in {"auto_handling", "awaiting_customer", "needs_rep", "resolved"},
               at[w] \in {"handle", "work", "sent"}, Commit(w, s), inbound' = inbound
        PROVE  Lanes!Next \/ UNCHANGED Lanes!lanes
    <2>1. PICK t \in Ticket : /\ t = tk[w] /\ status[t] \in Actionable
                              /\ status' = [status EXCEPT ![t] = s]
      BY <1>3, SoloCommit DEF Solo, OnActionable
    <2>2. UNCHANGED Lanes!lanes \/ Lanes!Settle(t)
      BY <1>3, <2>1, SettleStep DEF DeskInOrder, IInv
    <2> QED
      BY <2>2 DEF Lanes!Next
  <1>4. CASE EscalateUnmatched(w) \/ Finish(w)
    BY <1>3, <1>4 DEF EscalateUnmatched, Finish, Outcomes
  <1>5. ASSUME UNCHANGED <<status, inbound>> PROVE UNCHANGED Lanes!lanes
    BY <1>5, LanesStutter DEF DeskInOrder
  <1>6. CASE Claim(w)
    BY <1>3, <1>5, <1>6 DEF Claim
  <1> QED
    BY <1>1, <1>2, <1>4, <1>5, <1>6
       DEF Ingest, Handle, Start, LookUp, FinishSweep, SelectActionable, Take, SendReply, FinishLoop,
           Abort, deskVars

\* One worker at a time, every runtime: the desk keeps all that TicketLanes
\* promises.  Closed tickets stay closed, a rep's ticket stays the rep's, only
\* a filed message ends a wait, and each message is filed into one ticket.
THEOREM DeskKeepsLanes ==
    ASSUME \A v, w \in Worker : v = w
    PROVE  Spec => KeepsLanes
  <1>1. Init => Lanes!Init
    <2> SUFFICES ASSUME Init PROVE Lanes!Init
      OBVIOUS
    <2>1. \A t \in Ticket : LaneOf(t) = "none"
      BY DEF Init, LaneOf, Actionable
    <2>2. \A m : ~Seen(m)
      BY DEF Init, Seen
    <2>3. \A m : PlaceOf(m) = NoTicket
      BY <2>2 DEF PlaceOf
    <2> QED
      BY <2>1, <2>3 DEF Lanes!Init
  <1>2. IInv /\ SoloInv /\ SoloInv' /\ [Next]_vars => [Lanes!Next]_Lanes!lanes
    <2> SUFFICES ASSUME IInv, SoloInv, SoloInv', [Next]_vars
                 PROVE  Lanes!Next \/ UNCHANGED Lanes!lanes
      OBVIOUS
    <2>1. CASE CustomerWrites \/ UNCHANGED vars
      BY <2>1, LanesStutter
         DEF CustomerWrites, Write, FollowUp, Arrives, vars, SoloInv, DeskInOrder
    <2>2. ASSUME NEW w \in Worker, Start(w) \/ Ingest(w) \/ Handle(w) \/ Abort(w)
          PROVE  Lanes!Next \/ UNCHANGED Lanes!lanes
      BY <2>2, WorkerKeepsLanes DEF SoloInv
    <2> QED
      BY <2>1, <2>2 DEF Next
  <1>3. Spec => []IInv /\ []SoloInv
    BY Invariance, SoloInvariance, PTL
  <1> QED
    BY <1>1, <1>2, <1>3, PTL DEF Spec, KeepsLanes, Lanes!Spec
=============================================================================
