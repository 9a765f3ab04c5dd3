-------------------------- MODULE BoardPage_proofs --------------------------
(***************************************************************************)
(* Proofs about BoardPage for any number of items, requests of this page   *)
(* and of others, and failures.                                            *)
(***************************************************************************)
EXTENDS BoardPage, FiniteSetTheorems, WellFoundedInduction, TLAPS

\* The list a move keeps for its rollback has a status nobody confirmed only if
\* another move was under way or the list had not been rendered, and a second
\* card only of what the page created, as has the list last rendered.
KeptIsKnown ==
    \A c \in Mine : req[c].op = "move" /\ req[c].at # "idle" =>
        \A t \in Item : /\ Unconfirmed(req[c].before[t]) => history.crossed
                        /\ Len(req[c].before[t]) > 1 => t \in history.mine

CurrentIsKnown == \A t \in Item : Len(current[t]) > 1 => t \in history.mine

IInv == TypeOK /\ KeptIsKnown /\ CurrentIsKnown /\ PhantomNeedsOverlap /\ ShownOnce

-----------------------------------------------------------------------------
(* Types. *)

LEMMA NoCardsType == NoCards \in [Item -> Cards]
  BY DEF NoCards, Cards

LEMMA IdleType == Idle \in RequestRecord
  <1>1. (CHOOSE t \in Item : TRUE) \in Item
    BY ItemAssumption
  <1> QED
    BY <1>1, NoCardsType DEF Idle, RequestRecord, Row, Unborn

LEMMA PollType ==
    ASSUME TypeOK, NEW q \in Sorted(Due)
    PROVE  wire \o [i \in DOMAIN q |-> Payload(q[i])]
             \in Seq([item : Item, stamp : Nat, v : Nat, at : Nat])
  <1>1. Due \subseteq Item
    BY DEF Due
  <1>2. Cardinality(Due) \in Nat
    BY <1>1, ItemAssumption, FS_Subset, FS_CardinalityType
  <1>3. q \in [1..Cardinality(Due) -> Item]
    BY <1>1 DEF Sorted
  <1>4. \A t \in Item : Payload(t) \in [item : Item, stamp : Nat, v : Nat, at : Nat]
    BY DEF Payload, Entry, TypeOK, Row
  <1> DEFINE P == [item : Item, stamp : Nat, v : Nat, at : Nat]
             more == [i \in DOMAIN q |-> Payload(q[i])]
  <1>5. DOMAIN q = 1..Cardinality(Due) /\ \A i \in DOMAIN q : more[i] \in P
    BY <1>3, <1>4
  <1>6. wire \in Seq(P)
    BY DEF TypeOK
  <1> HIDE DEF P
  <1>7. more \in Seq(P)
    BY <1>2, <1>5
  <1> HIDE DEF more
  <1>8. wire \o more \in Seq(P)
    BY <1>6, <1>7
  <1> QED
    BY <1>8 DEF P, more

LEMMA GapType == \A S : S \subseteq Item => Gap(S) \subseteq Item
  BY DEF Gap, Wrong

\* What a step leaves of the page's own requests when it is none of the page's:
\* none begins, and none is over.
Quiet ==
    /\ shown' = shown /\ current' = current
    /\ history'.crossed = history.crossed /\ history'.mine = history.mine
    /\ \A c \in Mine : /\ req'[c].op = req[c].op /\ req'[c].item = req[c].item
                       /\ req'[c].before = req[c].before
                       /\ req'[c].at = "idle" <=> req[c].at = "idle"

StreamStep == Connect \/ Poll \/ Deliver \/ Break

LEMMA StreamType ==
    ASSUME TypeOK, StreamStep
    PROVE  /\ clock' \in Nat /\ row' \in [Item -> Row] /\ event' \in [Item -> Nat]
           /\ req' = req /\ kind' = kind /\ faults' \in Nat
           /\ DOMAIN stream' = DOMAIN Off /\ stream'.on \in BOOLEAN
           /\ wire' \in Seq([item : Item, stamp : Nat, v : Nat, at : Nat])
           /\ history'.crossed = history.crossed /\ history'.mine = history.mine
           /\ history' \in [gap : SUBSET Item, missed : SUBSET Item, mine : SUBSET Item, crossed : BOOLEAN]
           /\ shown' \in [Item -> Cards] /\ loaded' \in BOOLEAN
           /\ current' = current /\ current' \in [Item -> Cards]
  <1>1. CASE Connect
    <2>1. Gap({t \in Wrong : ~Untold(t) /\ (Stamps = {} \/ \E s \in Stamps : Entry(t) < s)}) \subseteq Item
      BY DEF Gap, Wrong
    <2>2. DOMAIN stream' = DOMAIN Off /\ stream'.on \in BOOLEAN
      BY <1>1 DEF Connect, Off
    <2> QED
      BY <1>1, <2>1, <2>2 DEF Connect, TypeOK, serverVars
  <1>2. CASE Poll
    <2>1. wire' \in Seq([item : Item, stamp : Nat, v : Nat, at : Nat])
      BY <1>2, PollType DEF Poll
    <2>2. DOMAIN stream' = DOMAIN Off /\ stream'.on \in BOOLEAN
      BY <1>2 DEF Poll, TypeOK, Off
    <2>3. history' = [history EXCEPT !.missed = @ \ Due] /\ shown' = shown /\ req' = req
          /\ UNCHANGED <<kind, clock, row, event, loaded, current, faults>>
      BY <1>2 DEF Poll, serverVars
    <2> QED
      BY <2>1, <2>2, <2>3 DEF TypeOK
  <1>3. CASE Deliver
    <2> DEFINE p == Head(wire)
               cards == shown[p.item]
    <2>1. p \in [item : Item, stamp : Nat, v : Nat, at : Nat]
          /\ wire' \in Seq([item : Item, stamp : Nat, v : Nat, at : Nat])
      <3> DEFINE P == [item : Item, stamp : Nat, v : Nat, at : Nat]
      <3>1. wire \in Seq(P) /\ wire # <<>> /\ wire' = Tail(wire)
        BY <1>3 DEF Deliver, TypeOK
      <3> HIDE DEF P
      <3>2. Head(wire) \in P /\ Tail(wire) \in Seq(P)
        BY <3>1
      <3> QED
        BY <3>1, <3>2 DEF P
    <2>2. Card(p) \in [v : Nat \cup {Hope}, at : Nat] /\ cards \in Cards
      BY <2>1 DEF Card, TypeOK
    <2>3. (IF cards = <<>> THEN <<Card(p)>> ELSE [cards EXCEPT ![1] = Card(p)]) \in Cards
      <3> DEFINE C == [v : Nat \cup {Hope}, at : Nat]
      <3>1. \A x \in C, s \in Seq(C) : (IF s = <<>> THEN <<x>> ELSE [s EXCEPT ![1] = x]) \in Seq(C)
        <4> HIDE DEF C
        <4> QED OBVIOUS
      <3> QED
        BY <2>2, <3>1 DEF Cards
    <2>4. shown' \in [Item -> Cards]
      BY <1>3, <2>1, <2>3 DEF Deliver, TypeOK
    <2>5. Gap({t \in {p.item} : ~Live(t) \/ Len(cards) > 1}) \subseteq Item
      BY DEF Gap, Wrong
    <2>6. history' = [history EXCEPT !.gap = Gap({t \in {p.item} : ~Live(t) \/ Len(cards) > 1})]
          /\ UNCHANGED <<kind, clock, row, event, req, loaded, current, stream, faults>>
      BY <1>3 DEF Deliver, serverVars
    <2> DEFINE new == Gap({t \in {p.item} : ~Live(t) \/ Len(cards) > 1})
    <2> HIDE DEF new
    <2>7. /\ history'.crossed = history.crossed /\ history'.mine = history.mine
          /\ history' \in [gap : SUBSET Item, missed : SUBSET Item, mine : SUBSET Item, crossed : BOOLEAN]
      BY <2>5, <2>6 DEF TypeOK, new
    <2>8. clock' \in Nat /\ row' \in [Item -> Row] /\ event' \in [Item -> Nat]
          /\ req' = req /\ kind' = kind /\ faults' \in Nat
          /\ DOMAIN stream' = DOMAIN Off /\ stream'.on \in BOOLEAN
          /\ loaded' \in BOOLEAN /\ current' = current /\ current' \in [Item -> Cards]
      BY <2>6 DEF TypeOK
    <2> QED
      BY <2>1, <2>4, <2>7, <2>8
  <1>4. CASE Break
    <2>1. DOMAIN stream' = DOMAIN Off /\ stream'.on \in BOOLEAN
      BY <1>4 DEF Break, Off
    <2>2. history' = [history EXCEPT !.missed = {}] /\ wire' = <<>>
          /\ UNCHANGED <<kind, clock, row, event, req, loaded, shown, current>> /\ faults' = faults + 1
      BY <1>4 DEF Break, serverVars
    <2>3. wire' \in Seq([item : Item, stamp : Nat, v : Nat, at : Nat])
      BY <2>2
    <2>4. /\ history'.crossed = history.crossed /\ history'.mine = history.mine
          /\ history' \in [gap : SUBSET Item, missed : SUBSET Item, mine : SUBSET Item, crossed : BOOLEAN]
      BY <2>2 DEF TypeOK
    <2>5. clock' \in Nat /\ row' \in [Item -> Row] /\ event' \in [Item -> Nat]
          /\ req' = req /\ kind' = kind /\ faults' \in Nat /\ shown' \in [Item -> Cards]
          /\ loaded' \in BOOLEAN /\ current' = current /\ current' \in [Item -> Cards]
      BY <2>2 DEF TypeOK
    <2> QED
      BY <2>1, <2>3, <2>4, <2>5
  <1> QED
    BY <1>1, <1>2, <1>3, <1>4 DEF StreamStep

-----------------------------------------------------------------------------
(* The server's steps. *)

ServerStep ==
    \/ \E c \in Request : Serve(c) \/ Abort(c)
    \/ \E c \in Theirs, t \in Item : TheirWrite(c, t) \/ TheirDelete(c, t)

LEMMA StampedStep ==
    ASSUME TypeOK, NEW c \in Request, NEW t \in Item, asked' = asked,
           NEW op \in {"create", "save", "lead", "move", "decide", "reopen"}, Stamped(c, op, t),
           c \in Mine => op = req[c].op /\ t = req[c].item /\ req[c].at # "idle"
    PROVE  TypeOK' /\ Quiet
  <1>0. req[c] \in RequestRecord /\ clock + 1 \in Nat
    BY DEF TypeOK
  <1>1. [req[c] EXCEPT !.at = "stamped", !.op = op, !.item = t, !.v = clock + 1] \in RequestRecord
    BY <1>0 DEF RequestRecord
  <1>2. TypeOK'
    BY <1>1 DEF Stamped, TypeOK, pageVars
  <1>3. Quiet
    BY DEF Stamped, pageVars, Quiet, TypeOK, RequestRecord, Request
  <1> QED
    BY <1>2, <1>3

LEMMA AcceptStep == ASSUME TypeOK, NEW c \in Request, Accept(c), asked' = asked PROVE TypeOK' /\ Quiet
  <1>1. req[c].item \in Item /\ req[c].at # "idle"
        /\ req[c].op \in {"create", "save", "lead", "move", "decide", "reopen"}
    BY DEF Accept, TypeOK, RequestRecord
  <1> QED
    BY <1>1, StampedStep DEF Accept

LEMMA TheirWriteStep ==
    ASSUME TypeOK, NEW c \in Theirs, NEW t \in Item, TheirWrite(c, t), asked' = asked
    PROVE  TypeOK' /\ Quiet
  <1>1. PICK op \in TheirOps : Stamped(c, op, t)
    BY DEF TheirWrite
  <1>2. op \in {"create", "save", "lead", "move", "decide", "reopen"}
    BY <1>1 DEF TheirOps
  <1>3. c \in Request /\ c \notin Mine
    BY RequestAssumption DEF Request
  <1> QED
    BY <1>1, <1>2, <1>3, StampedStep

LEMMA AtType ==
    ASSUME NEW r \in RequestRecord, NEW s \in {"written", "answered", "refused"}
    PROVE  [r EXCEPT !.at = s] \in RequestRecord
  BY DEF RequestRecord

LEMMA RefuseStep == ASSUME TypeOK, NEW c \in Request, Refuse(c), asked' = asked PROVE TypeOK' /\ Quiet
  <1>0. req[c] \in RequestRecord
    BY DEF TypeOK
  <1>1. [req[c] EXCEPT !.at = "refused"] \in RequestRecord
    BY <1>0, AtType
  <1>2. TypeOK'
    BY <1>1 DEF Refuse, TypeOK, pageVars, serverVars
  <1>3. Quiet
    BY DEF Refuse, Quiet, TypeOK, RequestRecord, Request, pageVars
  <1> QED
    BY <1>2, <1>3

LEMMA CommitStep == ASSUME TypeOK, NEW c \in Request, Commit(c), asked' = asked PROVE TypeOK' /\ Quiet
  <1>0. req[c] \in RequestRecord
    BY DEF TypeOK
  <1>1. [req[c] EXCEPT !.at = "written"] \in RequestRecord
    BY <1>0, AtType
  <1>2. req[c].item \in Item /\ Written(c) \in Row
    BY DEF TypeOK, RequestRecord, Written, Row
  <1>3. Gap({}) \subseteq Item
        /\ history.missed \cup (IF kind = "tasks" THEN {} ELSE Passed(req[c].item, row'[req[c].item].at)) \subseteq Item
    BY <1>2 DEF Gap, Wrong, TypeOK, Passed
  <1>4. TypeOK'
    BY <1>1, <1>2, <1>3 DEF Commit, TypeOK, pageVars
  <1>5. Quiet
    BY DEF Commit, Quiet, TypeOK, RequestRecord, Request, pageVars
  <1> QED
    BY <1>4, <1>5

LEMMA DoneType ==
    ASSUME TypeOK, NEW c \in Request, NEW a \in Row
    PROVE  /\ Done(c, a) \in RequestRecord
           /\ c \in Mine => /\ Done(c, a).op = req[c].op /\ Done(c, a).item = req[c].item
                            /\ Done(c, a).before = req[c].before /\ Done(c, a).at = "answered"
  BY IdleType DEF Done, TypeOK, RequestRecord

LEMMA RecordStep == ASSUME TypeOK, NEW c \in Request, Record(c), asked' = asked PROVE TypeOK' /\ Quiet
  <1>1. req[c] \in RequestRecord /\ row[req[c].item] \in Row /\ req[c].at # "idle"
    BY DEF TypeOK, RequestRecord, Record
  <1>2. CASE kind = "tasks" /\ clock' = clock + 1
             /\ req' = [req EXCEPT ![c].at = "recorded", ![c].ev = clock', ![c].answer = row[req[c].item]]
    <2>1. [req[c] EXCEPT !.at = "recorded", !.ev = clock', !.answer = row[req[c].item]] \in RequestRecord
      <3>1. clock' \in Nat
        BY <1>2 DEF TypeOK
      <3> QED
        BY <1>1, <3>1 DEF RequestRecord
    <2>2. TypeOK'
      BY <1>2, <2>1 DEF Record, TypeOK, pageVars
    <2>3. Quiet
      BY <1>1, <1>2 DEF Record, Quiet, TypeOK, RequestRecord, Request, pageVars
    <2> QED
      BY <2>2, <2>3
  <1>3. CASE req' = [req EXCEPT ![c] = Done(c, row[req[c].item])] /\ UNCHANGED clock
    <2>1. TypeOK'
      BY <1>1, <1>3, DoneType DEF Record, TypeOK, pageVars
    <2>2. Quiet
      BY <1>1, <1>3, DoneType DEF Record, Quiet, TypeOK, Request, pageVars
    <2> QED
      BY <2>1, <2>2
  <1> QED
    BY <1>2, <1>3 DEF Record

LEMMA TellStep == ASSUME TypeOK, NEW c \in Request, Tell(c), asked' = asked PROVE TypeOK' /\ Quiet
  <1>1. req[c] \in RequestRecord /\ req[c].answer \in Row /\ req[c].item \in Item
        /\ req[c].ev \in Nat /\ req[c].at # "idle"
    BY DEF TypeOK, RequestRecord, Tell
  <1>2. row' \in [Item -> Row] /\ event' \in [Item -> Nat]
    BY <1>1 DEF Tell, TypeOK, Written, Row, RequestRecord
  <1>3. Gap({}) \subseteq Item /\ history.missed \cup Passed(req[c].item, req[c].ev) \subseteq Item
    BY <1>1 DEF Gap, Wrong, TypeOK, Passed
  <1>4. TypeOK'
    BY <1>1, <1>2, <1>3, DoneType DEF Tell, TypeOK, pageVars
  <1>5. Quiet
    BY <1>1, DoneType DEF Tell, Quiet, TypeOK, Request, pageVars
  <1> QED
    BY <1>4, <1>5

LEMMA DeleteType ==
    ASSUME TypeOK, NEW t \in Item, Delete(t)
    PROVE  /\ row' \in [Item -> Row] /\ event' \in [Item -> Nat]
           /\ UNCHANGED <<kind, clock, pageVars, faults>>
  BY DEF Delete, TypeOK, Row, Gone

LEMMA MyDeleteStep == ASSUME TypeOK, NEW c \in Request, MyDelete(c), asked' = asked PROVE TypeOK' /\ Quiet
  <1>0. req[c] \in RequestRecord
    BY DEF TypeOK
  <1>1. req[c] \in RequestRecord /\ req[c].item \in Item
        /\ [req[c] EXCEPT !.at = "answered"] \in RequestRecord
    BY <1>0, AtType DEF RequestRecord
  <1>2. Gap({}) \subseteq Item
    BY DEF Gap, Wrong
  <1>3. Delete(req[c].item)
    BY DEF MyDelete
  <1>4. TypeOK'
    BY <1>1, <1>2, <1>3, DeleteType DEF MyDelete, TypeOK, pageVars
  <1>5. Quiet
    BY <1>1, <1>3, DeleteType DEF MyDelete, Quiet, TypeOK, Request, pageVars
  <1> QED
    BY <1>4, <1>5

LEMMA TheirDeleteStep ==
    ASSUME TypeOK, NEW c \in Theirs, NEW t \in Item, TheirDelete(c, t), asked' = asked
    PROVE  TypeOK' /\ Quiet
  <1>1. Gap({t}) \subseteq Item
    BY DEF Gap, Wrong
  <1> QED
    BY <1>1, DeleteType DEF TheirDelete, TypeOK, pageVars, Quiet

LEMMA AbortStep == ASSUME TypeOK, NEW c \in Request, Abort(c), asked' = asked PROVE TypeOK' /\ Quiet
  <1>1. req[c] \in RequestRecord /\ req[c].at # "idle"
    BY DEF TypeOK, RequestRecord, Abort
  <1>2. [req[c] EXCEPT !.at = "refused", !.v = 0, !.ev = 0] \in RequestRecord
    BY <1>1 DEF RequestRecord
  <1>3. Gap({x \in {req[c].item} : Untold(x)}) \subseteq Item /\ faults' \in Nat
    BY DEF Gap, Wrong, Abort, TypeOK
  <1>6. req' \in [Request -> RequestRecord]
    BY <1>2, IdleType DEF Abort, TypeOK
  <1>7. history' \in [gap : SUBSET Item, missed : SUBSET Item, mine : SUBSET Item, crossed : BOOLEAN]
    <2>1. history' = [history EXCEPT !.gap = Gap({x \in {req[c].item} : Untold(x)})]
      BY DEF Abort
    <2> QED
      BY <1>3, <2>1 DEF TypeOK
  <1>4. TypeOK'
    BY <1>3, <1>6, <1>7 DEF Abort, TypeOK, pageVars, serverVars
  <1>5. Quiet
    BY <1>1 DEF Abort, Quiet, TypeOK, Request, pageVars, RequestRecord
  <1> QED
    BY <1>4, <1>5

LEMMA ServerStepQuiet == ASSUME TypeOK, ServerStep, asked' = asked PROVE TypeOK' /\ Quiet
  BY AcceptStep, RefuseStep, CommitStep, RecordStep, TellStep, MyDeleteStep, AbortStep,
     TheirWriteStep, TheirDeleteStep DEF ServerStep, Serve

-----------------------------------------------------------------------------
(* The page's own steps. *)

\* What the page takes out of a payload or an answer was on the server.
LEMMA ConfirmedCard == \A r \in [v : Nat, at : Nat] : r.v # Hope
  BY HopeAssumption

LEMMA HopedType ==
    ASSUME NEW s \in Cards
    PROVE  Hoped(s) \in Cards /\ Len(Hoped(s)) = Len(s)
  <1> DEFINE C == [v : Nat \cup {Hope}, at : Nat]
  <1>0. s \in Seq(C)
    BY DEF Cards
  <1> HIDE DEF C
  <1>1. Len(s) \in Nat /\ \A i \in 1..Len(s) : s[i] \in C
    BY <1>0
  <1> USE DEF C
  <1>2. \A i \in 1..Len(s) : [s[i] EXCEPT !.v = Hope] \in C
    BY <1>1
  <1> HIDE DEF C
  <1>3. Hoped(s) \in Seq(C) /\ Len(Hoped(s)) = Len(s)
    BY <1>0, <1>1, <1>2 DEF Hoped
  <1> QED
    BY <1>3 DEF C, Cards

LEMMA SentType ==
    ASSUME TypeOK, NEW c \in Mine, NEW t \in Item,
           NEW op \in {"create", "save", "lead", "move", "delete", "decide", "reopen"}
    PROVE  /\ Sent(c, op, t) \in RequestRecord
           /\ Sent(c, op, t).op = op /\ Sent(c, op, t).item = t /\ Sent(c, op, t).at = "sent"
           /\ op = "move" => Sent(c, op, t).before = current
  BY IdleType, NoCardsType DEF Sent, RequestRecord, TypeOK

LEMMA SendType ==
    ASSUME TypeOK, NEW c \in Mine, NEW t \in Item, Send(c, t)
    PROVE  TypeOK' /\ UNCHANGED <<shown, current, history>>
           /\ \E op \in MyOps : req' = [req EXCEPT ![c] = Sent(c, op, t)]
  <1>1. PICK op \in MyOps : req' = [req EXCEPT ![c] = Sent(c, op, t)]
    BY DEF Send
  <1>2. Sent(c, op, t) \in RequestRecord
    BY <1>1, SentType DEF MyOps
  <1>4. c \in Request /\ asked' \in Nat
    BY DEF Request, Send, TypeOK
  <1>5. UNCHANGED <<kind, serverVars, pageVars, faults, history>>
    BY DEF Send
  <1>6. req' \in [Request -> RequestRecord]
    BY <1>1, <1>2, <1>4 DEF TypeOK
  <1>3. TypeOK' /\ UNCHANGED <<shown, current, history>>
    BY <1>4, <1>5, <1>6 DEF TypeOK, pageVars, serverVars
  <1> QED
    BY <1>1, <1>3

LEMMA MoveType == ASSUME TypeOK, NEW c \in Mine, NEW t \in Item, Move(c, t) PROVE TypeOK'
  <1>1. Sent(c, "move", t) \in RequestRecord
    BY SentType
  <1>2. Hoped(shown[t]) \in Cards
    BY HopedType DEF TypeOK
  <1>3. Gap({x \in {t} : current[x] # shown[x]}) \subseteq Item /\ asked' \in Nat
    BY DEF Gap, Wrong, Move, TypeOK
  <1>4. history' \in [gap : SUBSET Item, missed : SUBSET Item, mine : SUBSET Item, crossed : BOOLEAN]
    BY <1>3 DEF Move, TypeOK
  <1> QED
    BY <1>1, <1>2, <1>3, <1>4 DEF Move, TypeOK, serverVars

LEMMA AppliedType ==
    ASSUME TypeOK, NEW c \in Mine
    PROVE  /\ Applied(c) \in [Item -> Cards]
           /\ \A x \in Item : x # req[c].item => Applied(c)[x] = shown[x]
           /\ Unconfirmed(Applied(c)[req[c].item]) =>
                  req[c].op = "create" /\ Unconfirmed(shown[req[c].item])
           /\ Len(Applied(c)[req[c].item]) > 1 =>
                  req[c].op = "create" \/ Len(shown[req[c].item]) > 1
  <1> DEFINE t == req[c].item
             a == req[c].answer
             C == [v : Nat \cup {Hope}, at : Nat]
  <1>1. t \in Item /\ a \in C /\ a.v # Hope /\ shown \in [Item -> Seq(C)]
    BY ConfirmedCard DEF TypeOK, RequestRecord, Request, Row, Cards
  <1> HIDE DEF t, a, C
  <1>2. shown[t] \in Seq(C) /\ Len(shown[t]) \in Nat /\ \A i \in 1..Len(shown[t]) : shown[t][i] \in C
    BY <1>1
  <1>3. CASE req[c].op = "create"
    <2> DEFINE new == <<a>> \o shown[t]
    <2>1. new \in Seq(C) /\ Len(new) = 1 + Len(shown[t]) /\ new[1] = a
          /\ \A i \in 2..Len(new) : new[i] = shown[t][i - 1]
      BY <1>1, <1>2
    <2>2. Applied(c) = [shown EXCEPT ![t] = new]
      BY <1>3 DEF Applied, t, a
    <2> HIDE DEF new
    <2>3. Unconfirmed(new) => Unconfirmed(shown[t])
      <3> SUFFICES ASSUME NEW i \in 1..Len(new), new[i].v = Hope PROVE Unconfirmed(shown[t])
        BY DEF Unconfirmed
      <3>1. i # 1
        BY <1>1, <2>1
      <3>2. i - 1 \in 1..Len(shown[t]) /\ shown[t][i - 1].v = Hope
        BY <1>2, <2>1, <3>1
      <3> QED
        BY <3>2 DEF Unconfirmed
    <2> QED
      BY <1>1, <1>3, <2>1, <2>2, <2>3 DEF t, C, Cards
  <1>4. CASE req[c].op = "delete"
    <2>1. Applied(c) = [shown EXCEPT ![t] = <<>>] /\ <<>> \in Seq(C)
      BY <1>4 DEF Applied, t
    <2>2. Applied(c)[t] = <<>> /\ Applied(c) \in [Item -> Seq(C)]
      BY <1>1, <2>1
    <2>3. ~Unconfirmed(Applied(c)[t]) /\ ~(Len(Applied(c)[t]) > 1)
      BY <2>2 DEF Unconfirmed
    <2>4. \A x \in Item : x # t => Applied(c)[x] = shown[x]
      BY <1>1, <2>1
    <2> QED
      BY <2>2, <2>3, <2>4 DEF t, C, Cards
  <1>5. CASE req[c].op \notin {"create", "delete"}
    <2> DEFINE new == [i \in 1..Len(shown[t]) |-> a]
    <2>1. new \in Seq(C) /\ Len(new) = Len(shown[t]) /\ \A i \in 1..Len(new) : new[i] = a
      BY <1>1, <1>2
    <2>2. Applied(c) = [shown EXCEPT ![t] = new]
      BY <1>5 DEF Applied, t, a
    <2> HIDE DEF new
    <2>3. ~Unconfirmed(new)
      BY <1>1, <2>1 DEF Unconfirmed
    <2> QED
      BY <1>1, <2>1, <2>2, <2>3 DEF t, C, Cards
  <1> QED
    BY <1>3, <1>4, <1>5

LEMMA AnsweredType == ASSUME TypeOK, NEW c \in Mine, Answered(c), asked' = asked PROVE TypeOK'
  <1>1. req[c].item \in Item /\ c \in Request
    BY DEF TypeOK, RequestRecord, Request
  <1>2. shown' \in [Item -> Cards] /\ req' \in [Request -> RequestRecord]
    BY <1>1, AppliedType, IdleType DEF Answered, TypeOK
  <1>3. Gap({x \in {req[c].item} : Right(x)}) \subseteq Item
    BY DEF Gap, Wrong
  <1>4. history' \in [gap : SUBSET Item, missed : SUBSET Item, mine : SUBSET Item, crossed : BOOLEAN]
    <2> DEFINE g == Gap({x \in {req[c].item} : Right(x)})
               m == IF req[c].op = "create" THEN history.mine \cup {req[c].item} ELSE history.mine
    <2>1. history' = [history EXCEPT !.gap = g, !.mine = m]
      BY DEF Answered
    <2>2. g \subseteq Item /\ m \subseteq Item
      BY <1>1, <1>3 DEF TypeOK
    <2> HIDE DEF g, m
    <2> QED
      BY <2>1, <2>2 DEF TypeOK
  <1> QED
    BY <1>2, <1>4 DEF Answered, TypeOK, serverVars

LEMMA FailedType ==
    ASSUME TypeOK, NEW c \in Mine, Failed(c), asked' = asked
    PROVE  /\ TypeOK'
           /\ shown' = (IF req[c].op = "move" THEN req[c].before ELSE shown)
           /\ req' = [req EXCEPT ![c] = Idle] /\ req[c].at # "idle"
           /\ history'.crossed = history.crossed /\ history'.mine = history.mine
  <1>1. shown' = (IF req[c].op = "move" THEN req[c].before ELSE shown)
        /\ req' = [req EXCEPT ![c] = Idle] /\ req[c].at # "idle"
    BY DEF Failed
  <1>2. shown' \in [Item -> Cards] /\ req' \in [Request -> RequestRecord] /\ faults' \in Nat
    BY <1>1, IdleType DEF Failed, TypeOK, RequestRecord, Request
  <1>3. \E g \in SUBSET Item : history' = [history EXCEPT !.gap = g]
    BY DEF Failed, Gap, Wrong
  <1> QED
    BY <1>1, <1>2, <1>3 DEF Failed, TypeOK, serverVars

-----------------------------------------------------------------------------
(* The invariant. *)

LEMMA InitInv == Init => IInv
  <1> SUFFICES ASSUME Init PROVE IInv
    OBVIOUS
  <1>1. \A t \in Item : t \in Nat
    BY ItemAssumption
  <1>2. \A t \in Item : Len(shown[t]) = 0 /\ Len(current[t]) = 0 /\ ~Unconfirmed(shown[t])
    BY DEF Init, NoCards, Unconfirmed
  <1>3. clock \in Nat
    BY ItemAssumption, FS_CardinalityType DEF Init
  <1>4. row \in [Item -> Row] /\ event \in [Item -> Nat] /\ kind \in Kinds
    BY <1>1 DEF Init, Row, Unborn
  <1>5. req \in [Request -> RequestRecord] /\ \A c \in Mine : req[c].at = "idle"
    BY IdleType DEF Init, Request, Idle
  <1>6. DOMAIN stream = DOMAIN Off /\ stream.on \in BOOLEAN
        /\ wire \in Seq([item : Item, stamp : Nat, v : Nat, at : Nat])
    BY DEF Init, Off
  <1>7. asked \in Nat /\ faults \in Nat
        /\ loaded \in BOOLEAN /\ shown \in [Item -> Cards] /\ current \in [Item -> Cards]
        /\ history \in [gap : SUBSET Item, missed : SUBSET Item, mine : SUBSET Item, crossed : BOOLEAN]
    BY NoCardsType DEF Init
  <1>8. TypeOK
    BY <1>3, <1>4, <1>5, <1>6, <1>7 DEF TypeOK
  <1> QED
    BY <1>2, <1>5, <1>8 DEF IInv, KeptIsKnown, CurrentIsKnown, PhantomNeedsOverlap, ShownOnce

\* The snapshot brings one card of each item it lists, as the server has it.
LEMMA LoadCards ==
    ASSUME TypeOK, Load
    PROVE  \A t \in Item :
              /\ shown'[t] \in Cards /\ Len(shown'[t]) \in 0..1
              /\ \A i \in 1..Len(shown'[t]) : shown'[t][i] = row[t] /\ shown'[t][i].v # Hope
  <1> SUFFICES ASSUME NEW t \in Item
               PROVE  /\ shown'[t] \in Cards /\ Len(shown'[t]) \in 0..1
                      /\ \A i \in 1..Len(shown'[t]) : shown'[t][i] = row[t] /\ shown'[t][i].v # Hope
    OBVIOUS
  <1> DEFINE C == [v : Nat \cup {Hope}, at : Nat]
  <1>1. row[t] \in C /\ row[t].v # Hope
    BY ConfirmedCard DEF TypeOK, Row
  <1>2. shown'[t] = <<>> \/ shown'[t] = <<row[t]>>
    BY DEF Load
  <1> HIDE DEF C
  <1>3. shown'[t] \in Seq(C) /\ Len(shown'[t]) \in 0..1
        /\ \A i \in 1..Len(shown'[t]) : shown'[t][i] = row[t]
    <2>1. ASSUME NEW x \in C, NEW q, q = <<>> \/ q = <<x>>
          PROVE  q \in Seq(C) /\ Len(q) \in 0..1 /\ \A i \in 1..Len(q) : q[i] = x
      <3>1. CASE q = <<>>
        BY <3>1
      <3>2. CASE q = <<x>>
        BY <2>1, <3>2
      <3> QED
        BY <2>1, <3>1, <3>2
    <2>2. row[t] \in C
      BY <1>1
    <2> QED
      BY <1>2, <2>1, <2>2
  <1>4. \A i \in 1..Len(shown'[t]) : shown'[t][i] = row[t] /\ shown'[t][i].v # Hope
    BY <1>1, <1>3
  <1>5. shown'[t] \in Cards
    BY <1>3 DEF C, Cards
  <1> QED
    BY <1>3, <1>4, <1>5

LEMMA LoadType ==
    ASSUME TypeOK, Load, asked' = asked
    PROVE  TypeOK' /\ current' = shown' /\ history'.mine = history.mine /\ req' = req
  <1>1. shown' = [t \in Item |-> shown'[t]] /\ current' = shown' /\ loaded' = TRUE
        /\ UNCHANGED <<kind, clock, row, event, req, stream, wire, faults>>
    BY DEF Load, serverVars
  <1>2. shown' \in [Item -> Cards]
    BY <1>1, LoadCards
  <1>3. Gap(Item \ Listed) \subseteq Item /\ history' = [history EXCEPT !.gap = Gap(Item \ Listed)]
    BY DEF Gap, Wrong, Load
  <1>4. history' \in [gap : SUBSET Item, missed : SUBSET Item, mine : SUBSET Item, crossed : BOOLEAN]
        /\ history'.mine = history.mine
    BY <1>3 DEF TypeOK
  <1> QED
    BY <1>1, <1>2, <1>4 DEF TypeOK

LEMMA LoadKeeps == ASSUME IInv, Load, asked' = asked PROVE IInv'
  <1>1. TypeOK' /\ current' = shown' /\ history'.mine = history.mine /\ req' = req
    BY LoadType DEF IInv
  <1>2. history'.crossed = history.crossed
    BY DEF Load, IInv, TypeOK
  <1>3. \A t \in Item : ~Unconfirmed(shown'[t]) /\ ~(Len(shown'[t]) > 1)
    BY LoadCards DEF IInv, Unconfirmed
  <1> QED
    BY <1>1, <1>2, <1>3 DEF IInv, KeptIsKnown, CurrentIsKnown, PhantomNeedsOverlap, ShownOnce

LEMMA RenderKeeps == ASSUME IInv, Render, asked' = asked PROVE IInv'
  <1>1. current' = shown
        /\ UNCHANGED <<kind, clock, row, event, req, loaded, shown, stream, wire, faults, history>>
    BY DEF Render, serverVars
  <1>2. TypeOK'
    BY <1>1 DEF IInv, TypeOK
  <1> QED
    BY <1>1, <1>2 DEF IInv, KeptIsKnown, CurrentIsKnown, PhantomNeedsOverlap, ShownOnce, Moving

\* The other steps leave the cards and the requests' moves as they are.
LEMMA QuietKeeps == ASSUME IInv, TypeOK', Quiet PROVE IInv'
  <1>1. \A t \in Item : Moving(t)' = Moving(t)
    BY DEF Moving, Quiet
  <1>2. KeptIsKnown' /\ CurrentIsKnown'
    BY DEF IInv, KeptIsKnown, CurrentIsKnown, Quiet
  <1>3. PhantomNeedsOverlap'
    BY <1>1 DEF IInv, PhantomNeedsOverlap, Quiet
  <1>4. ShownOnce'
    BY DEF IInv, ShownOnce, Quiet
  <1> QED
    BY <1>2, <1>3, <1>4 DEF IInv

LEMMA DeliverCards ==
    ASSUME TypeOK, Deliver
    PROVE  \A t \in Item : /\ Unconfirmed(shown'[t]) => Unconfirmed(shown[t])
                           /\ Len(shown'[t]) > 1 => Len(shown[t]) > 1
  <1> DEFINE C == [v : Nat \cup {Hope}, at : Nat]
             P == [item : Item, stamp : Nat, v : Nat, at : Nat]
             p == Head(wire)
             cards == shown[p.item]
             new == IF cards = <<>> THEN <<Card(p)>> ELSE [cards EXCEPT ![1] = Card(p)]
  <1>1. p \in P
    <2>1. wire \in Seq(P) /\ wire # <<>>
      BY DEF Deliver, TypeOK
    <2> HIDE DEF P
    <2> QED
      BY <2>1
  <1>2. Card(p) \in C /\ Card(p).v # Hope /\ p.item \in Item /\ cards \in Seq(C)
    BY <1>1, HopeAssumption DEF Card, TypeOK, Cards
  <1>3. shown' = [shown EXCEPT ![p.item] = new]
    BY DEF Deliver
  <1> HIDE DEF C, p, cards
  <1>4. Len(new) = (IF cards = <<>> THEN 1 ELSE Len(cards)) /\ new[1] = Card(p)
        /\ \A i \in 2..Len(new) : new[i] = cards[i]
    BY <1>2
  <1>5. Len(cards) \in Nat
    BY <1>2
  <1> HIDE DEF new
  <1>6. Unconfirmed(new) => Unconfirmed(cards)
    <2> SUFFICES ASSUME NEW i \in 1..Len(new), new[i].v = Hope PROVE Unconfirmed(cards)
      BY DEF Unconfirmed
    <2>1. i # 1 /\ cards # <<>>
      BY <1>2, <1>4
    <2>2. i \in 1..Len(cards) /\ cards[i].v = Hope
      BY <1>4, <1>5, <2>1
    <2> QED
      BY <2>2 DEF Unconfirmed
  <1>7. Len(new) > 1 => Len(cards) > 1
    BY <1>4, <1>5
  <1> QED
    BY <1>2, <1>3, <1>6, <1>7 DEF cards, TypeOK

LEMMA StreamKeeps == ASSUME IInv, StreamStep, asked' = asked PROVE IInv'
  <1>1. TypeOK'
    BY StreamType DEF IInv, TypeOK
  <1>2. req' = req /\ history'.crossed = history.crossed /\ history'.mine = history.mine
    BY StreamType DEF IInv
  <1>3. CASE Deliver
    <2>1. KeptIsKnown' /\ CurrentIsKnown'
      BY <1>2, StreamType DEF IInv, KeptIsKnown, CurrentIsKnown
    <2>2. PhantomNeedsOverlap'
      BY <1>2, <1>3, DeliverCards DEF IInv, PhantomNeedsOverlap, Moving
    <2>3. ShownOnce'
      BY <1>2, <1>3, DeliverCards DEF IInv, ShownOnce
    <2> QED
      BY <1>1, <2>1, <2>2, <2>3 DEF IInv
  <1>4. CASE ~Deliver
    <2>1. shown' = shown /\ current' = current
      BY <1>4 DEF StreamStep, Connect, Poll, Break
    <2> QED
      BY <1>1, <1>2, <2>1, QuietKeeps DEF Quiet
  <1> QED
    BY <1>3, <1>4

LEMMA SendKeeps == ASSUME IInv, NEW c \in Mine, NEW t \in Item, Send(c, t) PROVE IInv'
  <1>1. TypeOK' /\ UNCHANGED <<shown, current, history>>
    BY SendType DEF IInv
  <1>2. PICK op \in MyOps : req' = [req EXCEPT ![c] = Sent(c, op, t)]
    BY SendType DEF IInv
  <1>3. Sent(c, op, t).op = op /\ op # "move" /\ c \in Request /\ req[c].at = "idle"
    BY SentType DEF IInv, MyOps, Request, Send
  <1>4. \A d \in Mine : d # c => req'[d] = req[d]
    BY <1>2, <1>3 DEF IInv, TypeOK
  <1>5. req'[c].op # "move"
    BY <1>2, <1>3 DEF IInv, TypeOK
  <1>6. \A x \in Item : Moving(x) => Moving(x)'
    BY <1>3, <1>4 DEF Moving
  <1> QED
    BY <1>1, <1>4, <1>5, <1>6 DEF IInv, KeptIsKnown, CurrentIsKnown, PhantomNeedsOverlap, ShownOnce

LEMMA MoveKeeps == ASSUME IInv, NEW c \in Mine, NEW t \in Item, Move(c, t) PROVE IInv'
  <1>1. TypeOK'
    BY MoveType DEF IInv
  <1>2. /\ req' = [req EXCEPT ![c] = Sent(c, "move", t)] /\ req[c].at = "idle"
        /\ shown' = [shown EXCEPT ![t] = Hoped(@)]
        /\ history'.mine = history.mine /\ current' = current
        /\ history'.crossed = (history.crossed \/ current # shown \/ \E u \in Item : Moving(u))
    BY DEF Move, IInv, TypeOK
  <1>3. /\ Sent(c, "move", t).op = "move" /\ Sent(c, "move", t).item = t
        /\ Sent(c, "move", t).at = "sent" /\ Sent(c, "move", t).before = current
        /\ c \in Request
    BY SentType DEF IInv, Request
  <1>4. req'[c] = Sent(c, "move", t) /\ \A d \in Mine : d # c => req'[d] = req[d]
    BY <1>2, <1>3 DEF IInv, TypeOK
  <1>5. Moving(t)' /\ \A x \in Item : Moving(x) => Moving(x)'
    BY <1>2, <1>3, <1>4 DEF Moving
  <1>6. Len(Hoped(shown[t])) = Len(shown[t])
    BY HopedType DEF IInv, TypeOK
  <1>7. \A x \in Item : Unconfirmed(shown[x]) => history'.crossed
    BY <1>2 DEF IInv, PhantomNeedsOverlap
  <1>11. \A x \in Item : Unconfirmed(current[x]) => history'.crossed
    BY <1>2, <1>7
  <1>8. KeptIsKnown' /\ CurrentIsKnown'
    BY <1>2, <1>3, <1>4, <1>11 DEF IInv, KeptIsKnown, CurrentIsKnown
  <1>9. PhantomNeedsOverlap'
    BY <1>2, <1>5, <1>7 DEF IInv, TypeOK, PhantomNeedsOverlap
  <1>10. ShownOnce'
    BY <1>2, <1>6 DEF IInv, TypeOK, ShownOnce
  <1> QED
    BY <1>1, <1>8, <1>9, <1>10 DEF IInv

LEMMA AnsweredKeeps == ASSUME IInv, NEW c \in Mine, Answered(c), asked' = asked PROVE IInv'
  <1>1. TypeOK'
    BY AnsweredType DEF IInv
  <1>2. /\ req' = [req EXCEPT ![c] = Idle] /\ shown' = Applied(c) /\ req[c].at = "answered"
        /\ history'.crossed = history.crossed
        /\ history'.mine = (IF req[c].op = "create" THEN history.mine \cup {req[c].item} ELSE history.mine)
    BY DEF Answered, IInv, TypeOK
  <1>3. c \in Request /\ Idle.at = "idle"
    BY DEF Request, Idle
  <1>4. req'[c].at = "idle" /\ \A d \in Mine : d # c => req'[d] = req[d]
    BY <1>2, <1>3 DEF IInv, TypeOK
  <1>5. KeptIsKnown' /\ CurrentIsKnown'
    <2>1. current' = current /\ history.mine \subseteq history'.mine
      BY <1>2 DEF Answered
    <2> QED
      BY <1>2, <1>4, <2>1 DEF IInv, KeptIsKnown, CurrentIsKnown
  <1>6. PhantomNeedsOverlap'
    <2> SUFFICES ASSUME NEW x \in Item, Unconfirmed(shown'[x]), ~history.crossed PROVE Moving(x)'
      BY <1>2 DEF PhantomNeedsOverlap
    <2>1. Unconfirmed(shown[x]) /\ (x = req[c].item => req[c].op = "create")
      BY <1>2, AppliedType DEF IInv
    <2>2. PICK d \in Mine : req[d].at # "idle" /\ req[d].op = "move" /\ req[d].item = x
      BY <2>1 DEF IInv, PhantomNeedsOverlap, Moving
    <2>3. d # c
      BY <2>1, <2>2
    <2> QED
      BY <1>4, <2>2, <2>3 DEF Moving
  <1>7. ShownOnce'
    BY <1>2, AppliedType DEF IInv, ShownOnce
  <1> QED
    BY <1>1, <1>5, <1>6, <1>7 DEF IInv

LEMMA RollbackKeeps == ASSUME IInv, NEW c \in Mine, Failed(c), asked' = asked PROVE IInv'
  <1>1. /\ TypeOK' /\ shown' = (IF req[c].op = "move" THEN req[c].before ELSE shown)
        /\ req' = [req EXCEPT ![c] = Idle] /\ req[c].at # "idle"
        /\ history'.crossed = history.crossed /\ history'.mine = history.mine
    BY FailedType DEF IInv
  <1>2. c \in Request /\ Idle.at = "idle"
    BY DEF Request, Idle
  <1>3. req'[c].at = "idle" /\ \A d \in Mine : d # c => req'[d] = req[d]
    BY <1>1, <1>2 DEF IInv, TypeOK
  <1>4. KeptIsKnown' /\ CurrentIsKnown'
    <2>1. current' = current
      BY DEF Failed
    <2> QED
      BY <1>1, <1>3, <2>1 DEF IInv, KeptIsKnown, CurrentIsKnown
  <1>5. CASE req[c].op = "move"
    BY <1>1, <1>4, <1>5 DEF IInv, KeptIsKnown, PhantomNeedsOverlap, ShownOnce
  <1>6. CASE req[c].op # "move"
    <2>1. \A x \in Item : Moving(x) => Moving(x)'
      BY <1>3, <1>6 DEF Moving
    <2> QED
      BY <1>1, <1>4, <1>6, <2>1 DEF IInv, PhantomNeedsOverlap, ShownOnce
  <1> QED
    BY <1>5, <1>6

LEMMA NextInv == IInv /\ [Next]_vars => IInv'
  <1> SUFFICES ASSUME IInv, [Next]_vars PROVE IInv'
    OBVIOUS
  <1>1. CASE StreamStep /\ asked' = asked
    BY <1>1, StreamKeeps
  <1>2. CASE ServerStep /\ asked' = asked
    BY <1>2, ServerStepQuiet, QuietKeeps DEF IInv
  <1>3. ASSUME NEW c \in Mine, Answered(c) \/ Failed(c), asked' = asked PROVE IInv'
    BY <1>3, AnsweredKeeps, RollbackKeeps
  <1>4. ASSUME NEW c \in Mine, NEW t \in Item, Send(c, t) \/ Move(c, t) PROVE IInv'
    BY <1>4, SendKeeps, MoveKeeps
  <1>5. CASE UNCHANGED vars
    BY <1>5 DEF vars, serverVars, pageVars, IInv, TypeOK, KeptIsKnown, CurrentIsKnown,
                PhantomNeedsOverlap, ShownOnce, Moving
  <1>6. CASE (Load \/ Render) /\ asked' = asked
    BY <1>6, LoadKeeps, RenderKeeps
  <1> QED
    BY <1>1, <1>2, <1>3, <1>4, <1>5, <1>6 DEF Next, StreamStep, ServerStep

\* The variables of the board page stay in their domains.
THEOREM TypeCorrect == Spec => []TypeOK
  <1>1. IInv => TypeOK
    BY DEF IInv
  <1> QED
    BY InitInv, NextInv, <1>1, PTL DEF Spec

\* A status the server never had stays on the page only if two moves were under
\* way at once, or one began before the latest change was rendered, whatever the
\* stream, the answers and the failures bring.
THEOREM PhantomsNeedOverlap == Spec => []PhantomNeedsOverlap
  <1>1. IInv => PhantomNeedsOverlap
    BY DEF IInv
  <1> QED
    BY InitInv, NextInv, <1>1, PTL DEF Spec

\* An item is shown twice only if this page created it.
THEOREM ShownOnceUnlessCreatedHere == Spec => []ShownOnce
  <1>1. IInv => ShownOnce
    BY DEF IInv
  <1> QED
    BY InitInv, NextInv, <1>1, PTL DEF Spec

-----------------------------------------------------------------------------
(* What is shown wrong, and why.  A card is known to the page when it is    *)
(* shown or was rendered, kept for a rollback, in an answer or in a payload  *)
(* under way.                                                              *)

Tasks == kind = "tasks"
Payloads == [item : Item, stamp : Nat, v : Nat, at : Nat]
CardsIn(s) == {s[i] : i \in 1..Len(s)}

OnWire(t) == \E i \in 1..Len(wire) : wire[i].item = t
OfWire(t) == {Card(wire[i]) : i \in {j \in 1..Len(wire) : wire[j].item = t}}

\* From some payload of t on, all bring its row as it is.
Brings(t) ==
    \E i \in 1..Len(wire) :
        wire[i].item = t /\ \A j \in i..Len(wire) : wire[j].item = t => wire[j].v = row[t].v

Answering(c, t) == req[c].at = "answered" /\ req[c].op # "delete" /\ req[c].item = t
Deleting(c, t) == req[c].at = "answered" /\ req[c].op = "delete" /\ req[c].item = t
KnownCard(t, x) ==
    \/ x \in CardsIn(shown[t]) \cup CardsIn(current[t]) \cup OfWire(t)
    \/ \E c \in Mine : x \in CardsIn(req[c].before[t]) \/ (Answering(c, t) /\ x = req[c].answer)

\* A move whose rollback shows t as it is.
Restores(c, t) ==
    /\ req[c].at # "idle" /\ req[c].op = "move" /\ req[c].item = t
    /\ req[c].before[t] # <<>> /\ \A x \in CardsIn(req[c].before[t]) : x.v = row[t].v

\* The page will be told, or never will.
Told(t) == t \in history.missed \/ t \in Due

\* What is under way for a live item ends with its row, or with a card the page
\* does not know yet, and then the gap is known.
Coming(t) ==
    stream.on /\ Live(t) /\ ~Told(t) /\ OnWire(t) =>
        \/ Brings(t)
        \/ /\ Tasks /\ (Untold(t) \/ t \in history.gap)
           /\ \A x : KnownCard(t, x) => x.v # row[t].v

\* A live item of which nothing is under way is right, or a rollback makes it so.
Settled(t) ==
    stream.on /\ Live(t) /\ ~Told(t) /\ ~OnWire(t) /\ ~Untold(t) /\ t \notin history.gap =>
        Right(t) \/ \E c \in Mine : Restores(c, t)

\* Cards of a deleted item are known to stay, or the page is about to delete them.
Buried(t) ==
    ~Live(t) /\ shown[t] # <<>> => t \in history.gap \/ \E c \in Mine : Deleting(c, t)

\* What the argument needs to know of stamps and moves.
StreamOK ==
    /\ stream \in [on : BOOLEAN, lastSeen : 0..clock, seen : SUBSET Nat]
    /\ stream.on => loaded
    /\ ~stream.on => wire = <<>>
    /\ Tasks => stream.seen \subseteq {stream.lastSeen}

RowsOK ==
    \A t \in Item : /\ row[t].at <= clock /\ event[t] <= clock
                    /\ Live(t) => row[t].at > 0
                    /\ Tasks /\ Live(t) => row[t].v = row[t].at

Bounded(x) == x.at \in 1..clock /\ (Tasks /\ x.v # Hope => x.v \in 1..clock)
Dated == \A t \in Item : \A x : KnownCard(t, x) => Bounded(x)

\* A write that is stamped, and in no row yet.
Uncommitted(c) == req[c].at = "stamped" \/ (req[c].op = "lead" /\ req[c].at = "recorded")

\* A write of t is in its row, in a card or in an answer read for the page.
Carried(t, v) ==
    \/ row[t].v = v
    \/ \E x : KnownCard(t, x) /\ x.v = v
    \/ \E d \in Mine : req[d].at = "recorded" /\ req[d].item = t /\ req[d].answer.v = v

\* Commits come in any order, but nobody has seen a write before its commit, and
\* no two writes have the same stamp.
Unique(c) ==
    Uncommitted(c) =>
        /\ req[c].v \in 1..clock
        /\ Tasks => ~Carried(req[c].item, req[c].v)
        /\ Tasks => \A d \in Request : d # c /\ Uncommitted(d) => req[d].v # req[c].v

\* An event that is still to come has a stamp of its own.
Fresh(c) ==
    req[c].at = "recorded" =>
        /\ Tasks /\ req[c].ev \in 1..clock /\ req[c].ev \notin stream.seen
        /\ \A t \in Item : event[t] # req[c].ev
        /\ \A d \in Request : d # c /\ req[d].at = "recorded" => req[d].ev # req[c].ev

\* What a move keeps is not what its item has become by it, or after it.
Moved(c) ==
    /\ req[c].at = "recorded" => Bounded(req[c].answer)
    /\ req[c].op = "move" /\ req[c].at \in {"written", "recorded", "answered"} =>
          \A x \in CardsIn(req[c].before[req[c].item]) : x.v # row[req[c].item].v

\* Who asks for what.
Legal(c) ==
    /\ Tasks => req[c].op # "reopen"
    /\ req[c].op = "move" => Tasks
    /\ req[c].at = "sent" => c \in Mine

Grounds ==
    /\ StreamOK /\ RowsOK /\ Dated
    /\ \A c \in Request : Legal(c) /\ Unique(c) /\ Fresh(c)
    /\ \A c \in Mine : Moved(c)

WInv == IInv /\ Grounds /\ \A t \in Item : Coming(t) /\ Settled(t) /\ Buried(t)

-----------------------------------------------------------------------------
(* Cards and payloads. *)

CardRecord == [v : Nat \cup {Hope}, at : Nat]

LEMMA CardsInType == ASSUME NEW s \in Cards PROVE CardsIn(s) \subseteq CardRecord /\ (s # <<>> => s[1] \in CardsIn(s))
  <1> DEFINE C == CardRecord
  <1>1. s \in Seq(C)
    BY DEF Cards, CardRecord
  <1> HIDE DEF C
  <1> QED
    BY <1>1 DEF CardsIn, C

\* How a payload is put among the cards of its item.
PutFirst(s, x) == IF s = <<>> THEN <<x>> ELSE [s EXCEPT ![1] = x]

LEMMA CardsPut ==
    ASSUME NEW s \in Cards, NEW x \in CardRecord
    PROVE  /\ PutFirst(s, x) # <<>> /\ x \in CardsIn(PutFirst(s, x))
           /\ CardsIn(PutFirst(s, x)) \subseteq CardsIn(s) \cup {x}
           /\ ~(Len(s) > 1) => CardsIn(PutFirst(s, x)) = {x}
  <1> DEFINE C == CardRecord
             new == PutFirst(s, x)
  <1>1. s \in Seq(C) /\ x \in C
    BY DEF Cards, CardRecord
  <1> HIDE DEF C
  <1>2. /\ Len(s) \in Nat /\ (s # <<>> <=> Len(s) > 0)
        /\ Len(new) = (IF s = <<>> THEN 1 ELSE Len(s)) /\ new # <<>> /\ new[1] = x
        /\ \A i \in 2..Len(new) : new[i] = s[i]
    BY <1>1 DEF PutFirst
  <1> HIDE DEF new
  <1> QED
    BY <1>1, <1>2 DEF CardsIn, new

LEMMA CardsFront ==
    ASSUME NEW s \in Cards, NEW x \in CardRecord
    PROVE  CardsIn(<<x>> \o s) \subseteq CardsIn(s) \cup {x} /\ <<x>> \o s # <<>> /\ x \in CardsIn(<<x>> \o s)
  <1> DEFINE C == CardRecord
             new == <<x>> \o s
  <1>1. s \in Seq(C) /\ x \in C
    BY DEF Cards, CardRecord
  <1> HIDE DEF C
  <1>2. /\ Len(s) \in Nat /\ Len(new) = 1 + Len(s) /\ new # <<>> /\ new[1] = x
        /\ \A i \in 2..Len(new) : new[i] = s[i - 1]
    BY <1>1
  <1> HIDE DEF new
  <1>3. \A i \in 2..Len(new) : i - 1 \in 1..Len(s)
    BY <1>2
  <1> QED
    BY <1>2, <1>3 DEF CardsIn, new

LEMMA CardsAll ==
    ASSUME NEW s \in Cards, NEW x
    PROVE  /\ CardsIn([i \in 1..Len(s) |-> x]) \subseteq {x}
           /\ s # <<>> => [i \in 1..Len(s) |-> x] # <<>>
  <1> DEFINE C == CardRecord
             new == [i \in 1..Len(s) |-> x]
  <1>1. s \in Seq(C)
    BY DEF Cards, CardRecord
  <1> HIDE DEF C
  <1>2. Len(s) \in Nat /\ (s # <<>> <=> Len(s) > 0)
    BY <1>1
  <1>3. Len(new) = Len(s) /\ \A i \in 1..Len(new) : new[i] = x
    BY <1>2
  <1> HIDE DEF new
  <1> QED
    BY <1>2, <1>3 DEF CardsIn, new

\* A row never has the value that an optimistic move shows.
LEMMA RowNotHoped == ASSUME TypeOK, NEW u \in Item PROVE row[u].v # Hope
  <1>1. row[u].v \in Nat
    BY DEF TypeOK, Row
  <1> QED
    BY <1>1, HopeAssumption

LEMMA CardsHoped ==
    ASSUME NEW s \in Cards
    PROVE  /\ \A x \in CardsIn(Hoped(s)) : x.v = Hope /\ \E y \in CardsIn(s) : x.at = y.at
           /\ s # <<>> => Hoped(s) # <<>> /\ \E x \in CardsIn(Hoped(s)) : x.v = Hope
  <1> DEFINE C == CardRecord
  <1>1. s \in Seq(C)
    BY DEF Cards, CardRecord
  <1> HIDE DEF C
  <1>2. Len(s) \in Nat /\ (s # <<>> <=> Len(s) > 0) /\ \A i \in 1..Len(s) : s[i] \in C
    BY <1>1
  <1>3. Len(Hoped(s)) = Len(s) /\ \A i \in 1..Len(s) : Hoped(s)[i] = [s[i] EXCEPT !.v = Hope]
    BY <1>2 DEF Hoped
  <1>4. \A i \in 1..Len(s) : Hoped(s)[i].v = Hope /\ Hoped(s)[i].at = s[i].at
    BY <1>2, <1>3 DEF C, CardRecord
  <1>5. ASSUME NEW x \in CardsIn(Hoped(s)) PROVE x.v = Hope /\ \E y \in CardsIn(s) : x.at = y.at
    <2>1. PICK i \in 1..Len(s) : x = Hoped(s)[i]
      BY <1>3 DEF CardsIn
    <2> QED
      BY <1>4, <2>1 DEF CardsIn
  <1>6. ASSUME s # <<>> PROVE Hoped(s)[1] \in CardsIn(Hoped(s)) /\ Hoped(s)[1].v = Hope
    BY <1>2, <1>3, <1>4, <1>6 DEF CardsIn
  <1>7. ASSUME s # <<>> PROVE Hoped(s) # <<>>
    <2>1. Len(Hoped(s)) > 0 /\ Len(<<>>) = 0
      BY <1>2, <1>3, <1>7
    <2> QED
      BY <2>1
  <1> QED
    BY <1>5, <1>6, <1>7

LEMMA RightCards ==
    ASSUME NEW t \in Item
    PROVE  Right(t) <=> IF Live(t) THEN shown[t] # <<>> /\ \A x \in CardsIn(shown[t]) : x.v = row[t].v
                        ELSE shown[t] = <<>>
  BY DEF Right, CardsIn

-----------------------------------------------------------------------------
(* Payloads under way. *)

\* The first payload is taken.
LEMMA WireDeliver ==
    ASSUME TypeOK, wire # <<>>, wire' = Tail(wire), row' = row, NEW t \in Item
    PROVE  /\ Head(wire) \in Payloads /\ Card(Head(wire)) \in OfWire(Head(wire).item)
           /\ OnWire(t)' => OnWire(t)
           /\ \A x : x \in OfWire(t)' => x \in OfWire(t)
           /\ Brings(t) /\ OnWire(t)' => Brings(t)'
           /\ OnWire(t) /\ ~OnWire(t)' => Head(wire).item = t
           /\ Brings(t) /\ ~OnWire(t)' => Head(wire).v = row[t].v
  <1> DEFINE P == Payloads
             n == Len(wire)
             later == wire'
  <1>1. wire \in Seq(P)
    BY DEF TypeOK, Payloads
  <1>2. /\ n \in Nat /\ n > 0 /\ Len(later) = n - 1 /\ Head(wire) = wire[1] /\ Head(wire) \in P
        /\ \A k \in 1..(n - 1) : later[k] = wire[k + 1]
    <2> HIDE DEF P
    <2> QED
      BY <1>1
  <1> HIDE DEF P, n, later
  <1>3. \A k \in 1..n : k = 1 \/ (k - 1 \in 1..Len(later) /\ wire[k] = later[k - 1])
    BY <1>2
  <1>4. \A k \in 1..Len(later) : k + 1 \in 1..n /\ later[k] = wire[k + 1]
    BY <1>2
  <1>5. OnWire(t)' <=> \E k \in 1..Len(later) : later[k].item = t
    BY DEF OnWire, later
  <1>6. OnWire(t)' => OnWire(t)
    BY <1>4, <1>5 DEF OnWire, n
  <1>7. ASSUME NEW x \in OfWire(t)' PROVE x \in OfWire(t)
    <2>1. PICK k \in 1..Len(later) : later[k].item = t /\ x = [v |-> later[k].v, at |-> later[k].at]
      BY <1>7 DEF OfWire, Card, later
    <2> QED
      BY <1>4, <2>1 DEF OfWire, Card, n
  <1>8. OnWire(t) /\ ~OnWire(t)' => Head(wire).item = t
    BY <1>2, <1>3, <1>5 DEF OnWire, n
  <1>9. ASSUME Brings(t), OnWire(t)' PROVE Brings(t)'
    <2>1. PICK i \in 1..n : wire[i].item = t /\ \A j \in i..n : wire[j].item = t => wire[j].v = row[t].v
      BY <1>9 DEF Brings, n
    <2>2. PICK k \in 1..Len(later) : later[k].item = t
      BY <1>5, <1>9
    <2> DEFINE m == IF i = 1 THEN k ELSE i - 1
    <2>3. m \in 1..Len(later) /\ later[m].item = t
      BY <1>3, <2>1, <2>2
    <2>4. ASSUME NEW j \in m..Len(later), later[j].item = t PROVE later[j].v = row[t].v
      <3>1. j + 1 \in i..n /\ later[j] = wire[j + 1]
        BY <1>2, <1>4, <2>1, <2>3
      <3> QED
        BY <2>1, <2>4, <3>1
    <2> QED
      BY <2>3, <2>4 DEF Brings, later
  <1>10. ASSUME Brings(t), ~OnWire(t)' PROVE Head(wire).v = row[t].v
    <2>1. PICK i \in 1..n : wire[i].item = t /\ \A j \in i..n : wire[j].item = t => wire[j].v = row[t].v
      BY <1>10 DEF Brings, n
    <2>2. i = 1
      BY <1>3, <1>5, <1>10, <2>1
    <2> QED
      BY <1>2, <2>1, <2>2
  <1>11. Card(Head(wire)) \in OfWire(Head(wire).item)
    <2>1. 1 \in {j \in 1..Len(wire) : wire[j].item = Head(wire).item}
      BY <1>2 DEF n
    <2> QED
      BY <1>2, <2>1 DEF OfWire
  <1> QED
    BY <1>2, <1>6, <1>7, <1>8, <1>9, <1>10, <1>11 DEF P

\* A round sends every entry that is due, and each once.
LEMMA DueOnce ==
    ASSUME TypeOK, NEW q \in Sorted(Due)
    PROVE  /\ Cardinality(Due) \in Nat /\ DOMAIN q = 1..Cardinality(Due)
           /\ \A i \in DOMAIN q : q[i] \in Due
           /\ \A u \in Due : \E i \in DOMAIN q : q[i] = u
  <1>1. Due \subseteq Item /\ IsFiniteSet(Due)
    BY ItemAssumption, FS_Subset DEF Due
  <1>2. Cardinality(Due) \in Nat
    BY <1>1, FS_CardinalityType
  <1> DEFINE n == Cardinality(Due)
  <1>3. q \in [1..n -> Due] /\ \A i, j \in 1..n : i < j => Entry(q[i]) < Entry(q[j])
    BY DEF Sorted
  <1>4. \A u \in Due : Entry(u) \in Nat
    BY <1>1 DEF Entry, TypeOK, Row
  <1> HIDE DEF n
  <1>5. \A i, j \in 1..n : q[i] = q[j] => i = j
    <2> SUFFICES ASSUME NEW i \in 1..n, NEW j \in 1..n, q[i] = q[j], i # j PROVE FALSE
      OBVIOUS
    <2>1. i < j \/ j < i
      BY <1>2 DEF n
    <2>2. Entry(q[i]) < Entry(q[j]) \/ Entry(q[j]) < Entry(q[i])
      BY <1>3, <2>1
    <2>3. Entry(q[i]) = Entry(q[j]) /\ Entry(q[i]) \in Nat
      BY <1>3, <1>4
    <2> QED
      BY <2>2, <2>3
  <1>6. q \in Injection(1..n, Due)
    BY <1>3, <1>5 DEF Injection, IsInjective
  <1>7. Cardinality(1..n) = n
    <2>1. n \in Int /\ 1 \in Int /\ (1 > n => n = 0) /\ n - 1 + 1 = n
      BY <1>2 DEF n
    <2> QED
      BY <2>1, FS_Interval
  <1>8. q \in Surjection(1..n, Due)
    BY <1>1, <1>6, <1>7, FS_Injection DEF n
  <1> QED
    BY <1>2, <1>3, <1>8 DEF n, Surjection

LEMMA Appended ==
    ASSUME NEW P, NEW a \in Seq(P), NEW b \in Seq(P)
    PROVE  /\ Len(a) \in Nat /\ Len(b) \in Nat /\ Len(a \o b) = Len(a) + Len(b)
           /\ \A i \in 1..Len(a) : (a \o b)[i] = a[i]
           /\ \A i \in 1..Len(b) : (a \o b)[Len(a) + i] = b[i]
  <1>1. Len(a) \in Nat /\ Len(b) \in Nat /\ Len(a \o b) = Len(a) + Len(b)
    OBVIOUS
  <1>2. ASSUME NEW i \in 1..Len(a) PROVE (a \o b)[i] = a[i]
    <2>1. i \in 1..Len(a) + Len(b) /\ i <= Len(a)
      BY <1>1
    <2> QED
      BY <2>1
  <1>3. ASSUME NEW i \in 1..Len(b) PROVE (a \o b)[Len(a) + i] = b[i]
    <2>1. Len(a) + i \in 1..Len(a) + Len(b) /\ ~(Len(a) + i <= Len(a)) /\ (Len(a) + i) - Len(a) = i
      BY <1>1
    <2> QED
      BY <2>1
  <1> QED
    BY <1>1, <1>2, <1>3

LEMMA WirePoll ==
    ASSUME TypeOK, NEW q \in Sorted(Due), wire' = wire \o [i \in DOMAIN q |-> Payload(q[i])],
           row' = row, NEW t \in Item
    PROVE  /\ t \in Due => OnWire(t)' /\ Brings(t)'
           /\ t \notin Due => (OnWire(t)' <=> OnWire(t)) /\ (Brings(t) => Brings(t)')
           /\ \A x : x \in OfWire(t)' => x \in OfWire(t) \/ (t \in Due /\ x = [v |-> row[t].v, at |-> row[t].at])
  <1> DEFINE P == Payloads
             n == Cardinality(Due)
             s == [i \in DOMAIN q |-> Payload(q[i])]
             m == Len(wire)
             more == wire'
  <1>1. /\ n \in Nat /\ DOMAIN q = 1..n /\ \A i \in 1..n : q[i] \in Due
        /\ \A u \in Due : \E i \in 1..n : q[i] = u
    BY DueOnce
  <1>2. \A u \in Due : Payload(u) \in P /\ Payload(u).item = u /\ Payload(u).v = row[u].v /\ Payload(u).at = row[u].at
    BY DEF Payload, Payloads, Entry, TypeOK, Row, Due
  <1>3. wire \in Seq(P)
    BY DEF TypeOK, Payloads
  <1>4. \A i \in 1..n : s[i] \in P /\ s[i].item = q[i] /\ s[i].v = row[q[i]].v /\ s[i].at = row[q[i]].at
    BY <1>1, <1>2
  <1>5. s \in Seq(P) /\ Len(s) = n
    <2> HIDE DEF P
    <2> QED
      BY <1>1, <1>4
  <1>6. /\ m \in Nat /\ Len(more) = m + n
        /\ \A i \in 1..m : more[i] = wire[i]
        /\ \A i \in 1..n : more[m + i] = s[i]
    <2> HIDE DEF P, s, n
    <2>1. more = wire \o s
      BY DEF s
    <2>2. /\ Len(wire) \in Nat /\ Len(wire \o s) = Len(wire) + n
          /\ \A i \in 1..Len(wire) : (wire \o s)[i] = wire[i]
          /\ \A i \in 1..n : (wire \o s)[Len(wire) + i] = s[i]
      BY <1>1, <1>3, <1>5, Appended
    <2> QED
      BY <2>1, <2>2
  <1> HIDE DEF P, n, s, m, more
  <1>7. \A k \in 1..Len(more) : k \in 1..m \/ (k - m \in 1..n /\ more[k] = s[k - m])
    <2> SUFFICES ASSUME NEW k \in 1..Len(more), k \notin 1..m PROVE k - m \in 1..n /\ more[k] = s[k - m]
      OBVIOUS
    <2>1. k - m \in 1..n /\ m + (k - m) = k
      BY <1>1, <1>6
    <2> QED
      BY <1>6, <2>1
  <1>8. \A i \in 1..m : i \in 1..Len(more)
    BY <1>1, <1>6
  <1>9. \A i \in 1..n : m + i \in 1..Len(more) /\ ~(m + i \in 1..m)
    BY <1>1, <1>6
  <1>10. OnWire(t)' <=> \E k \in 1..Len(more) : more[k].item = t
    BY DEF OnWire, more
  <1>11. Brings(t)' <=> \E i \in 1..Len(more) :
            more[i].item = t /\ \A j \in i..Len(more) : more[j].item = t => more[j].v = row[t].v
    BY DEF Brings, more
  <1>12. ASSUME t \in Due PROVE OnWire(t)' /\ Brings(t)'
    <2>1. PICK i \in 1..n : q[i] = t
      BY <1>1, <1>12
    <2>2. m + i \in 1..Len(more) /\ more[m + i].item = t
      BY <1>4, <1>6, <1>9, <2>1
    <2>3. ASSUME NEW j \in (m + i)..Len(more), more[j].item = t PROVE more[j].v = row[t].v
      <3>1. j \in 1..Len(more) /\ j \notin 1..m
        BY <1>1, <1>6, <2>1, <2>3
      <3>2. j - m \in 1..n /\ more[j] = s[j - m]
        BY <1>7, <3>1
      <3> QED
        BY <1>4, <2>3, <3>2
    <2> QED
      BY <1>10, <1>11, <2>2, <2>3
  <1>13. ASSUME t \notin Due, NEW k \in 1..Len(more), more[k].item = t
         PROVE  k \in 1..m /\ more[k] = wire[k]
    <2>1. CASE k - m \in 1..n /\ more[k] = s[k - m]
      <3> DEFINE i == k - m
      <3>1. i \in 1..n /\ more[k] = s[i]
        BY <2>1
      <3> HIDE DEF i
      <3>2. q[i] \in Due /\ q[i] = t
        BY <1>1, <1>4, <1>13, <3>1
      <3> QED
        BY <1>13, <3>2
    <2>2. k \in 1..m
      BY <1>7, <2>1
    <2> QED
      BY <1>6, <2>2
  <1>14. ASSUME t \notin Due PROVE OnWire(t)' <=> OnWire(t)
    BY <1>6, <1>8, <1>10, <1>13, <1>14 DEF OnWire, m
  <1>15. ASSUME t \notin Due, Brings(t) PROVE Brings(t)'
    <2>1. PICK i \in 1..m : wire[i].item = t /\ \A j \in i..m : wire[j].item = t => wire[j].v = row[t].v
      BY <1>15 DEF Brings, m
    <2>2. i \in 1..Len(more) /\ more[i].item = t
      BY <1>6, <1>8, <2>1
    <2>3. ASSUME NEW j \in i..Len(more), more[j].item = t PROVE more[j].v = row[t].v
      <3>1. j \in 1..Len(more)
        BY <1>1, <1>6, <2>1
      <3>2. j \in 1..m /\ more[j] = wire[j]
        BY <1>13, <1>15, <2>3, <3>1
      <3>3. j \in i..m
        BY <1>6, <2>1, <3>2
      <3> QED
        BY <2>1, <2>3, <3>2, <3>3
    <2> QED
      BY <1>11, <2>2, <2>3
  <1>16. ASSUME NEW x \in OfWire(t)'
         PROVE  x \in OfWire(t) \/ (t \in Due /\ x = [v |-> row[t].v, at |-> row[t].at])
    <2>1. PICK k \in 1..Len(more) : more[k].item = t /\ x = [v |-> more[k].v, at |-> more[k].at]
      BY <1>16 DEF OfWire, Card, more
    <2>2. CASE k \in 1..m
      <3>1. more[k] = wire[k] /\ k \in {j \in 1..Len(wire) : wire[j].item = t}
        BY <1>6, <2>1, <2>2 DEF m
      <3> QED
        BY <2>1, <3>1 DEF OfWire, Card
    <2>3. CASE k \notin 1..m
      <3> DEFINE i == k - m
      <3>1. i \in 1..n /\ more[k] = s[i]
        BY <1>7, <2>3
      <3> HIDE DEF i
      <3> QED
        BY <1>1, <1>4, <2>1, <3>1
    <2> QED
      BY <2>2, <2>3
  <1> QED
    BY <1>12, <1>14, <1>15, <1>16

-----------------------------------------------------------------------------
(* What is shown wrong, item by item. *)

Explained(t) == Coming(t) /\ Settled(t) /\ Buried(t)

LEMMA WrongFollows == WInv => WrongIsKnown
  <1> SUFFICES ASSUME WInv, stream.on, NEW t \in Wrong, t \notin history.gap \cup history.missed, t \notin Due,
                      ~ \E i \in 1..Len(wire) : wire[i].item = t
               PROVE  \E c \in Request : req[c].at # "idle" /\ req[c].item = t
    BY DEF WrongIsKnown
  <1>1. t \in Item /\ ~Right(t) /\ ~Told(t) /\ ~OnWire(t) /\ Explained(t)
    BY DEF Wrong, Told, OnWire, WInv, Explained
  <1>2. Mine \subseteq Request
    BY DEF Request
  <1>3. CASE Live(t)
    <2>1. Untold(t) \/ \E c \in Mine : Restores(c, t)
      BY <1>1, <1>3 DEF Explained, Settled
    <2> QED
      BY <1>2, <2>1 DEF Untold, Restores
  <1>4. CASE ~Live(t)
    <2>1. shown[t] # <<>>
      BY <1>1, <1>4 DEF Right
    <2>2. \E c \in Mine : Deleting(c, t)
      BY <1>1, <1>4, <2>1 DEF Explained, Buried
    <2> QED
      BY <1>2, <2>2 DEF Deleting
  <1> QED
    BY <1>3, <1>4

\* What holds of a live item that is right.
LEMMA RightCard ==
    ASSUME TypeOK, NEW t \in Item, Live(t), Right(t)
    PROVE  \E x : KnownCard(t, x) /\ x.v = row[t].v
  <1>1. shown[t] \in Cards /\ shown[t] # <<>>
    BY DEF TypeOK, Right
  <1>2. shown[t][1] \in CardsIn(shown[t])
    BY <1>1, CardsInType
  <1>3. shown[t][1].v = row[t].v
    BY <1>2, RightCards
  <1> QED
    BY <1>2, <1>3 DEF KnownCard

LEMMA RightCardLater ==
    ASSUME TypeOK', NEW t \in Item, Live(t)', Right(t)'
    PROVE  \E x : KnownCard(t, x)' /\ x.v = row'[t].v
  <1>1. shown'[t] \in Cards /\ shown'[t] # <<>> /\ \A i \in 1..Len(shown'[t]) : shown'[t][i].v = row'[t].v
    BY DEF TypeOK, Right
  <1>2. shown'[t][1] \in CardsIn(shown'[t])
    BY <1>1, CardsInType
  <1>3. shown'[t][1].v = row'[t].v
    BY <1>1, <1>2 DEF CardsIn
  <1> QED
    BY <1>2, <1>3 DEF KnownCard

\* A step that leaves the item's row and payloads as they are, and after which it
\* is right, or known to be wrong, or to be put right by a rollback, if it was.
Undisturbed(u) ==
    /\ row'[u] = row[u] /\ kind' = kind /\ stream'.on = stream.on
    /\ Told(u) => Told(u)'
    /\ OnWire(u)' <=> OnWire(u)
    /\ Brings(u) => Brings(u)'
    /\ Tasks => \A x : KnownCard(u, x)' => KnownCard(u, x) \/ x.v = Hope
    /\ u \in history.gap \/ Untold(u) => u \in history'.gap \/ Untold(u)' \/ Right(u)'
    /\ Live(u) /\ (Right(u) \/ \E c \in Mine : Restores(c, u))
          => Right(u)' \/ u \in history'.gap \/ \E c \in Mine : Restores(c, u)'
    /\ ~Live(u) /\ shown'[u] # <<>> =>
          \/ u \in history'.gap
          \/ shown[u] # <<>> /\ u \notin history.gap /\ \A c \in Mine : Deleting(c, u) => Deleting(c, u)'

LEMMA UndisturbedKeeps ==
    ASSUME TypeOK, TypeOK', NEW u \in Item, Explained(u), Undisturbed(u)
    PROVE  Explained(u)'
  <1>1. row'[u] = row[u] /\ (Live(u)' <=> Live(u)) /\ stream'.on = stream.on /\ (Tasks' <=> Tasks)
    BY DEF Undisturbed, Live, Tasks
  <1>2. row[u].v # Hope
    BY RowNotHoped
  <1>3. Coming(u)'
    <2> SUFFICES ASSUME stream'.on, Live(u)', ~Told(u)', OnWire(u)', ~Brings(u)'
                 PROVE  /\ Tasks' /\ (Untold(u)' \/ u \in history'.gap)
                        /\ \A x : KnownCard(u, x)' => x.v # row'[u].v
      BY DEF Coming
    <2>1. Tasks /\ (Untold(u) \/ u \in history.gap) /\ \A x : KnownCard(u, x) => x.v # row[u].v
      BY <1>1 DEF Explained, Coming, Undisturbed
    <2>2. \A x : KnownCard(u, x)' => x.v # row'[u].v
      BY <1>1, <1>2, <2>1 DEF Undisturbed
    <2>3. ~Right(u)'
      BY <2>2, RightCardLater
    <2> QED
      BY <1>1, <2>1, <2>2, <2>3 DEF Undisturbed
  <1>4. Settled(u)'
    <2> SUFFICES ASSUME stream'.on, Live(u)', ~Told(u)', ~OnWire(u)', ~Untold(u)', u \notin history'.gap
                 PROVE  Right(u)' \/ \E c \in Mine : Restores(c, u)'
      BY DEF Settled
    <2> QED
      BY <1>1 DEF Explained, Settled, Undisturbed
  <1>5. Buried(u)'
    BY <1>1 DEF Explained, Buried, Undisturbed
  <1> QED
    BY <1>3, <1>4, <1>5 DEF Explained

\* The payloads, and whether the item is told of, are as they were.
LEMMA SameStream ==
    ASSUME NEW u \in Item, row'[u] = row[u], event'[u] = event[u], kind' = kind, stream' = stream, wire' = wire,
           u \in history.missed => u \in history'.missed
    PROVE  /\ Told(u) => Told(u)'
           /\ OnWire(u)' <=> OnWire(u)
           /\ Brings(u)' <=> Brings(u)
           /\ OfWire(u)' = OfWire(u)
  <1>1. u \in Due => u \in Due'
    BY DEF Due, Entry, Live
  <1> QED
    BY <1>1 DEF Told, OnWire, Brings, OfWire, Card

-----------------------------------------------------------------------------
(* Stamps and moves, by the requests a step changes. *)

LEMMA BeforeType ==
    ASSUME TypeOK, NEW c \in Request, NEW t \in Item, NEW x \in CardsIn(req[c].before[t])
    PROVE  x.v \in Nat \cup {Hope} /\ x.at \in Nat
  <1>1. req[c].before[t] \in Cards
    BY DEF TypeOK, RequestRecord
  <1> QED
    BY <1>1, CardsInType DEF CardRecord

\* No write carries a stamp of the future, or is carried by what is deleted.
LEMMA CarriedBound ==
    ASSUME TypeOK, Grounds, Tasks, NEW t \in Item, NEW v, Carried(t, v)
    PROVE  v = Hope \/ (v \in 0..clock /\ (Live(t) => v # 0))
  <1>0. clock \in Nat /\ row[t].v \in Nat /\ row[t].at \in Nat
    BY DEF TypeOK, Row
  <1>1. CASE row[t].v = v
    <2>1. CASE Live(t)
      <3>1. row[t].at <= clock /\ row[t].v = row[t].at
        BY <2>1 DEF Grounds, RowsOK
      <3> QED
        BY <1>0, <1>1, <2>1, <3>1 DEF Live
    <2>2. CASE ~Live(t)
      BY <1>0, <1>1, <2>2 DEF Live
    <2> QED
      BY <2>1, <2>2
  <1>2. ASSUME NEW x, KnownCard(t, x), x.v = v PROVE v = Hope \/ v \in 1..clock
    BY <1>2 DEF Grounds, Dated, Bounded
  <1>3. ASSUME NEW d \in Mine, req[d].at = "recorded", req[d].answer.v = v PROVE v \in 1..clock
    <2>1. req[d].answer.v # Hope
      BY <1>3, HopeAssumption DEF TypeOK, RequestRecord, Row, Request
    <2> QED
      BY <1>3, <2>1 DEF Grounds, Moved, Bounded
  <1>4. \A u \in 1..clock : u \in 0..clock /\ u # 0
    BY <1>0
  <1>5. row[t].v = v \/ v = Hope \/ v \in 1..clock
    BY <1>2, <1>3 DEF Carried
  <1>6. CASE v \in 1..clock
    BY <1>4, <1>6
  <1> QED
    BY <1>1, <1>5, <1>6

\* What a step shows the page is known, or was carried.
Reveals ==
    \A t \in Item : \A x : KnownCard(t, x)' =>
        KnownCard(t, x) \/ (Bounded(x)' /\ (Tasks => x.v = Hope \/ Carried(t, x.v)))

Reads(c) == c \in Mine /\ req'[c].at = "recorded" => Carried(req'[c].item, req'[c].answer.v)

LEMMA CarriedStep ==
    ASSUME NEW C \in SUBSET Request, \A d \in Request \ C : req'[d] = req[d],
           Tasks, Reveals, \A c \in C : Reads(c),
           NEW t \in Item, NEW v, Carried(t, v)'
    PROVE  Carried(t, v) \/ v = Hope \/ row'[t].v = v
  <1>1. ASSUME NEW x, KnownCard(t, x)', x.v = v PROVE Carried(t, v) \/ v = Hope
    <2>1. KnownCard(t, x) \/ v = Hope \/ Carried(t, v)
      BY <1>1 DEF Reveals
    <2> QED
      BY <1>1, <2>1 DEF Carried
  <1>2. ASSUME NEW d \in Mine, req'[d].at = "recorded", req'[d].item = t, req'[d].answer.v = v
        PROVE  Carried(t, v)
    <2>1. CASE d \in C
      <3>1. Reads(d)
        BY <2>1
      <3> QED
        BY <1>2, <3>1 DEF Reads
    <2>2. CASE d \notin C
      <3>1. req'[d] = req[d]
        BY <2>2 DEF Request
      <3> QED
        BY <1>2, <3>1 DEF Carried
    <2> QED
      BY <2>1, <2>2
  <1> QED
    BY <1>1, <1>2 DEF Carried

\* A row changes to a write that nobody had seen, and nobody else has.
News(C) ==
    Tasks => \A t \in Item : row'[t].v # row[t].v =>
        /\ ~Carried(t, row'[t].v)
        /\ \A d \in Request \ C : Uncommitted(d) => req[d].v # row'[t].v

LEMMA GroundsKeep ==
    ASSUME TypeOK, TypeOK', Grounds, NEW C \in SUBSET Request,
           kind' = kind, clock <= clock', \A d \in Request \ C : req'[d] = req[d],
           News(C), Reveals, \A c \in C : Reads(c),
           \A d \in Request \ C : req[d].at = "recorded" =>
               req[d].ev \notin stream'.seen /\ \A t \in Item : event'[t] # req[d].ev,
           StreamOK', RowsOK',
           \A c \in C : Legal(c)' /\ Unique(c)' /\ Fresh(c)' /\ (c \in Mine => Moved(c)')
    PROVE  Grounds'
  <1>1. clock \in Nat /\ clock' \in Nat /\ (Tasks' <=> Tasks)
    BY DEF TypeOK, Tasks
  <1>2. \A x : Bounded(x) => Bounded(x)'
    <2> SUFFICES ASSUME NEW x, Bounded(x) PROVE Bounded(x)'
      OBVIOUS
    <2>1. x.at \in 1..clock /\ (Tasks /\ x.v # Hope => x.v \in 1..clock)
      BY DEF Bounded
    <2> QED
      BY <1>1, <2>1 DEF Bounded
  <1>3. Dated'
    BY <1>2 DEF Dated, Reveals, Grounds
  <1>4. \A d \in Request : req[d].item \in Item
    BY DEF TypeOK, RequestRecord
  <1>5. ASSUME NEW d \in Request \ C PROVE Legal(d)'
    BY <1>1 DEF Grounds, Legal
  <1>6. ASSUME NEW d \in Request \ C PROVE Unique(d)'
    <2> SUFFICES ASSUME Uncommitted(d)
                 PROVE  /\ req[d].v \in 1..clock'
                        /\ Tasks => ~Carried(req[d].item, req[d].v)'
                        /\ Tasks => \A e \in Request : e # d /\ Uncommitted(e)' => req'[e].v # req[d].v
      BY <1>1 DEF Unique, Uncommitted
    <2>1. /\ req[d].v \in 1..clock
          /\ Tasks => ~Carried(req[d].item, req[d].v)
          /\ Tasks => \A e \in Request : e # d /\ Uncommitted(e) => req[e].v # req[d].v
      BY DEF Grounds, Unique
    <2>2. PICK v \in Nat : v = req[d].v
      BY <2>1
    <2>3. PICK t \in Item : t = req[d].item
      BY <1>4
    <2>4. ASSUME Tasks PROVE ~Carried(t, v)'
      <3>1. ~Carried(t, v) /\ v # Hope
        BY <2>1, <2>2, <2>3, <2>4, HopeAssumption
      <3>2. row'[t].v # v
        BY <2>2, <2>4, <3>1 DEF News, Carried
      <3> QED
        BY <2>4, <3>1, <3>2, CarriedStep
    <2>5. ASSUME Tasks, NEW e \in Request, e # d, Uncommitted(e)' PROVE req'[e].v # req[d].v
      <3>1. CASE e \in C
        <4>1. Unique(e)' /\ Uncommitted(d)' /\ req'[d].v = req[d].v
          BY <3>1 DEF Uncommitted
        <4> QED
          BY <1>1, <2>5, <4>1 DEF Unique
      <3>2. CASE e \notin C
        <4>1. req'[e] = req[e] /\ Uncommitted(e)
          BY <2>5, <3>2 DEF Uncommitted
        <4> QED
          BY <2>1, <2>5, <4>1
      <3> QED
        BY <3>1, <3>2
    <2>6. req[d].v \in 1..clock'
      BY <1>1, <2>1
    <2> QED
      BY <2>2, <2>3, <2>4, <2>5, <2>6
  <1>7. ASSUME NEW d \in Request \ C PROVE Fresh(d)'
    <2> SUFFICES ASSUME req[d].at = "recorded"
                 PROVE  /\ Tasks' /\ req'[d].ev \in 1..clock' /\ req'[d].ev \notin stream'.seen
                        /\ \A t \in Item : event'[t] # req'[d].ev
                        /\ \A e \in Request : e # d /\ req'[e].at = "recorded" => req'[e].ev # req'[d].ev
      BY DEF Fresh
    <2>1. Tasks /\ req[d].ev \in 1..clock
          /\ \A e \in Request : e # d /\ req[e].at = "recorded" => req[e].ev # req[d].ev
      BY DEF Grounds, Fresh
    <2>2. \A e \in C : e # d /\ req'[e].at = "recorded" => req'[e].ev # req'[d].ev
      BY DEF Fresh
    <2> QED
      BY <1>1, <2>1, <2>2
  <1>8. ASSUME NEW d \in Mine, d \notin C PROVE Moved(d)'
    <2>0. d \in Request
      BY DEF Request
    <2>1. req'[d] = req[d]
      BY <1>8, <2>0
    <2>2. PICK t \in Item : t = req[d].item
      BY <1>4, <2>0
    <2>3. req'[d].at = "recorded" => Bounded(req[d].answer)'
      <3>1. PICK a : a = req[d].answer
        OBVIOUS
      <3>2. req[d].at = "recorded" => Bounded(a)
        BY <1>8, <3>1 DEF Grounds, Moved
      <3> QED
        BY <1>2, <2>1, <3>1, <3>2
    <2>4. ASSUME req[d].op = "move", req[d].at \in {"written", "recorded", "answered"},
                 NEW x \in CardsIn(req[d].before[t])
          PROVE  x.v # row'[t].v
      <3>1. Tasks /\ KnownCard(t, x)
        BY <1>8, <2>0, <2>4 DEF Grounds, Legal, KnownCard
      <3>2. x.v # row[t].v
        BY <1>8, <2>2, <2>4 DEF Grounds, Moved
      <3>3. Carried(t, x.v)
        BY <3>1 DEF Carried
      <3> QED
        BY <3>1, <3>2, <3>3 DEF News
    <2>5. ASSUME NEW x \in CardsIn(req'[d].before[req'[d].item]),
                 req'[d].op = "move", req'[d].at \in {"written", "recorded", "answered"}
          PROVE  x.v # row'[req'[d].item].v
      BY <2>1, <2>2, <2>4, <2>5
    <2> QED
      BY <2>1, <2>3, <2>5 DEF Moved
  <1> QED
    BY <1>3, <1>5, <1>6, <1>7, <1>8 DEF Grounds

\* The same where a request goes on and the rows stay.
LEMMA RequestKeep ==
    ASSUME TypeOK, TypeOK', Grounds, NEW c \in Request, UNCHANGED <<kind, row, event, loaded, stream, wire>>,
           clock <= clock', \A d \in Request : d # c => req'[d] = req[d],
           Reveals, Reads(c),
           Legal(c)', Unique(c)', Fresh(c)', c \in Mine => Moved(c)'
    PROVE  Grounds'
  <1>1. clock \in Nat /\ clock' \in Nat /\ (Tasks' <=> Tasks) /\ StreamOK /\ RowsOK
        /\ \A x \in Item : row[x].at \in Nat /\ event[x] \in Nat
    BY DEF TypeOK, Tasks, Grounds, Row
  <1>2. StreamOK'
    <2>1. stream'.lastSeen \in 0..clock'
      BY <1>1 DEF StreamOK
    <2> QED
      BY <1>1, <2>1 DEF StreamOK
  <1>3. RowsOK'
    <2>1. \A x \in Item : event'[x] <= clock' /\ row'[x].at <= clock'
      BY <1>1 DEF RowsOK
    <2> QED
      BY <1>1, <2>1 DEF RowsOK, Live
  <1>4. \A d \in Request : req[d].at = "recorded" =>
            req[d].ev \notin stream'.seen /\ \A x \in Item : event'[x] # req[d].ev
    BY DEF Grounds, Fresh
  <1> DEFINE C == {c}
  <1>5. News(C)
    BY DEF News
  <1>6. C \in SUBSET Request /\ (\A e \in C : e = c) /\ \A d \in Request \ C : req'[d] = req[d]
    OBVIOUS
  <1> HIDE DEF C
  <1>7. \A e \in C : Reads(e) /\ Legal(e)' /\ Unique(e)' /\ Fresh(e)' /\ (e \in Mine => Moved(e)')
    BY <1>6
  <1> QED
    BY <1>2, <1>3, <1>4, <1>5, <1>6, <1>7, GroundsKeep

-----------------------------------------------------------------------------
(* The steps of the server. *)

Kept == Grounds' /\ \A u \in Item : Explained(u)'

Telling(c, u) == Tasks /\ req[c].item = u /\ req[c].op # "lead" /\ req[c].at \in {"written", "recorded"}

LEMMA TellingOne == \A u : Untold(u) <=> \E c \in Request : Telling(c, u)
  BY DEF Untold, Telling, Tasks

\* The page knows the cards it knew, and what it is answered now.
LEMMA ServerCards ==
    ASSUME NEW c \in Request, UNCHANGED <<shown, current, wire>>, \A d \in Request : d # c => req'[d] = req[d],
           c \in Mine => req'[c].before = req[c].before,
           NEW t \in Item, NEW x, KnownCard(t, x)'
    PROVE  KnownCard(t, x) \/ (c \in Mine /\ Answering(c, t)' /\ x = req'[c].answer)
  <1>1. Mine \subseteq Request
    BY DEF Request
  <1>2. OfWire(t)' = OfWire(t)
    BY DEF OfWire, Card
  <1>3. CASE x \in CardsIn(shown'[t]) \cup CardsIn(current'[t]) \cup OfWire(t)'
    BY <1>2, <1>3 DEF KnownCard
  <1>4. ASSUME NEW d \in Mine, x \in CardsIn(req'[d].before[t]) \/ (Answering(d, t)' /\ x = req'[d].answer)
        PROVE  KnownCard(t, x) \/ (c \in Mine /\ Answering(c, t)' /\ x = req'[c].answer)
    <2>1. CASE d # c
      BY <1>1, <1>4, <2>1 DEF KnownCard, Answering
    <2>2. CASE d = c
      BY <1>1, <1>4, <2>2 DEF KnownCard
    <2> QED
      BY <2>1, <2>2
  <1> QED
    BY <1>3, <1>4 DEF KnownCard

LEMMA Elsewhere ==
    ASSUME TypeOK, TypeOK', NEW c \in Request, NEW u \in Item, Explained(u), kind' = kind,
           UNCHANGED <<shown, current, wire, stream>>, row'[u] = row[u], event'[u] = event[u],
           u \in history.missed => u \in history'.missed,
           \A d \in Request : d # c => req'[d] = req[d],
           u \in history.gap /\ u \in Wrong' => u \in history'.gap,
           Telling(c, u) => Telling(c, u)' \/ u \in history'.gap \/ u \notin Wrong',
           c \in Mine =>
              /\ req'[c].before = req[c].before
              /\ Restores(c, u) => Restores(c, u)'
              /\ Deleting(c, u) => Deleting(c, u)'
              /\ Tasks => ~Answering(c, u)'
    PROVE  Explained(u)'
  <1>1. /\ Told(u) => Told(u)'
        /\ OnWire(u)' <=> OnWire(u)
        /\ Brings(u)' <=> Brings(u)
        /\ OfWire(u)' = OfWire(u)
    BY SameStream
  <1>2. u \in Wrong' <=> ~Right(u)'
    BY DEF Wrong
  <1>3. Mine \subseteq Request
    BY DEF Request
  <1>4. ASSUME Tasks, NEW x, KnownCard(u, x)' PROVE KnownCard(u, x)
    <2>1. c \in Mine => req'[c].before = req[c].before /\ ~Answering(c, u)'
      BY <1>4
    <2>2. KnownCard(u, x) \/ (c \in Mine /\ Answering(c, u)' /\ x = req'[c].answer)
      BY <1>4, <2>1, ServerCards
    <2> QED
      BY <2>1, <2>2
  <1>5. Untold(u) => Untold(u)' \/ u \in history'.gap \/ Right(u)'
    <2> SUFFICES ASSUME NEW d \in Request, Telling(d, u) PROVE Untold(u)' \/ u \in history'.gap \/ Right(u)'
      BY TellingOne
    <2>1. CASE d = c
      <3>1. Telling(c, u)' => Untold(u)'
        BY DEF Telling, Untold, Tasks
      <3> QED
        BY <1>2, <2>1, <3>1
    <2>2. CASE d # c
      BY <2>2 DEF Telling, Untold, Tasks
    <2> QED
      BY <2>1, <2>2
  <1>6. ASSUME NEW d \in Mine
        PROVE  (Restores(d, u) => Restores(d, u)') /\ (Deleting(d, u) => Deleting(d, u)')
    <2>1. CASE d = c
      BY <1>6, <2>1
    <2>2. CASE d # c
      <3>1. req'[d] = req[d] /\ row'[u] = row[u]
        BY <1>3, <1>6, <2>2
      <3> QED
        BY <3>1 DEF Restores, Deleting
    <2> QED
      BY <2>1, <2>2
  <1>8. Right(u) => Right(u)'
    BY DEF Right, Live
  <1>9. ~Live(u) /\ shown'[u] # <<>> => ~Right(u)' /\ shown[u] # <<>>
    BY DEF Right, Live
  <1>10. u \in history.gap \/ Untold(u) => u \in history'.gap \/ Untold(u)' \/ Right(u)'
    BY <1>2, <1>5
  <1>11. Undisturbed(u)
    BY <1>1, <1>2, <1>4, <1>6, <1>8, <1>9, <1>10 DEF Undisturbed
  <1> QED
    BY <1>11, UndisturbedKeeps

LEMMA StampedKeeps ==
    ASSUME WInv, TypeOK', NEW c \in Request, NEW t \in Item, NEW op, Stamped(c, op, t),
           req[c].at \in {"idle", "sent"}, (Tasks => op # "reopen") /\ (op = "move" => Tasks),
           c \in Mine => op = req[c].op /\ t = req[c].item /\ req[c].at = "sent"
    PROVE  Kept
  <1>1. TypeOK /\ Grounds /\ \A u \in Item : Explained(u)
    BY DEF WInv, IInv, Explained
  <1>2. /\ UNCHANGED <<kind, row, event, loaded, shown, current, stream, wire, history>> /\ clock' = clock + 1 /\ clock \in Nat
        /\ Fits(op, t) /\ req \in [Request -> RequestRecord]
        /\ \A d \in Request : d # c => req'[d] = req[d]
    BY <1>1 DEF Stamped, pageVars, TypeOK
  <1>3. /\ req'[c].at = "stamped" /\ req'[c].op = op /\ req'[c].item = t /\ req'[c].v = clock + 1
        /\ req'[c].before = req[c].before
    BY <1>1 DEF Stamped, TypeOK, RequestRecord
  <1>4. (Tasks' <=> Tasks) /\ \A x \in Item : row[x].at <= clock /\ row[x].at \in Nat
    BY <1>1, <1>2 DEF Tasks, Grounds, RowsOK, TypeOK, Row
  <1>5. ASSUME NEW u \in Item PROVE Explained(u)'
    <2>1. ~Telling(c, u) /\ ~Answering(c, u)' /\ ~Deleting(c, u)
      BY <1>3 DEF Telling, Answering, Deleting
    <2>2. c \in Mine => (Restores(c, u) => Restores(c, u)')
      BY <1>2, <1>3 DEF Restores
    <2> QED
      BY <1>1, <1>2, <1>3, <2>1, <2>2, Elsewhere
  <1>6. \A x \in Item : \A y : KnownCard(x, y)' => KnownCard(x, y)
    <2>1. \A x \in Item : ~Answering(c, x)'
      BY <1>3 DEF Answering
    <2> QED
      BY <1>2, <1>3, <2>1, ServerCards
  <1>7. Reveals /\ Reads(c)
    BY <1>3, <1>6 DEF Reveals, Reads
  <1>10. Unique(c)'
    <2>0. PICK v \in Nat : v = clock + 1 /\ v # Hope /\ v \notin 0..clock
      BY <1>2, HopeAssumption
    <2>1. ASSUME Tasks, Carried(t, v)' PROVE FALSE
      <3> DEFINE C == {c}
      <3>1. C \in SUBSET Request /\ (\A d \in C : Reads(d)) /\ \A d \in Request \ C : req'[d] = req[d]
        BY <1>2, <1>7
      <3> HIDE DEF C
      <3>2. Carried(t, v) \/ row'[t].v = v
        BY <1>7, <2>0, <2>1, <3>1, CarriedStep
      <3>3. Carried(t, v)
        BY <1>2, <3>2 DEF Carried
      <3> QED
        BY <1>1, <2>0, <2>1, <3>3, CarriedBound
    <2>2. ASSUME NEW d \in Request, d # c, Uncommitted(d)' PROVE req'[d].v # v
      <3>1. req'[d] = req[d] /\ Uncommitted(d)
        BY <1>2, <2>2 DEF Uncommitted
      <3>2. req[d].v \in 1..clock
        BY <1>1, <3>1 DEF Grounds, Unique
      <3> QED
        BY <1>2, <2>0, <3>1, <3>2
    <2>3. v \in 1..clock' /\ req'[c].v = v
      BY <1>2, <1>3, <2>0
    <2> QED
      BY <1>3, <1>4, <2>1, <2>2, <2>3 DEF Unique
  <1>8. Legal(c)' /\ Fresh(c)' /\ Moved(c)'
    BY <1>2, <1>3, <1>4 DEF Legal, Fresh, Moved, Grounds
  <1>9. Grounds'
    <2>1. clock <= clock'
      BY <1>2
    <2> QED
      BY <1>1, <1>2, <1>7, <1>8, <1>10, <2>1, RequestKeep
  <1> QED
    BY <1>5, <1>9 DEF Kept

LEMMA RefuseKeeps == ASSUME WInv, TypeOK', NEW c \in Request, Refuse(c) PROVE Kept
  <1>1. TypeOK /\ Grounds /\ \A u \in Item : Explained(u)
    BY DEF WInv, IInv, Explained
  <1>2. /\ UNCHANGED <<kind, clock, row, event, loaded, shown, current, stream, wire, history>> /\ clock \in Nat
        /\ \A d \in Request : d # c => req'[d] = req[d]
    BY <1>1 DEF Refuse, pageVars, serverVars, TypeOK
  <1>3. /\ req[c].at = "sent" /\ req'[c].at = "refused" /\ req'[c].op = req[c].op /\ req'[c].item = req[c].item
        /\ req'[c].before = req[c].before
    BY <1>1 DEF Refuse, TypeOK, RequestRecord
  <1>4. ASSUME NEW u \in Item PROVE Explained(u)'
    <2>1. ~Telling(c, u) /\ ~Answering(c, u)' /\ ~Deleting(c, u) /\ (Restores(c, u) => Restores(c, u)')
      BY <1>2, <1>3 DEF Telling, Answering, Deleting, Restores
    <2> QED
      BY <1>1, <1>2, <1>3, <2>1, Elsewhere
  <1>5. \A x \in Item : \A y : KnownCard(x, y)' => KnownCard(x, y)
    <2>1. \A x \in Item : ~Answering(c, x)'
      BY <1>3 DEF Answering
    <2> QED
      BY <1>2, <1>3, <2>1, ServerCards
  <1>6. Legal(c)' /\ Unique(c)' /\ Fresh(c)' /\ Moved(c)'
    BY <1>1, <1>2, <1>3 DEF Legal, Unique, Uncommitted, Fresh, Moved, Grounds, Tasks
  <1>7. Grounds'
    <2>1. Reveals /\ Reads(c) /\ clock <= clock'
      BY <1>2, <1>3, <1>5 DEF Reveals, Reads
    <2> QED
      BY <1>1, <1>2, <1>6, <2>1, RequestKeep
  <1> QED
    BY <1>4, <1>7 DEF Kept

\* What is over.
LEMMA DoneFields ==
    ASSUME TypeOK, NEW c \in Request, NEW a
    PROVE  /\ Idle.at = "idle" /\ Idle.op = "save"
           /\ c \notin Mine => Done(c, a) = Idle
           /\ c \in Mine => /\ Done(c, a).at = "answered" /\ Done(c, a).answer = a
                            /\ Done(c, a).op = req[c].op /\ Done(c, a).item = req[c].item
                            /\ Done(c, a).before = req[c].before
  BY DEF Done, Idle, TypeOK, RequestRecord

LEMMA RecordTaskKeeps ==
    ASSUME WInv, TypeOK', NEW c \in Request, Record(c), Tasks PROVE Kept
  <1> DEFINE t == req[c].item
  <1>1. TypeOK /\ Grounds /\ (\A u \in Item : Explained(u)) /\ Legal(c) /\ Unique(c) /\ (c \in Mine => Moved(c))
    BY DEF WInv, IInv, Explained, Grounds
  <1>2. /\ UNCHANGED <<kind, row, event, loaded, shown, current, stream, wire, history>> /\ clock' = clock + 1 /\ clock \in Nat
        /\ \A d \in Request : d # c => req'[d] = req[d]
    BY <1>1 DEF Record, pageVars, TypeOK, Tasks
  <1>3. /\ req[c].at = (IF req[c].op = "lead" THEN "stamped" ELSE "written") /\ Live(t) /\ t \in Item
        /\ req'[c].at = "recorded" /\ req'[c].op = req[c].op /\ req'[c].item = t /\ req'[c].v = req[c].v
        /\ req'[c].before = req[c].before /\ req'[c].ev = clock + 1 /\ req'[c].answer = row[t]
    BY <1>1 DEF Record, TypeOK, RequestRecord, Tasks
  <1>4. /\ Tasks' /\ StreamOK /\ RowsOK /\ \A x \in Item : row[x].at \in Nat /\ event[x] \in Nat
        /\ \A d \in Request : Fresh(d) /\ Unique(d)
    BY <1>1, <1>2 DEF Grounds, Tasks, TypeOK, Row
  <1>5. ASSUME NEW u \in Item PROVE Explained(u)'
    <2>1. ~Answering(c, u)' /\ ~Deleting(c, u) /\ (Restores(c, u) => Restores(c, u)')
      BY <1>2, <1>3 DEF Answering, Deleting, Restores
    <2>2. Telling(c, u) => Telling(c, u)'
      BY <1>3, <1>4 DEF Telling
    <2> QED
      BY <1>1, <1>2, <1>3, <2>1, <2>2, Elsewhere
  <1>6. \A x \in Item : \A y : KnownCard(x, y)' => KnownCard(x, y)
    <2>1. \A x \in Item : ~Answering(c, x)'
      BY <1>3 DEF Answering
    <2> QED
      BY <1>2, <1>3, <2>1, ServerCards
  <1>7. Legal(c)'
    BY <1>1, <1>3, <1>4 DEF Legal
  <1>12. Reveals /\ Reads(c)
    BY <1>3, <1>6 DEF Reveals, Reads, Carried
  <1>8. Unique(c)'
    <2> SUFFICES ASSUME req[c].op = "lead", NEW v, v = req'[c].v, NEW u \in Item, u = req'[c].item
                 PROVE  /\ v \in 1..clock'
                        /\ ~Carried(u, v)'
                        /\ \A d \in Request : d # c /\ Uncommitted(d)' => req'[d].v # v
      BY <1>3 DEF Unique, Uncommitted
    <2>1. /\ v \in 1..clock /\ ~Carried(u, v)
          /\ \A d \in Request : d # c /\ Uncommitted(d) => req[d].v # v
      BY <1>3, <1>4 DEF Unique, Uncommitted
    <2>2. ASSUME Carried(u, v)' PROVE FALSE
      <3> DEFINE C == {c}
      <3>1. C \in SUBSET Request /\ (\A d \in C : Reads(d)) /\ \A d \in Request \ C : req'[d] = req[d]
        BY <1>2, <1>12
      <3> HIDE DEF C
      <3>2. v # Hope
        BY <2>1, HopeAssumption
      <3>3. Carried(u, v) \/ row'[u].v = v
        BY <1>12, <2>2, <3>1, <3>2, CarriedStep
      <3> QED
        BY <1>2, <2>1, <3>3 DEF Carried
    <2>3. ASSUME NEW d \in Request, d # c, Uncommitted(d)' PROVE req'[d].v # v
      <3>1. req'[d] = req[d] /\ Uncommitted(d)
        BY <1>2, <2>3 DEF Uncommitted
      <3> QED
        BY <2>1, <2>3, <3>1
    <2>4. v \in 1..clock'
      BY <1>2, <2>1
    <2> QED
      BY <2>2, <2>3, <2>4
  <1>9. Fresh(c)'
    <2>1. clock + 1 \notin stream.seen
      <3>1. stream.lastSeen \in 0..clock /\ stream.seen \subseteq {stream.lastSeen}
        BY <1>4 DEF StreamOK, Tasks
      <3> QED
        BY <1>2, <3>1
    <2>2. \A x \in Item : event[x] # clock + 1
      BY <1>2, <1>4 DEF RowsOK
    <2>3. \A d \in Request : d # c /\ req[d].at = "recorded" => req[d].ev # clock + 1
      BY <1>2, <1>4 DEF Fresh
    <2> QED
      BY <1>2, <1>3, <1>4, <2>1, <2>2, <2>3 DEF Fresh
  <1>10. c \in Mine => Moved(c)'
    <2>1. row[t].at \in 1..clock' /\ row[t].v = row[t].at
      BY <1>2, <1>3, <1>4 DEF RowsOK
    <2> QED
      BY <1>1, <1>2, <1>3, <2>1 DEF Moved, Bounded
  <1>11. clock <= clock'
    BY <1>2
  <1> QED
    BY <1>1, <1>2, <1>5, <1>7, <1>8, <1>9, <1>10, <1>11, <1>12, RequestKeep DEF Kept

LEMMA RecordApprovalKeeps ==
    ASSUME WInv, TypeOK', NEW c \in Request, Record(c), ~Tasks PROVE Kept
  <1> DEFINE t == req[c].item
  <1>1. TypeOK /\ Grounds /\ (\A u \in Item : Explained(u)) /\ Legal(c) /\ RowsOK
    BY DEF WInv, IInv, Explained, Grounds
  <1>2. /\ UNCHANGED <<kind, clock, row, event, loaded, shown, current, stream, wire, history>> /\ clock \in Nat
        /\ (\A d \in Request : d # c => req'[d] = req[d]) /\ ~Tasks'
        /\ req'[c] = Done(c, row[t]) /\ Live(t) /\ t \in Item /\ req[c].at # "answered"
    BY <1>1 DEF Record, pageVars, TypeOK, Tasks, RequestRecord
  <1>3. /\ c \notin Mine => req'[c].at = "idle" /\ req'[c].op = "save"
        /\ c \in Mine => req'[c].at = "answered" /\ req'[c].answer = row[t] /\ req'[c].op = req[c].op
                         /\ req'[c].item = t /\ req'[c].before = req[c].before
    BY <1>1, <1>2, DoneFields
  <1>4. req[c].op # "move"
    BY <1>1 DEF Legal
  <1>5. ASSUME NEW u \in Item PROVE Explained(u)'
    <2>1. ~Telling(c, u) /\ ~Deleting(c, u) /\ ~Restores(c, u)
      BY <1>2, <1>4 DEF Telling, Deleting, Restores
    <2> QED
      BY <1>1, <1>2, <1>3, <2>1, Elsewhere
  <1>6. ASSUME NEW x \in Item, NEW y, KnownCard(x, y)' PROVE KnownCard(x, y) \/ Bounded(y)'
    <2>1. KnownCard(x, y) \/ (c \in Mine /\ y = row[t])
      BY <1>2, <1>3, <1>6, ServerCards
    <2>2. row[t].at \in 1..clock'
      BY <1>1, <1>2 DEF RowsOK, TypeOK, Row
    <2> QED
      BY <1>2, <2>1, <2>2 DEF Bounded
  <1>7. Legal(c)' /\ Unique(c)' /\ Fresh(c)' /\ (c \in Mine => Moved(c)')
    BY <1>2, <1>3, <1>4 DEF Legal, Unique, Uncommitted, Fresh, Moved
  <1> QED
    <2>1. Reveals /\ Reads(c) /\ clock <= clock'
      BY <1>2, <1>3, <1>6 DEF Reveals, Reads
    <2> QED
      BY <1>1, <1>2, <1>5, <1>7, <2>1, RequestKeep DEF Kept

LEMMA AbortKeeps == ASSUME WInv, TypeOK', NEW c \in Request, Abort(c) PROVE Kept
  <1> DEFINE t == req[c].item
  <1>1. TypeOK /\ Grounds /\ (\A u \in Item : Explained(u)) /\ Legal(c)
    BY DEF WInv, IInv, Explained, Grounds
  <1>2. /\ UNCHANGED <<kind, clock, row, event, loaded, shown, current, stream, wire>> /\ clock \in Nat
        /\ (\A d \in Request : d # c => req'[d] = req[d])
        /\ req[c].at \in {"stamped", "written", "recorded"}
    BY <1>1 DEF Abort, pageVars, serverVars, TypeOK
  <1>3. /\ c \notin Mine => req'[c].at = "idle" /\ req'[c].op = "save"
        /\ c \in Mine => req'[c].at = "refused" /\ req'[c].op = req[c].op
                         /\ req'[c].item = t /\ req'[c].before = req[c].before
    BY <1>1 DEF Abort, TypeOK, Idle, RequestRecord
  <1>4. history'.missed = history.missed /\ history'.gap = Gap({x \in {t} : Untold(x)})
    <2>1. history' = [history EXCEPT !.gap = Gap({x \in {t} : Untold(x)})]
      BY DEF Abort
    <2> DEFINE g == Gap({x \in {t} : Untold(x)})
    <2> HIDE DEF g
    <2> QED
      BY <1>1, <2>1 DEF TypeOK, g
  <1>5. ASSUME NEW u \in Item PROVE Explained(u)'
    <2>1. ~Deleting(c, u) /\ ~Answering(c, u)' /\ (c \in Mine => (Restores(c, u) => Restores(c, u)'))
      BY <1>2, <1>3 DEF Deleting, Answering, Restores
    <2>2. u \in history.gap /\ u \in Wrong' => u \in history'.gap
      BY <1>4 DEF Gap
    <2>3. Telling(c, u) => u \in history'.gap \/ u \notin Wrong'
      BY <1>4, TellingOne DEF Gap, Telling
    <2> QED
      BY <1>1, <1>2, <1>3, <1>4, <2>1, <2>2, <2>3, Elsewhere
  <1>6. ASSUME NEW x \in Item, NEW y, KnownCard(x, y)' PROVE KnownCard(x, y)
    <2>1. ~Answering(c, x)'
      BY <1>3 DEF Answering
    <2> QED
      BY <1>2, <1>3, <1>6, <2>1, ServerCards
  <1>7. Legal(c)' /\ Unique(c)' /\ Fresh(c)' /\ (c \in Mine => Moved(c)')
    BY <1>1, <1>2, <1>3 DEF Legal, Unique, Uncommitted, Fresh, Moved, Tasks
  <1> QED
    <2>1. Reveals /\ Reads(c) /\ clock <= clock'
      <3>1. req'[c].at # "recorded"
        BY <1>3
      <3> QED
        BY <1>2, <1>6, <3>1 DEF Reveals, Reads
    <2> QED
      BY <1>1, <1>2, <1>5, <1>7, <2>1, RequestKeep DEF Kept

\* Nobody has seen the row that a commit brings.
LEMMA CommitKeeps == ASSUME WInv, TypeOK', NEW c \in Request, Commit(c) PROVE Kept
  <1>0. PICK t \in Item : t = req[c].item
    BY DEF WInv, IInv, TypeOK, RequestRecord
  <1> DEFINE w == Written(c)
  <1>1. TypeOK /\ Grounds /\ (\A u \in Item : Explained(u)) /\ Legal(c) /\ Unique(c) /\ RowsOK /\ Dated /\ StreamOK
    BY DEF WInv, IInv, Explained, Grounds
  <1>2. /\ UNCHANGED <<kind, clock, event, loaded, shown, current, stream, wire>> /\ clock \in Nat
        /\ (\A d \in Request : d # c => req'[d] = req[d]) /\ (Tasks' <=> Tasks)
        /\ req[c].at = "stamped" /\ req[c].op # "lead" /\ (Live(t) \/ req[c].op = "create")
    BY <1>0, <1>1 DEF Commit, pageVars, TypeOK, Tasks, RequestRecord
  <1>3. /\ req'[c].at = "written" /\ req'[c].op = req[c].op /\ req'[c].item = t
        /\ req'[c].before = req[c].before
    BY <1>0, <1>1 DEF Commit, TypeOK, RequestRecord
  <1>4. row'[t] = w /\ \A u \in Item : u # t => row'[u] = row[u]
    BY <1>0, <1>1, <1>2 DEF Commit, TypeOK
  <1>5. /\ req[c].v \in 1..clock /\ row[t].at \in Nat
        /\ Tasks => ~Carried(t, req[c].v)
        /\ Tasks => \A d \in Request : d # c /\ Uncommitted(d) => req[d].v # req[c].v
    BY <1>0, <1>1, <1>2 DEF Unique, Uncommitted, TypeOK, Row
  <1>6. /\ w.v = req[c].v /\ w.at \in 1..clock
        /\ Tasks => w.at = req[c].v
    <2>1. CASE req[c].op = "reopen"
      <3>1. ~Tasks /\ row[t].at > 0 /\ row[t].at <= clock
        BY <1>1, <1>2, <2>1 DEF Legal, RowsOK
      <3> QED
        BY <1>0, <1>2, <1>5, <2>1, <3>1 DEF Written
    <2>2. CASE req[c].op # "reopen"
      BY <1>0, <1>5, <2>2 DEF Written
    <2> QED
      BY <2>1, <2>2
  <1>7. /\ history'.gap = Gap({})
        /\ history'.missed = history.missed \cup (IF Tasks THEN {} ELSE Passed(t, row'[t].at))
    <2> DEFINE g == Gap({})
               m == history.missed \cup (IF Tasks THEN {} ELSE Passed(t, row'[t].at))
    <2>1. history' = [history EXCEPT !.gap = g, !.missed = m]
      BY <1>0 DEF Commit, Tasks
    <2> HIDE DEF g, m
    <2> QED
      BY <1>1, <2>1 DEF TypeOK, g, m
  <1> HIDE DEF w
  <1>8. ASSUME NEW x \in Item, NEW y, KnownCard(x, y)' PROVE KnownCard(x, y)
    <2>1. ~Answering(c, x)'
      BY <1>3 DEF Answering
    <2> QED
      BY <1>2, <1>3, <1>8, <2>1, ServerCards
  <1>9. Live(t)'
    BY <1>4, <1>5, <1>6 DEF Live
  <1>10. ASSUME Tasks PROVE Explained(t)'
    <2>1. Untold(t)'
      BY <1>0, <1>2, <1>3, <1>10 DEF Untold, Tasks
    <2>2. ASSUME NEW x, KnownCard(t, x)' PROVE x.v # row'[t].v
      <3>1. KnownCard(t, x) /\ row'[t].v = req[c].v
        BY <1>4, <1>6, <1>8, <2>2
      <3> QED
        BY <1>5, <1>10, <3>1 DEF Carried
    <2> QED
      BY <1>2, <1>9, <1>10, <2>1, <2>2 DEF Coming, Settled, Buried, Explained
  <1>11. ASSUME ~Tasks PROVE Explained(t)'
    <2>1. stream.on => Told(t)'
      <3> SUFFICES ASSUME stream.on, t \notin history'.missed PROVE t \in Due'
        BY DEF Told
      <3>1. ~(w.at < stream.lastSeen)
        BY <1>4, <1>7, <1>11 DEF Passed
      <3>2. stream.lastSeen \in Nat /\ w.at \in Nat /\ w.at > 0
        BY <1>1, <1>2, <1>6 DEF StreamOK
      <3>3. w.at >= stream.lastSeen
        BY <3>1, <3>2
      <3> QED
        BY <1>2, <1>4, <1>9, <1>11, <3>2, <3>3 DEF Due, Entry, Tasks, Live
    <2> QED
      BY <1>2, <1>9, <2>1 DEF Coming, Settled, Buried, Explained
  <1>12. ASSUME NEW u \in Item PROVE Explained(u)'
    <2>1. CASE u = t
      BY <1>10, <1>11, <2>1
    <2>2. CASE u # t
      <3>1. ~Telling(c, u) /\ ~Answering(c, u)' /\ ~Deleting(c, u) /\ ~Restores(c, u)
        BY <1>0, <1>2, <1>3, <2>2 DEF Telling, Answering, Deleting, Restores
      <3>2. row'[u] = row[u] /\ event'[u] = event[u]
        BY <1>2, <1>4, <2>2
      <3>3. (u \in history.missed => u \in history'.missed) /\ (u \in history.gap /\ u \in Wrong' => u \in history'.gap)
        BY <1>7 DEF Gap
      <3> QED
        BY <1>1, <1>2, <1>3, <3>1, <3>2, <3>3, Elsewhere
    <2> QED
      BY <2>1, <2>2
  <1>13. \A C \in SUBSET Request : c \in C => News(C)
    <2> SUFFICES ASSUME Tasks, NEW C \in SUBSET Request, c \in C, NEW x \in Item, row'[x].v # row[x].v
                 PROVE  /\ ~Carried(x, row'[x].v)
                        /\ \A d \in Request \ C : Uncommitted(d) => req[d].v # row'[x].v
      BY DEF News
    <2>1. x = t /\ row'[x].v = req[c].v
      BY <1>4, <1>6
    <2> QED
      BY <1>5, <2>1
  <1>14. Legal(c)' /\ Unique(c)' /\ Fresh(c)'
    BY <1>1, <1>2, <1>3 DEF Legal, Unique, Uncommitted, Fresh
  <1>15. c \in Mine => Moved(c)'
    <2> SUFFICES ASSUME c \in Mine, req[c].op = "move", NEW x \in CardsIn(req[c].before[t])
                 PROVE  x.v # row'[t].v
      BY <1>0, <1>3 DEF Moved
    <2>1. KnownCard(t, x) /\ Tasks
      BY <1>1 DEF KnownCard, Legal
    <2>2. Carried(t, x.v)
      BY <2>1 DEF Carried
    <2> QED
      BY <1>4, <1>5, <1>6, <2>1, <2>2
  <1>16. StreamOK' /\ RowsOK'
    <2>1. StreamOK'
      BY <1>1, <1>2 DEF StreamOK
    <2>2. RowsOK'
      <3> SUFFICES ASSUME NEW x \in Item
                   PROVE  /\ row'[x].at <= clock' /\ event'[x] <= clock'
                          /\ row'[x].v # 0 => row'[x].at > 0
                          /\ Tasks /\ row'[x].v # 0 => row'[x].v = row'[x].at
        BY <1>2 DEF RowsOK, Live
      <3>1. CASE x # t
        BY <1>1, <1>2, <1>4, <3>1 DEF RowsOK, Live
      <3>2. CASE x = t
        BY <1>1, <1>2, <1>4, <1>6, <3>2 DEF RowsOK
      <3> QED
        BY <3>1, <3>2
    <2> QED
      BY <2>1, <2>2
  <1>17. ASSUME NEW d \in Request, d # c, req[d].at = "recorded"
         PROVE  req[d].ev \notin stream'.seen /\ \A x \in Item : event'[x] # req[d].ev
    BY <1>1, <1>2, <1>17 DEF Grounds, Fresh
  <1>18. Grounds'
    <2> DEFINE C == {c}
    <2>1. C \in SUBSET Request /\ (\A e \in C : e = c) /\ \A d \in Request \ C : d # c
      OBVIOUS
    <2>2. clock <= clock' /\ Reveals /\ Reads(c) /\ News(C)
      BY <1>2, <1>3, <1>8, <1>13, <2>1 DEF Reveals, Reads
    <2> HIDE DEF C
    <2>3. \A e \in C : Reads(e) /\ Legal(e)' /\ Unique(e)' /\ Fresh(e)' /\ (e \in Mine => Moved(e)')
      BY <1>14, <1>15, <2>1, <2>2
    <2> QED
      BY <1>1, <1>2, <1>16, <1>17, <2>1, <2>2, <2>3, GroundsKeep
  <1> QED
    BY <1>12, <1>18 DEF Kept

\* The event is told, or its stamp is behind the cursor.
LEMMA TellKeeps == ASSUME WInv, TypeOK', NEW c \in Request, Tell(c) PROVE Kept
  <1>0. PICK t \in Item : t = req[c].item
    BY DEF WInv, IInv, TypeOK, RequestRecord
  <1> DEFINE w == Written(c)
             lead == req[c].op = "lead"
             ev == req[c].ev
  <1>1. /\ TypeOK /\ Grounds /\ (\A u \in Item : Explained(u)) /\ RowsOK /\ StreamOK
        /\ Legal(c) /\ Unique(c) /\ Fresh(c) /\ (c \in Mine => Moved(c))
    BY DEF WInv, IInv, Explained, Grounds
  <1>2. /\ UNCHANGED <<kind, clock, loaded, shown, current, stream, wire>> /\ clock \in Nat
        /\ (\A d \in Request : d # c => req'[d] = req[d]) /\ (Tasks' <=> Tasks)
        /\ req[c].at = "recorded" /\ Live(t)
    BY <1>0, <1>1 DEF Tell, pageVars, TypeOK, Tasks
  <1>3. /\ c \notin Mine => req'[c].at = "idle" /\ req'[c].op = "save"
        /\ c \in Mine => req'[c].at = "answered" /\ req'[c].answer = req[c].answer /\ req'[c].op = req[c].op
                         /\ req'[c].item = t /\ req'[c].before = req[c].before
    BY <1>0, <1>1, DoneFields DEF Tell, TypeOK
  <1>4. /\ row'[t] = (IF lead THEN w ELSE row[t]) /\ \A u \in Item : u # t => row'[u] = row[u]
        /\ event'[t] = (IF event[t] < ev THEN ev ELSE event[t]) /\ \A u \in Item : u # t => event'[u] = event[u]
    BY <1>0, <1>1, <1>2 DEF Tell, TypeOK
  <1>5. /\ Tasks /\ Tasks' /\ ev \in 1..clock /\ ev \notin stream.seen
        /\ \A d \in Request : d # c /\ req[d].at = "recorded" => req[d].ev # ev
    BY <1>1, <1>2 DEF Fresh
  <1>6. /\ row[t].at \in Nat /\ event[t] \in Nat
        /\ lead => /\ w.v \in 1..clock /\ w.at = w.v /\ ~Carried(t, w.v)
                   /\ \A d \in Request : d # c /\ Uncommitted(d) => req[d].v # w.v
    <2>1. row[t].at \in Nat /\ event[t] \in Nat
      BY <1>1 DEF TypeOK, Row
    <2>2. lead => /\ req[c].v \in 1..clock /\ ~Carried(t, req[c].v)
                  /\ \A d \in Request : d # c /\ Uncommitted(d) => req[d].v # req[c].v
      BY <1>0, <1>1, <1>2, <1>5 DEF Unique, Uncommitted
    <2>3. lead => w = [v |-> req[c].v, at |-> req[c].v]
      BY <1>0 DEF Written
    <2> QED
      BY <2>1, <2>2, <2>3
  <1>7. history'.gap = Gap({}) /\ history'.missed = history.missed \cup Passed(t, ev)
    <2> DEFINE g == Gap({})
               m == history.missed \cup Passed(t, ev)
    <2>1. history' = [history EXCEPT !.gap = g, !.missed = m]
      BY <1>0 DEF Tell
    <2> HIDE DEF g, m
    <2> QED
      BY <1>1, <2>1 DEF TypeOK, g, m
  <1> HIDE DEF w, lead, ev
  <1>8. Live(t)'
    BY <1>2, <1>4, <1>6 DEF Live
  <1>9. stream.on => Told(t)'
    <2> SUFFICES ASSUME stream.on, t \notin history'.missed PROVE t \in Due'
      BY DEF Told
    <2>1. ~(ev < stream.lastSeen)
      BY <1>7 DEF Passed
    <2>2. stream.lastSeen \in Nat /\ ev \in Nat /\ ev > 0 /\ stream.seen \subseteq {stream.lastSeen}
      BY <1>1, <1>2, <1>5 DEF StreamOK
    <2>3. ev >= stream.lastSeen
      BY <2>1, <2>2
    <2>4. event'[t] > 0 /\ event'[t] >= stream.lastSeen /\ event'[t] \notin stream.seen
      BY <1>4, <1>5, <1>6, <2>2, <2>3
    <2> QED
      BY <1>2, <1>5, <1>8, <2>4 DEF Due, Entry, Tasks, Live
  <1>10. Explained(t)'
    BY <1>2, <1>8, <1>9 DEF Coming, Settled, Buried, Explained
  <1>11. ASSUME NEW u \in Item PROVE Explained(u)'
    <2>1. CASE u = t
      BY <1>10, <2>1
    <2>2. CASE u # t
      <3>1. ~Telling(c, u) /\ ~Deleting(c, u) /\ ~Restores(c, u) /\ (c \in Mine => ~Answering(c, u)')
        BY <1>0, <1>2, <1>3, <2>2 DEF Telling, Answering, Deleting, Restores
      <3>2. row'[u] = row[u] /\ event'[u] = event[u]
        BY <1>4, <2>2
      <3>3. (u \in history.missed => u \in history'.missed) /\ (u \in history.gap /\ u \in Wrong' => u \in history'.gap)
        BY <1>7 DEF Gap
      <3> QED
        BY <1>1, <1>2, <1>3, <3>1, <3>2, <3>3, Elsewhere
    <2> QED
      BY <2>1, <2>2
  <1>12. \A C \in SUBSET Request : c \in C => News(C)
    <2> SUFFICES ASSUME NEW C \in SUBSET Request, c \in C, NEW x \in Item, row'[x].v # row[x].v
                 PROVE  /\ ~Carried(x, row'[x].v)
                        /\ \A d \in Request \ C : Uncommitted(d) => req[d].v # row'[x].v
      BY DEF News
    <2>1. x = t /\ lead /\ row'[x].v = w.v
      BY <1>4
    <2> QED
      BY <1>6, <2>1
  <1>13. Reveals
    <2> SUFFICES ASSUME NEW x \in Item, NEW y, KnownCard(x, y)', ~KnownCard(x, y)
                 PROVE  Bounded(y)' /\ Carried(x, y.v)
      BY DEF Reveals
    <2>1. c \in Mine /\ Answering(c, x)' /\ y = req'[c].answer
      BY <1>2, <1>3, ServerCards
    <2>2. x = t /\ y = req[c].answer
      BY <1>3, <2>1 DEF Answering
    <2>3. Bounded(y) /\ Carried(t, y.v)
      BY <1>0, <1>1, <1>2, <2>1, <2>2 DEF Moved, Carried
    <2> QED
      BY <1>2, <2>2, <2>3 DEF Bounded
  <1>14. Legal(c)' /\ Unique(c)' /\ Fresh(c)'
    BY <1>1, <1>2, <1>3, <1>5 DEF Legal, Unique, Uncommitted, Fresh
  <1>15. c \in Mine => Moved(c)'
    <2> SUFFICES ASSUME c \in Mine, req[c].op = "move", NEW x \in CardsIn(req[c].before[t])
                 PROVE  x.v # row'[t].v
      BY <1>3 DEF Moved
    <2>1. x.v # row[t].v
      BY <1>0, <1>1, <1>2 DEF Moved
    <2> QED
      BY <1>4, <2>1 DEF lead
  <1>16. StreamOK' /\ RowsOK'
    <2>1. StreamOK'
      BY <1>1, <1>2 DEF StreamOK
    <2>2. RowsOK'
      <3> SUFFICES ASSUME NEW x \in Item
                   PROVE  /\ row'[x].at <= clock' /\ event'[x] <= clock'
                          /\ row'[x].v # 0 => row'[x].at > 0
                          /\ Tasks /\ row'[x].v # 0 => row'[x].v = row'[x].at
        BY <1>2 DEF RowsOK, Live
      <3>1. CASE x # t
        BY <1>1, <1>2, <1>4, <3>1 DEF RowsOK, Live
      <3>2. CASE x = t
        <4>1. /\ row[t].at <= clock /\ event[t] <= clock /\ row[t].at > 0 /\ row[t].v = row[t].at
          BY <1>1, <1>2, <1>5 DEF RowsOK
        <4>2. event'[t] <= clock
          BY <1>2, <1>4, <1>5, <4>1
        <4>3. row'[t].at <= clock /\ row'[t].at > 0 /\ row'[t].v = row'[t].at
          BY <1>2, <1>4, <1>6, <4>1
        <4> QED
          BY <1>2, <3>2, <4>2, <4>3
      <3> QED
        BY <3>1, <3>2
    <2> QED
      BY <2>1, <2>2
  <1>17. ASSUME NEW d \in Request, d # c, req[d].at = "recorded"
         PROVE  req[d].ev \notin stream'.seen /\ \A x \in Item : event'[x] # req[d].ev
    <2>1. ASSUME NEW x \in Item PROVE event'[x] # req[d].ev
      <3>1. event[x] # req[d].ev /\ req[d].ev # ev
        BY <1>1, <1>5, <1>17 DEF Grounds, Fresh
      <3> QED
        BY <1>4, <3>1
    <2>2. req[d].ev \notin stream'.seen
      BY <1>1, <1>2, <1>17 DEF Grounds, Fresh
    <2> QED
      BY <2>1, <2>2
  <1>18. Grounds'
    <2> DEFINE C == {c}
    <2>1. C \in SUBSET Request /\ (\A e \in C : e = c) /\ \A d \in Request \ C : d # c
      OBVIOUS
    <2>2. clock <= clock' /\ Reads(c) /\ News(C)
      BY <1>2, <1>3, <1>12, <2>1 DEF Reads
    <2> HIDE DEF C
    <2>3. \A e \in C : Reads(e) /\ Legal(e)' /\ Unique(e)' /\ Fresh(e)' /\ (e \in Mine => Moved(e)')
      BY <1>14, <1>15, <2>1, <2>2
    <2> QED
      BY <1>1, <1>2, <1>13, <1>16, <1>17, <2>1, <2>2, <2>3, GroundsKeep
  <1> QED
    BY <1>11, <1>18 DEF Kept

\* An item is deleted, which no request about it can hold back.
LEMMA DeleteKeeps ==
    ASSUME WInv, TypeOK', NEW t \in Item, Delete(t), NEW c \in Request, NEW C \in SUBSET {c},
           \A d \in Request \ C : req'[d] = req[d],
           c \in C => /\ req[c].at = "sent" /\ req'[c].at = "answered" /\ req[c].op = "delete" /\ req'[c].op = "delete"
                      /\ req'[c].item = req[c].item /\ req'[c].before = req[c].before,
           history'.missed = history.missed, \A u \in history.gap : u \in Wrong' => u \in history'.gap,
           Buried(t)'
    PROVE  Kept
  <1>1. /\ TypeOK /\ Grounds /\ (\A u \in Item : Explained(u)) /\ RowsOK /\ StreamOK /\ Legal(c)
    BY DEF WInv, IInv, Explained, Grounds
  <1>2. /\ UNCHANGED <<kind, clock, loaded, shown, current, stream, wire>> /\ clock \in Nat /\ Live(t)
        /\ row'[t] = [v |-> 0, at |-> 1] /\ event'[t] = 0 /\ (Tasks' <=> Tasks)
        /\ \A u \in Item : u # t => row'[u] = row[u] /\ event'[u] = event[u]
    BY <1>1 DEF Delete, Gone, pageVars, TypeOK, Tasks
  <1>3. (\A d \in Request : d # c => req'[d] = req[d]) /\ (c \notin C => req'[c] = req[c])
        /\ req'[c].before = req[c].before /\ req'[c].op = req[c].op
    OBVIOUS
  <1>4. ~Live(t)'
    BY <1>2 DEF Live
  <1>5. ASSUME NEW u \in Item PROVE Explained(u)'
    <2>1. CASE u = t
      BY <1>4, <2>1 DEF Coming, Settled, Explained
    <2>2. CASE u # t
      <3>1. row'[u] = row[u] /\ event'[u] = event[u]
        BY <1>2, <2>2
      <3>2. CASE c \in C
        <4>1. ~Telling(c, u) /\ ~Deleting(c, u) /\ ~Answering(c, u)' /\ ~Restores(c, u)
          BY <3>2 DEF Telling, Deleting, Answering, Restores
        <4> QED
          BY <1>1, <1>2, <1>3, <3>1, <4>1, Elsewhere
      <3>3. CASE c \notin C
        <4>1. ASSUME NEW d \in Mine
              PROVE  (Restores(d, u) => Restores(d, u)') /\ (Deleting(d, u) => Deleting(d, u)')
          <5>1. req'[d] = req[d]
            BY <1>3, <3>3 DEF Request
          <5> QED
            BY <3>1, <5>1 DEF Restores, Deleting
        <4>2. \A x : KnownCard(u, x)' => KnownCard(u, x)
          <5>1. OfWire(u)' = OfWire(u)
            BY <1>2 DEF OfWire, Card
          <5>2. \A d \in Mine : req'[d] = req[d]
            BY <1>3, <3>3 DEF Request
          <5> QED
            BY <1>2, <5>1, <5>2 DEF KnownCard, Answering
        <4>3. /\ Told(u) => Told(u)'
              /\ OnWire(u)' <=> OnWire(u)
              /\ Brings(u)' <=> Brings(u)
          BY <1>2, <3>1, SameStream
        <4>4. Untold(u) => Untold(u)'
          BY <1>2, <1>3, <3>3 DEF Untold
        <4>5. (Right(u) <=> Right(u)') /\ (u \in Wrong' <=> ~Right(u)') /\ (Live(u)' <=> Live(u))
          BY <1>2, <3>1 DEF Right, Live, Wrong
        <4>6. ~Live(u) /\ shown'[u] # <<>> => ~Right(u)' /\ shown[u] # <<>>
          BY <1>2, <4>5 DEF Right
        <4>7. Undisturbed(u)
          BY <1>2, <3>1, <4>1, <4>2, <4>3, <4>4, <4>5, <4>6 DEF Undisturbed
        <4> QED
          BY <1>1, <4>7, UndisturbedKeeps
      <3> QED
        BY <3>2, <3>3
    <2> QED
      BY <2>1, <2>2
  <1>6. \A D \in SUBSET Request : News(D)
    <2> SUFFICES ASSUME Tasks, NEW D \in SUBSET Request, NEW x \in Item, row'[x].v # row[x].v
                 PROVE  /\ ~Carried(x, row'[x].v)
                        /\ \A d \in Request \ D : Uncommitted(d) => req[d].v # row'[x].v
      BY DEF News
    <2>1. x = t /\ row'[x].v = 0
      BY <1>2
    <2>2. ~Carried(t, 0)
      BY <1>1, <1>2, HopeAssumption, CarriedBound
    <2>3. \A d \in Request : Uncommitted(d) => req[d].v # 0
      BY <1>1 DEF Grounds, Unique
    <2> QED
      BY <2>1, <2>2, <2>3
  <1>7. ASSUME NEW x \in Item, NEW y, KnownCard(x, y)' PROVE KnownCard(x, y)
    <2>1. c \in Mine /\ Answering(c, x)' /\ y = req'[c].answer => KnownCard(x, y)
      <3>1. CASE c \in C
        BY <3>1 DEF Answering
      <3>2. CASE c \notin C
        BY <1>3, <3>2 DEF Answering, KnownCard
      <3> QED
        BY <3>1, <3>2
    <2> QED
      BY <1>2, <1>3, <1>7, <2>1, ServerCards
  <1>8. StreamOK' /\ RowsOK'
    <2>1. StreamOK'
      BY <1>1, <1>2 DEF StreamOK
    <2>2. RowsOK'
      <3> SUFFICES ASSUME NEW x \in Item
                   PROVE  /\ row'[x].at <= clock' /\ event'[x] <= clock'
                          /\ row'[x].v # 0 => row'[x].at > 0
                          /\ Tasks /\ row'[x].v # 0 => row'[x].v = row'[x].at
        BY <1>2 DEF RowsOK, Live
      <3>1. CASE x # t
        BY <1>1, <1>2, <3>1 DEF RowsOK, Live
      <3>2. CASE x = t
        <4>1. 1 <= clock
          BY <1>1, <1>2 DEF RowsOK, TypeOK, Row
        <4> QED
          BY <1>2, <3>2, <4>1
      <3> QED
        BY <3>1, <3>2
    <2> QED
      BY <2>1, <2>2
  <1>9. ASSUME NEW d \in Request, req[d].at = "recorded"
        PROVE  req[d].ev \notin stream'.seen /\ \A x \in Item : event'[x] # req[d].ev
    <2>1. req[d].ev # 0 /\ req[d].ev \notin stream.seen /\ \A x \in Item : event[x] # req[d].ev
      BY <1>1, <1>2, <1>9 DEF Grounds, Fresh
    <2> QED
      BY <1>2, <2>1
  <1>10. c \in C => Legal(c)' /\ Unique(c)' /\ Fresh(c)' /\ Moved(c)'
    BY <1>1, <1>2 DEF Legal, Unique, Uncommitted, Fresh, Moved
  <1>11. Grounds'
    <2>1. C \in SUBSET Request /\ \A e \in C : e = c
      OBVIOUS
    <2>2. clock <= clock' /\ News(C) /\ Reveals /\ (c \in C => Reads(c))
      BY <1>2, <1>6, <1>7, <2>1 DEF Reveals, Reads
    <2>3. \A e \in C : Reads(e) /\ Legal(e)' /\ Unique(e)' /\ Fresh(e)' /\ (e \in Mine => Moved(e)')
      BY <1>10, <2>1, <2>2
    <2> QED
      BY <1>1, <1>2, <1>8, <1>9, <2>1, <2>2, <2>3, GroundsKeep
  <1> QED
    BY <1>5, <1>11 DEF Kept

LEMMA TheirDeleteKeeps ==
    ASSUME WInv, TypeOK', NEW c \in Theirs, NEW t \in Item, TheirDelete(c, t) PROVE Kept
  <1>1. TypeOK /\ c \in Request /\ Delete(t) /\ req' = req
    BY DEF WInv, IInv, Request, TheirDelete
  <1>2. history' = [history EXCEPT !.gap = Gap({t})]
    BY DEF TheirDelete
  <1>3. history'.gap = Gap({t}) /\ history'.missed = history.missed
    <2> DEFINE g == Gap({t})
    <2> HIDE DEF g
    <2> QED
      BY <1>1, <1>2 DEF TypeOK, g
  <1>4. \A u \in history.gap : u \in Wrong' => u \in history'.gap
    BY <1>3 DEF Gap
  <1>5. Buried(t)'
    <2>1. ~Live(t)' /\ shown'[t] # <<>> => t \in Wrong'
      BY DEF Wrong, Right
    <2> QED
      BY <1>3, <2>1 DEF Buried, Gap
  <1> DEFINE C == {}
  <1>6. C \in SUBSET {c} /\ c \notin C /\ \A d \in Request \ C : req'[d] = req[d]
    BY <1>1
  <1> HIDE DEF C
  <1> QED
    BY <1>1, <1>3, <1>4, <1>5, <1>6, DeleteKeeps

LEMMA MyDeleteKeeps == ASSUME WInv, TypeOK', NEW c \in Request, MyDelete(c) PROVE Kept
  <1>0. PICK t \in Item : t = req[c].item
    BY DEF WInv, IInv, TypeOK, RequestRecord
  <1>1. TypeOK /\ Delete(t) /\ req[c].at = "sent" /\ req[c].op = "delete" /\ Legal(c)
    BY <1>0 DEF WInv, IInv, MyDelete, Grounds
  <1>2. /\ req'[c].at = "answered" /\ req'[c].op = "delete" /\ req'[c].item = t
        /\ req'[c].before = req[c].before /\ \A d \in Request : d # c => req'[d] = req[d]
    BY <1>0, <1>1 DEF MyDelete, TypeOK, RequestRecord
  <1>3. history'.missed = history.missed /\ history'.gap = Gap({})
    <2> DEFINE g == Gap({})
    <2>1. history' = [history EXCEPT !.gap = g]
      BY DEF MyDelete
    <2> HIDE DEF g
    <2> QED
      BY <1>1, <2>1 DEF TypeOK, g
  <1>4. \A u \in history.gap : u \in Wrong' => u \in history'.gap
    BY <1>3 DEF Gap
  <1>5. Buried(t)'
    <2>1. c \in Mine
      BY <1>1 DEF Legal
    <2>2. Deleting(c, t)'
      BY <1>2 DEF Deleting
    <2> QED
      BY <2>1, <2>2 DEF Buried
  <1> DEFINE C == {c}
  <1>6. C \in SUBSET {c} /\ \A d \in Request \ C : req'[d] = req[d]
    BY <1>2
  <1> HIDE DEF C
  <1> QED
    BY <1>0, <1>1, <1>2, <1>3, <1>4, <1>5, <1>6, DeleteKeeps

LEMMA ServerKeeps == ASSUME WInv, TypeOK', ServerStep PROVE Kept
  <1>1. ASSUME NEW c \in Request, Serve(c) \/ Abort(c) PROVE Kept
    <2>1. CASE Accept(c)
      <3>1. Stamped(c, req[c].op, req[c].item) /\ req[c].at = "sent" /\ Legal(c)
        BY <1>1, <2>1 DEF Accept, WInv, Grounds
      <3>2. req[c].item \in Item
        BY <1>1 DEF WInv, IInv, TypeOK, RequestRecord
      <3> QED
        BY <1>1, <3>1, <3>2, StampedKeeps DEF Legal
    <2>2. CASE Record(c)
      BY <1>1, <2>2, RecordTaskKeeps, RecordApprovalKeeps
    <2> QED
      BY <1>1, <2>1, <2>2, RefuseKeeps, CommitKeeps, TellKeeps, MyDeleteKeeps, AbortKeeps DEF Serve
  <1>2. ASSUME NEW c \in Theirs, NEW t \in Item, TheirWrite(c, t) PROVE Kept
    <2>1. PICK op \in TheirOps : Stamped(c, op, t)
      BY <1>2 DEF TheirWrite
    <2>2. (Tasks => op # "reopen") /\ op # "move" /\ req[c].at = "idle"
      BY <1>2 DEF TheirOps, TheirWrite, Tasks
    <2>3. c \in Request /\ c \notin Mine
      BY RequestAssumption DEF Request
    <2> QED
      BY <2>1, <2>2, <2>3, StampedKeeps
  <1> QED
    BY <1>1, <1>2, TheirDeleteKeeps DEF ServerStep

-----------------------------------------------------------------------------
(* The steps of the stream. *)

LEMMA StreamGrounds ==
    ASSUME WInv, TypeOK', UNCHANGED <<kind, clock, row, event, req>>, StreamOK',
           \A d \in Request : req[d].at = "recorded" => req[d].ev \notin stream'.seen,
           Reveals
    PROVE  Grounds'
  <1>1. TypeOK /\ Grounds
    BY DEF WInv, IInv
  <1>2. RowsOK'
    BY <1>1 DEF Grounds, RowsOK, Live, Tasks
  <1>3. clock <= clock' /\ \A C \in SUBSET Request : News(C)
    BY <1>1 DEF TypeOK, News
  <1>4. \A d \in Request : req[d].at = "recorded" =>
            req[d].ev \notin stream'.seen /\ \A x \in Item : event'[x] # req[d].ev
    BY <1>1 DEF Grounds, Fresh
  <1> DEFINE C == {}
  <1>5. C \in SUBSET Request /\ (\A e : e \notin C) /\ \A d \in Request \ C : req'[d] = req[d]
    OBVIOUS
  <1> HIDE DEF C
  <1> QED
    BY <1>1, <1>2, <1>3, <1>4, <1>5, GroundsKeep

\* The greatest of finitely many stamps.
LEMMA GreatestStamp ==
    ASSUME NEW n \in Nat, NEW S \in SUBSET (1..n), S # {}
    PROVE  \E m \in S : \A s \in S : s <= m
  <1> DEFINE Below == {k \in Nat : k <= n /\ n - k \in S}
  <1>1. Below \subseteq Nat /\ Below # {}
    <2>1. PICK s \in S : TRUE
      OBVIOUS
    <2>2. n - s \in Nat /\ n - s <= n /\ n - (n - s) = s
      BY <2>1
    <2> QED
      BY <2>1, <2>2
  <1>2. PICK k \in Below : \A j \in Below : ~ (<<j, k>> \in OpToRel(<, Nat))
    BY <1>1, NatLessThanWellFounded, WFMin
  <1>3. ASSUME NEW s \in S PROVE s <= n - k
    <2>1. n - s \in Below
      BY <1>3
    <2>2. ~ (n - s < k)
      BY <1>1, <1>2, <2>1 DEF OpToRel
    <2>3. s \in 1..n
      BY <1>3
    <2>4. k \in Nat
      BY <1>2
    <2> HIDE DEF Below
    <2> QED
      BY <2>2, <2>3, <2>4
  <1> QED
    BY <1>2, <1>3

LEMMA CursorStamp ==
    ASSUME TypeOK, Dated
    PROVE  /\ Cursor \in 0..clock /\ (Stamps # {} => Cursor \in Stamps)
           /\ \A s \in Stamps : s \in 1..clock
  <1>1. clock \in Nat
    BY DEF TypeOK
  <1>2. ASSUME NEW s \in Stamps PROVE s \in 1..clock
    <2>1. PICK t \in Item : \E i \in 1..Len(current[t]) : s = current[t][i].at
      BY DEF Stamps
    <2>2. PICK i \in 1..Len(current[t]) : s = current[t][i].at
      BY <2>1
    <2>3. KnownCard(t, current[t][i])
      BY <2>2 DEF KnownCard, CardsIn
    <2> QED
      BY <2>2, <2>3 DEF Dated, Bounded
  <1>3. CASE Stamps = {}
    BY <1>1, <1>3 DEF Cursor
  <1>4. CASE Stamps # {}
    <2>1. Stamps \in SUBSET (1..clock)
      BY <1>2
    <2>2. \E m \in Stamps : \A s \in Stamps : s <= m
      BY <1>1, <1>4, <2>1, GreatestStamp
    <2>3. Cursor \in Stamps
      BY <1>4, <2>2 DEF Cursor
    <2> QED
      BY <1>1, <1>2, <2>3
  <1> QED
    BY <1>2, <1>3, <1>4

\* A connection that leaves a wrong item out has jumped over it, and that is known.
LEMMA ConnectKeeps == ASSUME WInv, TypeOK', Connect PROVE Kept
  <1>1. TypeOK /\ Grounds /\ (\A u \in Item : Explained(u)) /\ StreamOK /\ Dated /\ RowsOK
    BY DEF WInv, IInv, Explained, Grounds
  <1>2. /\ UNCHANGED <<kind, clock, row, event, req, loaded, shown, current, wire>> /\ clock \in Nat /\ wire = <<>> /\ loaded
        /\ stream' = [on |-> TRUE, lastSeen |-> Cursor, seen |-> {}]
        /\ (Tasks' <=> Tasks)
    BY <1>1 DEF Connect, serverVars, StreamOK, TypeOK, Tasks
  <1> DEFINE jumped == {t \in Wrong : ~Untold(t) /\ (Stamps = {} \/ \E s \in Stamps : Entry(t) < s)}
  <1>3. history'.gap = Gap(jumped)
    <2> DEFINE g == Gap(jumped)
    <2>1. history' = [history EXCEPT !.missed = {}, !.gap = g]
      BY DEF Connect
    <2> HIDE DEF g
    <2> QED
      BY <1>1, <2>1 DEF TypeOK, g
  <1>4. StreamOK'
    BY <1>1, <1>2, CursorStamp DEF StreamOK
  <1>5. ASSUME NEW u \in Item PROVE Explained(u)'
    <2>1. (Right(u)' <=> Right(u)) /\ (u \in Wrong' <=> ~Right(u)) /\ (Live(u)' <=> Live(u)) /\ (Untold(u)' <=> Untold(u))
          /\ ~OnWire(u)' /\ Entry(u)' = Entry(u)
      BY <1>2 DEF Right, Wrong, Live, Untold, OnWire, Entry
    <2>2. Coming(u)'
      BY <2>1 DEF Coming
    <2>3. Settled(u)'
      <3> SUFFICES ASSUME Live(u), ~Untold(u), u \notin history'.gap, ~Right(u) PROVE u \in Due'
        BY <2>1 DEF Settled, Told
      <3>1. u \in Wrong /\ u \notin jumped
        BY <1>3, <2>1 DEF Gap, Wrong
      <3>2. Stamps # {} /\ \A s \in Stamps : ~(Entry(u) < s)
        BY <3>1
      <3>3. Cursor \in Stamps /\ Cursor \in 1..clock
        BY <1>1, <3>2, CursorStamp
      <3>4. Entry(u) \in Nat
        BY <1>1 DEF Entry, TypeOK, Row
      <3>5. Entry(u) >= Cursor /\ Entry(u) > 0
        BY <1>2, <3>2, <3>3, <3>4
      <3> QED
        BY <1>2, <2>1, <3>5 DEF Due
    <2>4. Buried(u)'
      <3>1. u \in history.gap /\ ~Right(u) => u \in history'.gap
        BY <1>3, <2>1 DEF Gap
      <3>2. ~Live(u) /\ shown[u] # <<>> => ~Right(u)
        BY DEF Right
      <3>3. \A c \in Mine : Deleting(c, u)' <=> Deleting(c, u)
        BY <1>2 DEF Deleting
      <3> QED
        BY <1>1, <1>2, <2>1, <3>1, <3>2, <3>3 DEF Explained, Buried
    <2> QED
      BY <2>2, <2>3, <2>4 DEF Explained
  <1>6. ASSUME NEW x \in Item, NEW y, KnownCard(x, y)' PROVE KnownCard(x, y)
    BY <1>2, <1>6 DEF KnownCard, OfWire, Card, Answering
  <1>7. \A d \in Request : req[d].at = "recorded" => req[d].ev \notin stream'.seen
    BY <1>2
  <1>8. Grounds'
    BY <1>2, <1>4, <1>6, <1>7, StreamGrounds DEF Reveals
  <1> QED
    BY <1>5, <1>8 DEF Kept

LEMMA BreakKeeps == ASSUME WInv, TypeOK', Break PROVE Kept
  <1>1. TypeOK /\ Grounds /\ (\A u \in Item : Explained(u)) /\ StreamOK
    BY DEF WInv, IInv, Explained, Grounds
  <1>2. /\ UNCHANGED <<kind, clock, row, event, req, loaded, shown, current>> /\ clock \in Nat /\ wire' = <<>>
        /\ stream' = [on |-> FALSE, lastSeen |-> 0, seen |-> {}] /\ history'.gap = history.gap
        /\ (Tasks' <=> Tasks)
    BY <1>1 DEF Break, serverVars, TypeOK, Tasks, Off
  <1>3. StreamOK'
    BY <1>2 DEF StreamOK
  <1>4. ASSUME NEW u \in Item PROVE Explained(u)'
    <2>1. \A c \in Mine : Deleting(c, u)' <=> Deleting(c, u)
      BY <1>2 DEF Deleting
    <2>2. Buried(u)'
      BY <1>1, <1>2, <2>1 DEF Explained, Buried, Live
    <2> QED
      BY <1>2, <2>2 DEF Explained, Coming, Settled
  <1>5. ASSUME NEW x \in Item, NEW y, KnownCard(x, y)' PROVE KnownCard(x, y)
    <2>1. y \notin OfWire(x)'
      BY <1>2 DEF OfWire
    <2> QED
      BY <1>2, <1>5, <2>1 DEF KnownCard, Answering
  <1>6. \A d \in Request : req[d].at = "recorded" => req[d].ev \notin stream'.seen
    BY <1>2
  <1>7. Grounds'
    BY <1>2, <1>3, <1>5, <1>6, StreamGrounds DEF Reveals
  <1> QED
    BY <1>4, <1>7 DEF Kept

\* A round brings the row of what is due, and leaves the rest as it is.
LEMMA PollKeeps == ASSUME WInv, TypeOK', Poll PROVE Kept
  <1>1. TypeOK /\ Grounds /\ (\A u \in Item : Explained(u)) /\ StreamOK /\ RowsOK
    BY DEF WInv, IInv, Explained, Grounds
  <1>2. PICK q \in Sorted(Due) :
            /\ wire' = wire \o [i \in DOMAIN q |-> Payload(q[i])]
            /\ stream' = [stream EXCEPT !.lastSeen = Entry(q[Len(q)]), !.seen = {Entry(q[Len(q)])}]
    BY DEF Poll
  <1>3. /\ UNCHANGED <<kind, clock, row, event, req, loaded, shown, current>> /\ clock \in Nat /\ stream.on /\ Due # {}
        /\ history'.gap = history.gap /\ history'.missed = history.missed \ Due /\ (Tasks' <=> Tasks)
    BY <1>1 DEF Poll, serverVars, TypeOK, Tasks
  <1>4. PICK z \in Due : stream' = [stream EXCEPT !.lastSeen = Entry(z), !.seen = {Entry(z)}]
    <2>1. /\ Cardinality(Due) \in Nat /\ DOMAIN q = 1..Cardinality(Due)
          /\ \A i \in DOMAIN q : q[i] \in Due
          /\ \A u \in Due : \E i \in DOMAIN q : q[i] = u
      BY <1>1, DueOnce
    <2>2. \E i \in 1..Cardinality(Due) : TRUE
      BY <1>3, <2>1
    <2>3. Cardinality(Due) \in 1..Cardinality(Due)
      BY <2>1, <2>2
    <2>4. Len(q) = Cardinality(Due)
      BY <2>1 DEF Sorted
    <2> QED
      BY <1>2, <2>1, <2>3, <2>4
  <1>5. z \in Item /\ Entry(z) \in 0..clock
    BY <1>1, <1>3 DEF Due, Entry, RowsOK, TypeOK, Row
  <1>6. stream' = [on |-> TRUE, lastSeen |-> Entry(z), seen |-> {Entry(z)}]
    BY <1>1, <1>3, <1>4 DEF StreamOK
  <1>7. StreamOK'
    <2>1. Entry(z) \in 0..clock' /\ {Entry(z)} \in SUBSET Nat
      BY <1>3, <1>5
    <2> QED
      BY <1>1, <1>3, <1>6, <2>1 DEF StreamOK
  <1>8. ASSUME NEW u \in Item
        PROVE  /\ u \in Due => OnWire(u)' /\ Brings(u)'
               /\ u \notin Due => (OnWire(u)' <=> OnWire(u)) /\ (Brings(u) => Brings(u)')
               /\ \A x : x \in OfWire(u)' =>
                     x \in OfWire(u) \/ (u \in Due /\ x = [v |-> row[u].v, at |-> row[u].at])
    BY <1>1, <1>2, <1>3, WirePoll
  <1>9. ASSUME NEW u \in Item PROVE Explained(u)'
    <2>1. /\ Right(u)' <=> Right(u)
          /\ Live(u)' <=> Live(u)
          /\ Untold(u)' <=> Untold(u)
          /\ \A c \in Mine : (Deleting(c, u)' <=> Deleting(c, u)) /\ (Restores(c, u)' <=> Restores(c, u))
      BY <1>3 DEF Right, Live, Untold, Deleting, Restores
    <2>2. CASE u \in Due
      <3>1. Buried(u)'
        BY <1>1, <1>3, <2>1 DEF Explained, Buried
      <3> QED
        BY <1>8, <2>2, <3>1 DEF Explained, Coming, Settled
    <2>3. CASE u \notin Due
      <3>1. \A x : KnownCard(u, x)' => KnownCard(u, x)
        BY <1>3, <1>8, <2>3 DEF KnownCard, Answering
      <3>2. Told(u) => Told(u)'
        BY <1>3, <2>3 DEF Told
      <3>3. ~Live(u) /\ shown'[u] # <<>> => shown[u] # <<>>
        BY <1>3
      <3>4. Undisturbed(u)
        BY <1>3, <1>6, <1>8, <2>1, <2>3, <3>1, <3>2, <3>3 DEF Undisturbed
      <3> QED
        BY <1>1, <3>4, UndisturbedKeeps
    <2> QED
      BY <2>2, <2>3
  <1>10. ASSUME NEW x \in Item, NEW y, KnownCard(x, y)' PROVE KnownCard(x, y) \/ (Bounded(y)' /\ Carried(x, y.v))
    <2> SUFFICES ASSUME ~KnownCard(x, y) PROVE Bounded(y)' /\ Carried(x, y.v)
      OBVIOUS
    <2>1. y \in OfWire(x)' /\ y \notin OfWire(x)
      BY <1>3, <1>10 DEF KnownCard, Answering
    <2>2. x \in Due /\ y = [v |-> row[x].v, at |-> row[x].at]
      BY <1>8, <2>1
    <2>3. row[x].at \in 1..clock /\ (Tasks => row[x].v = row[x].at)
      BY <1>1, <1>3, <2>2 DEF RowsOK, Due, TypeOK, Row
    <2> QED
      BY <1>3, <2>2, <2>3 DEF Bounded, Carried
  <1>11. ASSUME NEW d \in Request, req[d].at = "recorded" PROVE req[d].ev \notin stream'.seen
    <2>1. Tasks /\ \A t \in Item : event[t] # req[d].ev
      BY <1>1, <1>11 DEF Grounds, Fresh
    <2>2. Entry(z) = event[z]
      BY <2>1 DEF Entry, Tasks
    <2> QED
      BY <1>5, <1>6, <2>1, <2>2
  <1>12. Grounds'
    BY <1>3, <1>7, <1>10, <1>11, StreamGrounds DEF Reveals
  <1> QED
    BY <1>9, <1>12 DEF Kept

\* The payload that was the last one brings the row, unless a gap is known.
LEMMA DeliverKeeps == ASSUME WInv, TypeOK', Deliver PROVE Kept
  <1> DEFINE P == Head(wire)
             over == {t \in {P.item} : ~Live(t) \/ Len(shown[P.item]) > 1}
  <1>1. TypeOK /\ Grounds /\ (\A u \in Item : Explained(u)) /\ StreamOK /\ Dated
    BY DEF WInv, IInv, Explained, Grounds
  <1>2. /\ UNCHANGED <<kind, clock, row, event, req, loaded, current, stream>> /\ clock \in Nat
        /\ wire # <<>> /\ wire' = Tail(wire) /\ (Tasks' <=> Tasks)
        /\ shown' = [shown EXCEPT ![P.item] = PutFirst(shown[P.item], Card(P))]
    BY <1>1 DEF Deliver, serverVars, TypeOK, Tasks, PutFirst
  <1>3. ASSUME NEW u \in Item
        PROVE  /\ P \in Payloads /\ Card(P) \in OfWire(P.item)
               /\ OnWire(u)' => OnWire(u)
               /\ \A x : x \in OfWire(u)' => x \in OfWire(u)
               /\ Brings(u) /\ OnWire(u)' => Brings(u)'
               /\ OnWire(u) /\ ~OnWire(u)' => P.item = u
               /\ Brings(u) /\ ~OnWire(u)' => P.v = row[u].v
    BY <1>1, <1>2, WireDeliver
  <1>4. P \in Payloads /\ Card(P) \in OfWire(P.item) /\ P.item \in Item
    BY <1>3, ItemAssumption DEF Payloads
  <1>5. PICK p \in Payloads, t \in Item : p = P /\ t = P.item
    BY <1>4
  <1>6. history'.gap = Gap(over) /\ history'.missed = history.missed
    <2> DEFINE g == Gap(over)
    <2>1. history' = [history EXCEPT !.gap = g]
      BY DEF Deliver
    <2> HIDE DEF g
    <2> QED
      BY <1>1, <2>1 DEF TypeOK, g
  <1>7. /\ t \in over <=> ~Live(t) \/ Len(shown[t]) > 1
        /\ p.item = t /\ Card(p) \in OfWire(t) /\ Card(p) \in CardRecord /\ Card(p).v = p.v
    BY <1>4, <1>5 DEF Card, CardRecord, Payloads
  <1> HIDE DEF over
  <1>8. shown'[t] = PutFirst(shown[t], Card(p)) /\ \A u \in Item : u # t => shown'[u] = shown[u]
    BY <1>1, <1>2, <1>5 DEF TypeOK
  <1>9. /\ shown'[t] # <<>>
        /\ CardsIn(shown'[t]) \subseteq CardsIn(shown[t]) \cup {Card(p)}
        /\ ~(Len(shown[t]) > 1) => CardsIn(shown'[t]) = {Card(p)}
    <2>1. shown[t] \in Cards
      BY <1>1 DEF TypeOK
    <2> QED
      BY <1>7, <1>8, <2>1, CardsPut
  <1>10. ASSUME NEW u \in Item, NEW x, KnownCard(u, x)' PROVE KnownCard(u, x)
    <2>1. CASE x \in CardsIn(shown'[u])
      BY <1>7, <1>8, <1>9, <2>1 DEF KnownCard
    <2>2. CASE x \notin CardsIn(shown'[u])
      BY <1>2, <1>3, <1>10, <2>2 DEF KnownCard, Answering
    <2> QED
      BY <2>1, <2>2
  <1>11. ASSUME NEW u \in Item
         PROVE  /\ Live(u)' <=> Live(u)
                /\ Untold(u)' <=> Untold(u)
                /\ Told(u)' <=> Told(u)
                /\ u \in Wrong' <=> ~Right(u)'
                /\ u \in history.gap /\ u \in Wrong' => u \in history'.gap
                /\ \A c \in Mine : (Deleting(c, u)' <=> Deleting(c, u)) /\ (Restores(c, u)' <=> Restores(c, u))
    <2>1. u \in Due' <=> u \in Due
      BY <1>2 DEF Due, Entry, Live
    <2> QED
      BY <1>2, <1>6, <2>1 DEF Live, Untold, Told, Wrong, Gap, Deleting, Restores
  <1>12. ASSUME NEW u \in Item, u # t PROVE Explained(u)'
    <2>1. (OnWire(u)' <=> OnWire(u)) /\ (Brings(u) => Brings(u)')
      <3>1. OnWire(u) => OnWire(u)'
        BY <1>3, <1>5, <1>12
      <3>2. Brings(u) => OnWire(u)
        BY DEF Brings, OnWire
      <3> QED
        BY <1>3, <3>1, <3>2
    <2>2. (Right(u) <=> Right(u)') /\ (~Live(u) /\ shown'[u] # <<>> => ~Right(u)' /\ shown[u] # <<>>)
      BY <1>2, <1>8, <1>12 DEF Right, Live
    <2>3. Undisturbed(u)
      BY <1>2, <1>10, <1>11, <2>1, <2>2 DEF Undisturbed
    <2> QED
      BY <1>1, <2>3, UndisturbedKeeps
  <1>13. Explained(t)'
    <2>1. Explained(t) /\ OnWire(t)
      <3>1. Len(wire) > 0 /\ wire[1] = P
        <4> DEFINE R == Payloads
        <4>1. wire \in Seq(R)
          BY <1>1 DEF TypeOK, Payloads
        <4> HIDE DEF R
        <4> QED
          BY <1>2, <4>1
      <3>2. Len(wire) \in Nat
        BY <1>1 DEF TypeOK
      <3> QED
        BY <1>1, <1>5, <3>1, <3>2 DEF OnWire
    <2>2. Live(t) /\ Right(t)' => \E x : KnownCard(t, x) /\ x.v = row[t].v
      <3>1. Live(t) /\ Right(t)' => \E x : KnownCard(t, x)' /\ x.v = row'[t].v
        BY <1>11, RightCardLater
      <3> QED
        BY <1>2, <1>10, <3>1
    <2>3. Coming(t)'
      <3> SUFFICES ASSUME stream'.on, Live(t)', ~Told(t)', OnWire(t)', ~Brings(t)'
                   PROVE  /\ Tasks' /\ (Untold(t)' \/ t \in history'.gap)
                          /\ \A x : KnownCard(t, x)' => x.v # row'[t].v
        BY DEF Coming
      <3>1. Tasks /\ (Untold(t) \/ t \in history.gap) /\ \A x : KnownCard(t, x) => x.v # row[t].v
        BY <1>2, <1>3, <1>11, <2>1 DEF Explained, Coming
      <3>2. ~Right(t)'
        BY <1>11, <2>2, <3>1
      <3> QED
        BY <1>2, <1>10, <1>11, <3>1, <3>2
    <2>4. Settled(t)'
      <3> SUFFICES ASSUME stream'.on, Live(t)', ~Told(t)', ~OnWire(t)', ~Untold(t)', t \notin history'.gap, ~Right(t)'
                   PROVE  FALSE
        BY DEF Settled
      <3>1. Brings(t)
        BY <1>2, <1>11, <2>1 DEF Explained, Coming
      <3>2. p.v = row[t].v
        BY <1>3, <1>5, <3>1
      <3>3. ~(Len(shown[t]) > 1)
        BY <1>6, <1>7, <1>11 DEF Gap
      <3>4. \A x \in CardsIn(shown'[t]) : x.v = row'[t].v
        BY <1>2, <1>7, <1>9, <3>2, <3>3
      <3>5. Right(t)'
        BY <1>9, <3>4 DEF Right, CardsIn
      <3> QED
        BY <3>5
    <2>5. Buried(t)'
      <3>1. ~Live(t)' => t \in Wrong'
        BY <1>9, <1>11 DEF Right
      <3> QED
        BY <1>6, <1>7, <1>11, <3>1 DEF Buried, Gap
    <2> QED
      BY <2>3, <2>4, <2>5 DEF Explained
  <1>14. StreamOK'
    BY <1>1, <1>2 DEF StreamOK
  <1>15. \A d \in Request : req[d].at = "recorded" => req[d].ev \notin stream'.seen
    BY <1>1, <1>2 DEF Grounds, Fresh
  <1>16. Grounds'
    BY <1>2, <1>10, <1>14, <1>15, StreamGrounds DEF Reveals
  <1> QED
    BY <1>12, <1>13, <1>16 DEF Kept

-----------------------------------------------------------------------------
(* The steps of the page. *)

LEMMA NoCardsIn == CardsIn(<<>>) = {}
  BY DEF CardsIn

LEMMA SendKnows ==
    ASSUME WInv, TypeOK', NEW c \in Mine, NEW t \in Item, Send(c, t) PROVE Kept
  <1>1. TypeOK /\ Grounds /\ (\A u \in Item : Explained(u))
    BY DEF WInv, IInv, Explained, Grounds
  <1>2. /\ UNCHANGED <<kind, clock, row, event, loaded, shown, current, stream, wire, history>> /\ clock \in Nat
        /\ req[c].at = "idle" /\ (Tasks' <=> Tasks) /\ c \in Request
    BY <1>1 DEF Send, serverVars, pageVars, TypeOK, Tasks, Request
  <1>3. PICK op \in MyOps : req' = [req EXCEPT ![c] = Sent(c, op, t)]
    BY DEF Send
  <1>4. op \in {"create", "save", "delete", "decide"}
    BY <1>3 DEF MyOps
  <1>5. /\ req'[c].at = "sent" /\ req'[c].op = op /\ req'[c].item = t /\ req'[c].before = NoCards
        /\ \A d \in Request : d # c => req'[d] = req[d]
    BY <1>1, <1>2, <1>3, <1>4 DEF Sent, Idle, TypeOK
  <1>6. ASSUME NEW u \in Item, NEW x, KnownCard(u, x)' PROVE KnownCard(u, x)
    <2>1. OfWire(u)' = OfWire(u)
      BY <1>2 DEF OfWire, Card
    <2>2. ~(x \in CardsIn(req'[c].before[u])) /\ ~Answering(c, u)'
      BY <1>5, NoCardsIn DEF NoCards, Answering
    <2>3. ASSUME NEW d \in Mine, x \in CardsIn(req'[d].before[u]) \/ (Answering(d, u)' /\ x = req'[d].answer)
          PROVE  KnownCard(u, x)
      <3>1. req'[d] = req[d]
        BY <1>5, <2>2, <2>3 DEF Request
      <3> QED
        BY <2>3, <3>1 DEF KnownCard, Answering
    <2> QED
      BY <1>2, <1>6, <2>1, <2>3 DEF KnownCard
  <1>7. ASSUME NEW u \in Item PROVE Explained(u)'
    <2>1. ASSUME NEW d \in Mine
          PROVE  (Restores(d, u) => Restores(d, u)') /\ (Deleting(d, u) => Deleting(d, u)')
      <3>1. CASE d = c
        BY <1>2, <3>1 DEF Restores, Deleting
      <3>2. CASE d # c
        <4>1. req'[d] = req[d]
          BY <1>5, <2>1, <3>2 DEF Request
        <4> QED
          BY <1>2, <4>1 DEF Restores, Deleting
      <3> QED
        BY <3>1, <3>2
    <2>2. Untold(u) => Untold(u)'
      BY <1>2, <1>5 DEF Untold
    <2>3. (Right(u) <=> Right(u)') /\ (~Live(u) /\ shown'[u] # <<>> => ~Right(u)' /\ shown[u] # <<>>)
      BY <1>2 DEF Right, Live
    <2>4. /\ Told(u) => Told(u)'
          /\ OnWire(u)' <=> OnWire(u)
          /\ Brings(u)' <=> Brings(u)
      BY <1>2, SameStream
    <2>5. Undisturbed(u)
      BY <1>2, <1>6, <2>1, <2>2, <2>3, <2>4 DEF Undisturbed
    <2> QED
      BY <1>1, <2>5, UndisturbedKeeps
  <1>8. Legal(c)' /\ Unique(c)' /\ Fresh(c)' /\ Moved(c)'
    BY <1>2, <1>4, <1>5 DEF Legal, Unique, Uncommitted, Fresh, Moved
  <1>9. Grounds'
    <2>1. Reveals /\ Reads(c) /\ clock <= clock'
      BY <1>2, <1>5, <1>6 DEF Reveals, Reads
    <2> QED
      BY <1>1, <1>2, <1>5, <1>8, <2>1, RequestKeep
  <1> QED
    BY <1>7, <1>9 DEF Kept

\* A card that is moved shows what the page hopes for; the rollback has the rest.
LEMMA MoveKnows ==
    ASSUME WInv, TypeOK', NEW c \in Mine, NEW t \in Item, Move(c, t) PROVE Kept
  <1>1. TypeOK /\ Grounds /\ (\A u \in Item : Explained(u)) /\ Dated
    BY DEF WInv, IInv, Explained, Grounds
  <1>2. /\ UNCHANGED <<kind, clock, row, event, loaded, current, stream, wire>> /\ clock \in Nat
        /\ req[c].at = "idle" /\ Tasks /\ Tasks' /\ c \in Request /\ current[t] # <<>>
    BY <1>1 DEF Move, serverVars, TypeOK, Tasks, Request
  <1>3. /\ req'[c].at = "sent" /\ req'[c].op = "move" /\ req'[c].item = t /\ req'[c].before = current
        /\ \A d \in Request : d # c => req'[d] = req[d]
    BY <1>1, <1>2 DEF Move, Sent, Idle, TypeOK
  <1>4. /\ shown'[t] = Hoped(shown[t]) /\ \A u \in Item : u # t => shown'[u] = shown[u]
        /\ shown[t] \in Cards
    BY <1>1 DEF Move, TypeOK
  <1>12. shown[t] = <<>> => shown'[t] = <<>>
    BY <1>4 DEF Hoped
  <1>5. /\ \A x \in CardsIn(shown'[t]) : x.v = Hope /\ \E y \in CardsIn(shown[t]) : x.at = y.at
    BY <1>2, <1>4, CardsHoped
  <1>6. history'.missed = history.missed /\ history'.gap = Gap({x \in {t} : current[x] # shown[x]})
    <2> DEFINE g == Gap({x \in {t} : current[x] # shown[x]})
               m == history.crossed \/ current # shown \/ \E u \in Item : Moving(u)
    <2>1. history' = [history EXCEPT !.gap = g, !.crossed = m]
      BY DEF Move
    <2> HIDE DEF g, m
    <2> QED
      BY <1>1, <2>1 DEF TypeOK, g
  <1>7. ASSUME NEW u \in Item, NEW x, KnownCard(u, x)'
        PROVE  KnownCard(u, x) \/ (u = t /\ x \in CardsIn(shown'[t]))
    <2>1. OfWire(u)' = OfWire(u)
      BY <1>2 DEF OfWire, Card
    <2>2. x \in CardsIn(shown'[u]) => KnownCard(u, x) \/ (u = t /\ x \in CardsIn(shown'[t]))
      BY <1>4 DEF KnownCard
    <2>3. ASSUME NEW d \in Mine, x \in CardsIn(req'[d].before[u]) \/ (Answering(d, u)' /\ x = req'[d].answer)
          PROVE  KnownCard(u, x)
      <3>1. CASE d = c
        BY <1>3, <2>3, <3>1 DEF KnownCard, Answering
      <3>2. CASE d # c
        <4>1. req'[d] = req[d]
          BY <1>3, <2>3, <3>2 DEF Request
        <4> QED
          BY <2>3, <4>1 DEF KnownCard, Answering
      <3> QED
        BY <3>1, <3>2
    <2> QED
      BY <1>2, <1>7, <2>1, <2>2, <2>3 DEF KnownCard
  <1>8. ASSUME NEW u \in Item PROVE Explained(u)'
    <2>1. ASSUME NEW d \in Mine
          PROVE  (Restores(d, u) => Restores(d, u)') /\ (Deleting(d, u) => Deleting(d, u)')
      <3>1. CASE d = c
        BY <1>2, <3>1 DEF Restores, Deleting
      <3>2. CASE d # c
        <4>1. req'[d] = req[d]
          BY <1>3, <2>1, <3>2 DEF Request
        <4> QED
          BY <1>2, <4>1 DEF Restores, Deleting
      <3> QED
        BY <3>1, <3>2
    <2>2. Untold(u) => Untold(u)'
      BY <1>2, <1>3 DEF Untold
    <2>3. /\ Told(u) => Told(u)'
          /\ OnWire(u)' <=> OnWire(u)
          /\ Brings(u)' <=> Brings(u)
      BY <1>2, <1>6, SameStream
    <2>4. \A x : KnownCard(u, x)' => KnownCard(u, x) \/ x.v = Hope
      BY <1>5, <1>7
    <2>5. Live(u) /\ Right(u) => Right(u)' \/ u \in history'.gap \/ Restores(c, u)'
      <3>1. CASE u = t /\ current[t] = shown[t]
        BY <1>2, <1>3, <3>1, RightCards DEF Restores
      <3>3. CASE u = t /\ current[t] # shown[t]
        BY <1>6, <3>3 DEF Gap, Wrong
      <3>2. CASE u # t
        BY <1>2, <1>4, <3>2 DEF Right, Live
      <3> QED
        BY <3>1, <3>2, <3>3
    <2>6. ~Live(u) /\ shown'[u] # <<>> => ~Right(u)' /\ shown[u] # <<>>
      BY <1>2, <1>4, <1>12 DEF Right, Live
    <2>7. u \in history.gap => u \in history'.gap \/ Right(u)'
      BY <1>6 DEF Gap, Wrong
    <2>8. Undisturbed(u)
      BY <1>2, <2>1, <2>2, <2>3, <2>4, <2>5, <2>6, <2>7 DEF Undisturbed
    <2> QED
      BY <1>1, <2>8, UndisturbedKeeps
  <1>9. Reveals
    <2> SUFFICES ASSUME NEW u \in Item, NEW x, KnownCard(u, x)', ~KnownCard(u, x)
                 PROVE  Bounded(x)' /\ x.v = Hope
      BY DEF Reveals
    <2>1. u = t /\ x.v = Hope /\ \E y \in CardsIn(shown[t]) : x.at = y.at
      BY <1>5, <1>7
    <2>2. x.at \in 1..clock
      BY <1>1, <2>1 DEF Dated, Bounded, KnownCard
    <2> QED
      BY <1>2, <2>1, <2>2 DEF Bounded
  <1>10. Legal(c)' /\ Unique(c)' /\ Fresh(c)' /\ Moved(c)'
    BY <1>2, <1>3 DEF Legal, Unique, Uncommitted, Fresh, Moved
  <1>11. Grounds'
    <2>1. Reads(c) /\ clock <= clock'
      BY <1>2, <1>3 DEF Reads
    <2> QED
      BY <1>1, <1>2, <1>3, <1>9, <1>10, <2>1, RequestKeep
  <1> QED
    BY <1>8, <1>11 DEF Kept

\* The snapshot shows items as they are, and no stream is on.
LEMMA LoadKnows == ASSUME WInv, TypeOK', Load PROVE Kept
  <1>1. TypeOK /\ Grounds /\ StreamOK /\ RowsOK /\ ~loaded
    BY DEF WInv, IInv, Grounds, Load
  <1>2. /\ UNCHANGED <<kind, clock, row, event, req, stream, wire>> /\ clock \in Nat /\ (Tasks' <=> Tasks)
        /\ loaded' = TRUE /\ current' = shown' /\ ~stream.on
        /\ \A t \in Item : shown'[t] = IF t \in Listed THEN <<row[t]>> ELSE <<>>
    BY <1>1 DEF Load, serverVars, TypeOK, Tasks, StreamOK
  <1>3. ASSUME NEW u \in Item PROVE Explained(u)'
    <2>1. ~Live(u) => shown'[u] = <<>>
      BY <1>2 DEF Listed
    <2> QED
      BY <1>2, <2>1 DEF Explained, Coming, Settled, Buried, Live
  <1>4. ASSUME NEW u \in Item, NEW x, KnownCard(u, x)', ~KnownCard(u, x)
        PROVE  Bounded(x)' /\ Carried(u, x.v)
    <2>1. OfWire(u)' = OfWire(u)
      BY <1>2 DEF OfWire, Card
    <2>2. x \in CardsIn(shown'[u])
      BY <1>2, <1>4, <2>1 DEF KnownCard, Answering
    <2>3. u \in Listed /\ x = row[u]
      <3>1. u \in Listed
        BY <1>2, <2>2, NoCardsIn
      <3>2. \A i \in 1..Len(shown'[u]) : shown'[u][i] = row[u]
        BY <1>1, LoadCards
      <3> QED
        BY <2>2, <3>1, <3>2 DEF CardsIn
    <2>4. row[u].at \in 1..clock /\ (Tasks => row[u].v = row[u].at)
      BY <1>1, <1>2, <2>3 DEF Listed, RowsOK, TypeOK, Row
    <2> QED
      BY <1>2, <2>3, <2>4 DEF Bounded, Carried
  <1>5. StreamOK'
    BY <1>1, <1>2 DEF StreamOK
  <1>6. \A d \in Request : req[d].at = "recorded" => req[d].ev \notin stream'.seen
    BY <1>1, <1>2 DEF Grounds, Fresh
  <1>7. Reveals
    BY <1>4 DEF Reveals
  <1>8. Grounds'
    BY <1>2, <1>5, <1>6, <1>7, StreamGrounds
  <1> QED
    BY <1>3, <1>8 DEF Kept

\* The handlers come to know what is shown already.
LEMMA RenderKnows == ASSUME WInv, TypeOK', Render PROVE Kept
  <1>1. TypeOK /\ Grounds /\ (\A u \in Item : Explained(u)) /\ StreamOK
    BY DEF WInv, IInv, Explained, Grounds
  <1>2. /\ UNCHANGED <<kind, clock, row, event, req, loaded, shown, stream, wire, history>>
        /\ current' = shown /\ (Tasks' <=> Tasks)
    BY DEF Render, serverVars, Tasks
  <1>3. ASSUME NEW u \in Item, NEW x, KnownCard(u, x)' PROVE KnownCard(u, x)
    BY <1>2, <1>3 DEF KnownCard, OfWire, Card, Answering
  <1>4. ASSUME NEW u \in Item PROVE Explained(u)'
    <2>1. /\ Told(u) => Told(u)'
          /\ OnWire(u)' <=> OnWire(u)
          /\ Brings(u)' <=> Brings(u)
      BY <1>2, SameStream
    <2>2. /\ Right(u)' <=> Right(u)
          /\ Untold(u)' <=> Untold(u)
          /\ \A c \in Mine : (Deleting(c, u)' <=> Deleting(c, u)) /\ (Restores(c, u)' <=> Restores(c, u))
      BY <1>2 DEF Right, Live, Untold, Deleting, Restores
    <2>3. ~Live(u) /\ shown'[u] # <<>> => shown[u] # <<>>
      BY <1>2
    <2>4. Undisturbed(u)
      BY <1>2, <1>3, <2>1, <2>2, <2>3 DEF Undisturbed
    <2> QED
      BY <1>1, <2>4, UndisturbedKeeps
  <1>5. StreamOK'
    BY <1>1, <1>2 DEF StreamOK
  <1>6. \A d \in Request : req[d].at = "recorded" => req[d].ev \notin stream'.seen
    BY <1>1, <1>2 DEF Grounds, Fresh
  <1>7. Reveals
    BY <1>3 DEF Reveals
  <1>8. Grounds'
    BY <1>2, <1>5, <1>6, <1>7, StreamGrounds
  <1> QED
    BY <1>4, <1>8 DEF Kept

\* A request of the page is over: it holds no card back, and no item is waiting for it.
LEMMA OverGrounds ==
    ASSUME WInv, TypeOK', NEW c \in Mine, UNCHANGED <<kind, serverVars, loaded, current, stream, wire>>,
           req' = [req EXCEPT ![c] = Idle],
           \A t \in Item : \A x \in CardsIn(shown'[t]) : KnownCard(t, x)
    PROVE  /\ Grounds' /\ (Tasks' <=> Tasks)
           /\ \A t \in Item : \A x : KnownCard(t, x)' => KnownCard(t, x)
           /\ \A d \in Mine \ {c}, t \in Item :
                 (Restores(d, t) => Restores(d, t)') /\ (Deleting(d, t) => Deleting(d, t)')
           /\ req[c].at \in {"answered", "refused"} => \A t \in Item : Untold(t) => Untold(t)'
  <1>1. TypeOK /\ Grounds /\ c \in Request
    BY DEF WInv, IInv, Request
  <1>2. /\ UNCHANGED <<kind, clock, row, event, loaded, current, stream, wire>> /\ clock \in Nat
    BY <1>1 DEF serverVars, TypeOK
  <1>3. /\ req'[c] = Idle /\ Idle.at = "idle" /\ Idle.op = "save" /\ Idle.before = NoCards
        /\ \A d \in Request : d # c => req'[d] = req[d]
    BY <1>1 DEF Idle, TypeOK
  <1>4. ASSUME NEW u \in Item, NEW x, KnownCard(u, x)' PROVE KnownCard(u, x)
    <2>1. OfWire(u)' = OfWire(u)
      BY <1>2 DEF OfWire, Card
    <2>2. ~(x \in CardsIn(req'[c].before[u])) /\ ~Answering(c, u)'
      BY <1>3, NoCardsIn DEF NoCards, Answering
    <2>3. ASSUME NEW d \in Mine, x \in CardsIn(req'[d].before[u]) \/ (Answering(d, u)' /\ x = req'[d].answer)
          PROVE  KnownCard(u, x)
      <3>1. req'[d] = req[d]
        BY <1>3, <2>2, <2>3 DEF Request
      <3> QED
        BY <2>3, <3>1 DEF KnownCard, Answering
    <2> QED
      BY <1>4, <2>1, <2>3 DEF KnownCard
  <1>5. Legal(c)' /\ Unique(c)' /\ Fresh(c)' /\ Moved(c)'
    BY <1>3 DEF Legal, Unique, Uncommitted, Fresh, Moved
  <1>6. Grounds'
    <2>1. clock <= clock' /\ Reveals /\ Reads(c)
      BY <1>2, <1>3, <1>4 DEF Reveals, Reads
    <2> QED
      BY <1>1, <1>2, <1>3, <1>5, <2>1, RequestKeep
  <1>7. ASSUME NEW d \in Mine \ {c}, NEW t \in Item
        PROVE  (Restores(d, t) => Restores(d, t)') /\ (Deleting(d, t) => Deleting(d, t)')
    <2>1. req'[d] = req[d]
      BY <1>3, <1>7 DEF Request
    <2> QED
      BY <1>2, <2>1 DEF Restores, Deleting
  <1>8. ASSUME req[c].at \in {"answered", "refused"}, NEW t \in Item, Untold(t) PROVE Untold(t)'
    BY <1>2, <1>3, <1>8 DEF Untold
  <1>9. Tasks' <=> Tasks
    BY <1>2 DEF Tasks
  <1> QED
    BY <1>4, <1>6, <1>7, <1>8, <1>9

\* The cards of an answer.
LEMMA AppliedCards ==
    ASSUME TypeOK, NEW c \in Mine, NEW t \in Item, t = req[c].item
    PROVE  /\ \A u \in Item : u # t => Applied(c)[u] = shown[u]
           /\ req[c].op # "delete" => CardsIn(Applied(c)[t]) \subseteq CardsIn(shown[t]) \cup {req[c].answer}
           /\ req[c].op = "delete" => Applied(c)[t] = <<>>
           /\ req[c].op # "create" /\ Applied(c)[t] # <<>> => shown[t] # <<>>
  <1> DEFINE a == req[c].answer
  <1>1. /\ a \in CardRecord /\ shown \in [Item -> Cards] /\ shown[t] \in Cards
    BY DEF TypeOK, RequestRecord, Request, Row, CardRecord
  <1>2. CASE req[c].op = "create"
    <2>1. Applied(c) = [shown EXCEPT ![t] = <<a>> \o shown[t]]
      BY <1>2 DEF Applied
    <2> DEFINE new == <<a>> \o shown[t]
    <2>2. CardsIn(new) \subseteq CardsIn(shown[t]) \cup {a}
      BY <1>1, CardsFront
    <2> HIDE DEF new, a
    <2>3. Applied(c)[t] = new /\ \A u \in Item : u # t => Applied(c)[u] = shown[u]
      BY <1>1, <2>1 DEF new
    <2> QED
      BY <1>2, <2>2, <2>3 DEF a
  <1>3. CASE req[c].op = "delete"
    <2>1. Applied(c) = [shown EXCEPT ![t] = <<>>]
      BY <1>3 DEF Applied
    <2> QED
      BY <1>1, <1>3, <2>1
  <1>4. CASE req[c].op \notin {"create", "delete"}
    <2>1. Applied(c) = [shown EXCEPT ![t] = [i \in 1..Len(shown[t]) |-> a]]
      BY <1>4 DEF Applied
    <2> DEFINE new == [i \in 1..Len(shown[t]) |-> a]
    <2>2. CardsIn(new) \subseteq {a} /\ (shown[t] = <<>> => new = <<>>)
      <3>1. CardsIn(new) \subseteq {a}
        BY <1>1, CardsAll
      <3>2. shown[t] = <<>> => new = <<>>
        OBVIOUS
      <3> QED
        BY <3>1, <3>2
    <2> HIDE DEF new, a
    <2>3. Applied(c)[t] = new /\ \A u \in Item : u # t => Applied(c)[u] = shown[u]
      BY <1>1, <2>1 DEF new
    <2> QED
      BY <1>4, <2>2, <2>3 DEF a
  <1> QED
    BY <1>2, <1>3, <1>4

\* A late answer, and one that comes to a list without the item, is known.
LEMMA AnsweredKnows == ASSUME WInv, TypeOK', NEW c \in Mine, Answered(c) PROVE Kept
  <1>0. PICK t \in Item : t = req[c].item
    BY DEF WInv, IInv, TypeOK, RequestRecord, Request
  <1>1. TypeOK /\ Grounds /\ (\A u \in Item : Explained(u)) /\ RowsOK /\ c \in Request /\ Legal(c) /\ Moved(c)
    BY DEF WInv, IInv, Explained, Grounds, Request
  <1>2. /\ UNCHANGED <<kind, serverVars, loaded, current, stream, wire>> /\ row' = row /\ event' = event
        /\ req[c].at = "answered" /\ shown' = Applied(c) /\ req' = [req EXCEPT ![c] = Idle]
    BY DEF Answered, serverVars
  <1>3. history'.missed = history.missed /\ history'.gap = Gap({x \in {t} : Right(x)})
    <2> DEFINE g == Gap({x \in {t} : Right(x)})
               m == IF req[c].op = "create" THEN history.mine \cup {t} ELSE history.mine
    <2>1. history' = [history EXCEPT !.gap = g, !.mine = m]
      BY <1>0 DEF Answered
    <2> HIDE DEF g, m
    <2> QED
      BY <1>1, <2>1 DEF TypeOK, g
  <1>4. /\ \A u \in Item : u # t => shown'[u] = shown[u]
        /\ req[c].op # "delete" => CardsIn(shown'[t]) \subseteq CardsIn(shown[t]) \cup {req[c].answer}
        /\ req[c].op = "delete" => shown'[t] = <<>>
    BY <1>0, <1>1, <1>2, AppliedCards
  <1>5. ASSUME NEW u \in Item, NEW x \in CardsIn(shown'[u]) PROVE KnownCard(u, x)
    <2>1. CASE u # t
      BY <1>4, <1>5, <2>1 DEF KnownCard
    <2>2. CASE u = t /\ req[c].op # "delete"
      BY <1>0, <1>2, <1>4, <1>5, <2>2 DEF KnownCard, Answering
    <2>3. CASE u = t /\ req[c].op = "delete"
      BY <1>4, <1>5, <2>3, NoCardsIn
    <2> QED
      BY <2>1, <2>2, <2>3
  <1>6. /\ Grounds' /\ (Tasks' <=> Tasks)
        /\ \A u \in Item : \A x : KnownCard(u, x)' => KnownCard(u, x)
        /\ \A d \in Mine \ {c}, u \in Item :
              (Restores(d, u) => Restores(d, u)') /\ (Deleting(d, u) => Deleting(d, u)')
        /\ \A u \in Item : Untold(u) => Untold(u)'
    BY <1>2, <1>5, OverGrounds
  <1>7. ASSUME NEW u \in Item PROVE Explained(u)'
    <2>1. /\ Told(u) => Told(u)'
          /\ OnWire(u)' <=> OnWire(u)
          /\ Brings(u)' <=> Brings(u)
      BY <1>2, <1>3, SameStream DEF serverVars
    <2>2. /\ u \in history.gap => u \in history'.gap \/ Right(u)'
          /\ u = t /\ Right(u) => u \in history'.gap \/ Right(u)'
      BY <1>3 DEF Gap, Wrong
    <2>3. ~(Live(u) /\ Restores(c, u))
      <3> SUFFICES ASSUME Live(u), Restores(c, u) PROVE FALSE
        OBVIOUS
      <3>1. u = t /\ req[c].op = "move" /\ Tasks
        BY <1>0, <1>1 DEF Restores, Legal
      <3>2. req[c].before[t] \in Cards /\ req[c].before[t] # <<>>
        BY <1>1, <3>1 DEF Restores, TypeOK, RequestRecord
      <3>3. PICK x \in CardsIn(req[c].before[t]) : x.v = row[t].v
        BY <3>1, <3>2, CardsInType DEF Restores
      <3> QED
        BY <1>0, <1>1, <1>2, <3>1, <3>3 DEF Moved
    <2>4. u # t => ~Deleting(c, u) /\ (Right(u) <=> Right(u)') /\ shown'[u] = shown[u]
      BY <1>0, <1>2, <1>4 DEF Deleting, Right, Live
    <2>5. Live(u) /\ (Right(u) \/ \E d \in Mine : Restores(d, u))
             => Right(u)' \/ u \in history'.gap \/ \E d \in Mine : Restores(d, u)'
      BY <1>6, <2>2, <2>3, <2>4
    <2>6. ASSUME ~Live(u), shown'[u] # <<>>, u \notin history'.gap
          PROVE  shown[u] # <<>> /\ u \notin history.gap /\ \A d \in Mine : Deleting(d, u) => Deleting(d, u)'
      <3>1. ~Right(u)'
        BY <1>2, <2>6 DEF Right, Live
      <3>2. ~Right(u)
        BY <2>2, <2>4, <2>6, <3>1
      <3>3. ~Deleting(c, u)
        BY <1>0, <1>4, <2>4, <2>6 DEF Deleting
      <3> QED
        BY <1>6, <2>2, <2>6, <3>1, <3>2, <3>3 DEF Right
    <2>7. Undisturbed(u)
      BY <1>2, <1>6, <2>1, <2>2, <2>5, <2>6 DEF Undisturbed
    <2> QED
      BY <1>1, <2>7, UndisturbedKeeps
  <1> QED
    BY <1>6, <1>7 DEF Kept

\* What a rollback changes for the worse is known.
LEMMA FailedKnows == ASSUME WInv, TypeOK', NEW c \in Mine, Failed(c) PROVE Kept
  <1>0. PICK t \in Item : t = req[c].item
    BY DEF WInv, IInv, TypeOK, RequestRecord, Request
  <1> DEFINE before == req[c].before
             rolled == {x \in Item : shown[x] # shown'[x] /\ (x = t => shown[x] # Hoped(before[x]))}
                       \cup {x \in {t} : req[c].op = "delete"}
  <1>1. TypeOK /\ Grounds /\ (\A u \in Item : Explained(u)) /\ c \in Request
    BY DEF WInv, IInv, Explained, Request
  <1>2. /\ UNCHANGED <<kind, serverVars, loaded, current, stream, wire>> /\ row' = row /\ event' = event
        /\ req[c].at \in {"answered", "refused"} /\ req' = [req EXCEPT ![c] = Idle]
        /\ shown' = IF req[c].op = "move" THEN before ELSE shown
    BY DEF Failed, serverVars
  <1>3. history'.missed = history.missed /\ history'.gap = Gap(rolled)
    <2> DEFINE g == Gap(rolled)
    <2>1. history' = [history EXCEPT !.gap = g]
      BY <1>0 DEF Failed
    <2> HIDE DEF g
    <2> QED
      BY <1>1, <2>1 DEF TypeOK, g
  <1>4. ASSUME NEW u \in Item, NEW x \in CardsIn(shown'[u]) PROVE KnownCard(u, x)
    BY <1>2, <1>4 DEF KnownCard
  <1>5. /\ Grounds' /\ (Tasks' <=> Tasks)
        /\ \A u \in Item : \A x : KnownCard(u, x)' => KnownCard(u, x)
        /\ \A d \in Mine \ {c}, u \in Item :
              (Restores(d, u) => Restores(d, u)') /\ (Deleting(d, u) => Deleting(d, u)')
        /\ \A u \in Item : Untold(u) => Untold(u)'
    BY <1>2, <1>4, OverGrounds
  <1>6. ASSUME NEW u \in Item PROVE Explained(u)'
    <2>1. /\ Told(u) => Told(u)'
          /\ OnWire(u)' <=> OnWire(u)
          /\ Brings(u)' <=> Brings(u)
      BY <1>2, <1>3, SameStream DEF serverVars
    <2>2. u \in history.gap \/ u \in rolled => u \in history'.gap \/ Right(u)'
      BY <1>3 DEF Gap, Wrong
    <2> HIDE DEF rolled
    <2>3. ASSUME u \notin rolled, shown[u] # shown'[u]
          PROVE  u = t /\ req[c].op = "move" /\ shown[t] = Hoped(before[t]) /\ shown'[t] = before[t] /\ before[t] # <<>>
      <3>1. req[c].op = "move" /\ shown' = before
        BY <1>2, <2>3
      <3>2. u = t /\ shown[t] = Hoped(before[t])
        BY <2>3 DEF rolled
      <3>3. before[t] # <<>>
        BY <2>3, <3>1, <3>2 DEF Hoped
      <3> QED
        BY <3>1, <3>2, <3>3
    <2>4. ASSUME u \notin rolled, shown[u] # shown'[u] PROVE ~Right(u) /\ shown[u] # <<>>
      <3>1. before[t] \in Cards /\ before[t] # <<>> /\ shown[t] = Hoped(before[t]) /\ u = t
        BY <1>1, <2>3, <2>4 DEF TypeOK, RequestRecord
      <3>2. Hoped(before[t]) # <<>> /\ \E x \in CardsIn(Hoped(before[t])) : x.v = Hope
        BY <3>1, CardsHoped
      <3>3. row[u].v # Hope
        BY <1>1, RowNotHoped
      <3>4. shown[u] # <<>> /\ \E x \in CardsIn(shown[u]) : x.v # row[u].v
        BY <3>1, <3>2, <3>3
      <3> QED
        BY <3>4, RightCards
    <2>5. shown[u] = shown'[u] => (Right(u) <=> Right(u)')
      BY <1>2 DEF Right, Live
    <2>6. Live(u) /\ Right(u) => Right(u)' \/ u \in history'.gap
      BY <2>2, <2>4, <2>5
    <2>7. Live(u) /\ Restores(c, u) => Right(u)'
      BY <1>0, <1>2 DEF Restores, Right, Live, CardsIn
    <2>8. ASSUME ~Live(u), shown'[u] # <<>>, u \notin history'.gap
          PROVE  shown[u] # <<>> /\ u \notin history.gap /\ \A d \in Mine : Deleting(d, u) => Deleting(d, u)'
      <3>1. ~Right(u)'
        BY <1>2, <2>8 DEF Right, Live
      <3>2. u \notin rolled /\ u \notin history.gap
        BY <2>2, <2>8, <3>1
      <3>3. ~Deleting(c, u)
        BY <1>0, <3>2 DEF Deleting, rolled
      <3>4. shown[u] # <<>>
        BY <2>4, <2>8, <3>2
      <3> QED
        BY <1>5, <3>2, <3>3, <3>4
    <2>9. Live(u) /\ (Right(u) \/ \E d \in Mine : Restores(d, u))
             => Right(u)' \/ u \in history'.gap \/ \E d \in Mine : Restores(d, u)'
      BY <1>5, <2>6, <2>7
    <2>10. Undisturbed(u)
      BY <1>2, <1>5, <2>1, <2>2, <2>8, <2>9 DEF Undisturbed
    <2> QED
      BY <1>1, <2>10, UndisturbedKeeps
  <1> QED
    BY <1>5, <1>6 DEF Kept

-----------------------------------------------------------------------------
(* The invariant. *)

LEMMA InitKnows == Init => WInv
  <1> SUFFICES ASSUME Init PROVE WInv
    OBVIOUS
  <1>1. IInv /\ TypeOK
    BY InitInv DEF IInv
  <1>2. clock = Cardinality(Item) /\ clock \in Nat /\ \A t \in Item : t \in 1..clock
    BY <1>1, ItemAssumption DEF Init, TypeOK
  <1>3. /\ stream = Off /\ wire = <<>> /\ event = [t \in Item |-> 0]
        /\ shown = NoCards /\ current = NoCards
        /\ \A c \in Request : req[c] = Idle
        /\ Idle.at = "idle" /\ Idle.op = "save" /\ Idle.before = NoCards
    BY DEF Init, Idle
  <1>4. StreamOK
    BY <1>2, <1>3 DEF StreamOK, Off
  <1>5. ASSUME NEW t \in Item
        PROVE  row[t].at <= clock /\ (Live(t) => row[t].at > 0 /\ row[t].v = row[t].at)
    <2>1. CASE t \in Start
      <3>1. row[t].v = t /\ row[t].at = t
        BY <2>1 DEF Init
      <3> QED
        BY <1>2, <3>1
    <2>2. CASE t \notin Start
      <3>1. row[t].v = 0 /\ row[t].at = 0
        BY <2>2 DEF Init, Unborn
      <3> QED
        BY <1>2, <3>1 DEF Live
    <2> QED
      BY <2>1, <2>2
  <1>6. RowsOK
    BY <1>2, <1>3, <1>5 DEF RowsOK
  <1>7. \A c \in Request : Legal(c) /\ Unique(c) /\ Fresh(c) /\ Moved(c)
    BY <1>3 DEF Legal, Unique, Uncommitted, Fresh, Moved
  <1>8. ASSUME NEW t \in Item, NEW x PROVE ~KnownCard(t, x)
    <2>1. x \notin OfWire(t) /\ shown[t] = <<>> /\ current[t] = <<>>
      BY <1>3 DEF OfWire, NoCards
    <2>2. \A c \in Mine : x \notin CardsIn(req[c].before[t]) /\ ~Answering(c, t)
      BY <1>3, NoCardsIn DEF NoCards, Answering, Request
    <2> QED
      BY <2>1, <2>2, NoCardsIn DEF KnownCard
  <1>9. Dated
    BY <1>8 DEF Dated
  <1>10. ASSUME NEW t \in Item PROVE Coming(t) /\ Settled(t) /\ Buried(t)
    BY <1>3 DEF Off, NoCards, Coming, Settled, Buried
  <1> QED
    BY <1>1, <1>4, <1>6, <1>7, <1>9, <1>10 DEF WInv, Grounds, Request

LEMMA NextKnows == WInv /\ [Next]_vars => WInv'
  <1> SUFFICES ASSUME WInv, [Next]_vars PROVE WInv'
    OBVIOUS
  <1>1. IInv' /\ TypeOK'
    BY NextInv DEF WInv, IInv
  <1>2. Kept => WInv'
    BY <1>1 DEF Kept, WInv, Explained
  <1>3. CASE StreamStep
    BY <1>1, <1>2, <1>3, ConnectKeeps, PollKeeps, DeliverKeeps, BreakKeeps DEF StreamStep
  <1>4. CASE ServerStep
    BY <1>1, <1>2, <1>4, ServerKeeps
  <1>5. ASSUME NEW c \in Mine, Answered(c) \/ Failed(c) PROVE WInv'
    BY <1>1, <1>2, <1>5, AnsweredKnows, FailedKnows
  <1>6. ASSUME NEW c \in Mine, NEW t \in Item, Send(c, t) \/ Move(c, t) PROVE WInv'
    BY <1>1, <1>2, <1>6, SendKnows, MoveKnows
  <1>7. CASE UNCHANGED vars
    <2>1. UNCHANGED <<kind, clock, row, event, req, loaded, shown, current, stream, wire, history>>
      BY <1>7 DEF vars, serverVars, pageVars
    <2> QED
      BY <1>1, <2>1 DEF WInv, Grounds, StreamOK, RowsOK, Dated, KnownCard, OfWire, Card, Answering, Legal, Unique,
         Uncommitted, Carried, Bounded, Fresh, Moved, Tasks, Live, Coming, Settled, Buried, Told, Due, Entry, OnWire, Brings, Untold,
         Right, Restores, Deleting
  <1>8. CASE Load \/ Render
    BY <1>1, <1>2, <1>8, LoadKnows, RenderKnows
  <1> QED
    BY <1>3, <1>4, <1>5, <1>6, <1>7, <1>8 DEF Next, StreamStep, ServerStep

\* While the stream is up, whatever the page shows wrong is on its way or under a
\* request, or one of the named causes has put it out of reach, for any number of
\* items, requests and failures.
THEOREM WrongIsExplained == Spec => []WrongIsKnown
  BY InitKnows, NextKnows, WrongFollows, PTL DEF Spec
=============================================================================
