----------------------- MODULE AgentLifecycle_proofs -----------------------
(***************************************************************************)
(* Proofs about AgentLifecycle for every number of updates, syncs, workers *)
(* and requests of the agent.                                              *)
(***************************************************************************)
EXTENDS AgentLifecycle, TLAPS

-----------------------------------------------------------------------------
(* Rows. *)

\* A flush of a row over a row is a row.
LEMMA WrittenType ==
    ASSUME row \in Row, NEW loaded \in Row, NEW assigned \in Row
    PROVE  Written(loaded, assigned) \in Row
  BY DEF Written, Row, Flushed, Status

\* ... and the columns flush one by one.
LEMMA WrittenColumns ==
    ASSUME row \in Row, NEW loaded \in Row, NEW assigned \in Row
    PROVE  /\ Written(loaded, assigned).token = Flushed(loaded.token, assigned.token, row.token)
           /\ Written(loaded, assigned).wakes = Flushed(loaded.wakes, assigned.wakes, row.wakes)
  BY DEF Written, Row, Flushed, Status

\* What a run assigns is a row, too.
LEMMA RequestedType ==
    ASSUME TypeOK, NEW p \in Process
    PROVE  /\ Requested(p) \in Row
           /\ Requested(p).wakes = IF p \in Syncer THEN held[p].wakes ELSE held[p].wakes + 1
           /\ Requested(p).token = IF p \in Worker THEN minted + 1 ELSE held[p].token
  <1> DEFINE token == IF p \in Worker THEN minted + 1 ELSE held[p].token
             gen == held[p].gen + 1
             wakes == held[p].wakes + 1
             now == clock + 1
             run == [held[p] EXCEPT !.status = "updating", !.gen = gen, !.token = token]
  <1>1. held[p] \in Row
    BY DEF TypeOK, Session
  <1>2. gen \in Nat /\ wakes \in Nat /\ token \in Nat /\ now \in Nat
    BY <1>1 DEF TypeOK, Row
  <1>3. /\ p \in Syncer => Requested(p) = [run EXCEPT !.deadline = None]
        /\ p \notin Syncer => Requested(p) = [run EXCEPT !.wakes = run.wakes + 1, !.wakeAt = now,
                                                         !.deadline = now]
    BY DEF Requested
  <1>4. run \in Row /\ run.wakes = held[p].wakes /\ run.token = token
    <2> HIDE DEF token, gen
    <2> QED
      BY <1>1, <1>2 DEF Row, Status
  <1>5. run.wakes + 1 = wakes
    BY <1>4
  <1> HIDE DEF run, token, wakes, now
  <1>6. CASE p \in Syncer
    <2>1. /\ Requested(p) \in Row /\ Requested(p).wakes = held[p].wakes
          /\ Requested(p).token = token
      BY <1>3, <1>4, <1>6 DEF Row, None
    <2> QED
      BY <1>6, <2>1 DEF token
  <1>7. CASE p \notin Syncer
    <2>1. Requested(p) = [run EXCEPT !.wakes = wakes, !.wakeAt = now, !.deadline = now]
      BY <1>3, <1>5, <1>7
    <2>2. Requested(p) \in Row /\ Requested(p).wakes = wakes /\ Requested(p).token = token
      BY <1>2, <1>4, <2>1 DEF Row
    <2> QED
      BY <1>7, <2>2 DEF token, wakes
  <1> QED
    BY <1>6, <1>7

-----------------------------------------------------------------------------
(* Type correctness. *)

LEMMA InitType == Init => TypeOK
  <1> SUFFICES ASSUME Init PROVE TypeOK
    OBVIOUS
  <1>1. FirstRow \in Row
    BY DEF FirstRow, Row, Status, None
  <1>2. FirstTask \in Task
    BY DEF FirstTask, Task
  <1> QED
    BY <1>1, <1>2 DEF Init, TypeOK, Step

LEMMA NextType == TypeOK /\ [Next]_vars => TypeOK'
  <1> SUFFICES ASSUME TypeOK, [Next]_vars PROVE TypeOK'
    OBVIOUS
  <1> USE DEF TypeOK, Process, Session, runVars, timeVars, countVars, historyVars, Goto
  <1>0. /\ row \in Row /\ \A s \in Session : held[s] \in Row
        /\ \A s \in Session : at[s] \in Step
    OBVIOUS
  <1>1. ASSUME NEW e \in Editor, EditLoad(e) PROVE TypeOK'
    BY <1>1 DEF EditLoad, Step
  <1>2. ASSUME NEW e \in Editor, EditMint(e) PROVE TypeOK'
    <2>1. [held[e] EXCEPT !.token = minted + 1] \in Row
      BY <1>0 DEF Row
    <2>2. Written(held[e], [held[e] EXCEPT !.token = minted + 1]) \in Row
      BY <1>0, <2>1, WrittenType
    <2> QED
      BY <1>2, <2>2 DEF EditMint, Step
  <1>3. ASSUME NEW s \in Syncer, SyncLoad(s) PROVE TypeOK'
    BY <1>3 DEF SyncLoad, Step
  <1>4. ASSUME NEW w \in Worker, NEW k \in queue, Take(w, k) PROVE TypeOK'
    <2>1. k \in Task /\ Deadline(k) \in Nat
      BY DEF Deadline, Task, Row
    <2>2. [k EXCEPT !.due = Deadline(k)] \in Task
      BY <2>1 DEF Task
    <2>3. at' \in [Session -> Step] /\ queue' \subseteq Task
      BY <1>4, <2>1, <2>2 DEF Take, Step
    <2> QED
      BY <1>4, <2>1, <2>3 DEF Take
  <1>5. ASSUME NEW w \in Worker, GiveUp(w) PROVE TypeOK'
    <2>1. [held[w] EXCEPT !.status = "offline", !.deadline = None] \in Row
      BY <1>0 DEF Row, Status, None
    <2>2. row' \in Row
      BY <1>0, <1>5, <2>1, WrittenType DEF GiveUp
    <2> QED
      BY <1>5, <2>2 DEF GiveUp, Step
  <1>6. ASSUME NEW p \in Process, Lock(p) PROVE TypeOK'
    <2>1. Written(held[p], Requested(p)) \in Row
      BY <1>0, WrittenType, RequestedType
    <2>2. /\ held' \in [Session -> Row] /\ at' \in [Session -> Step]
          /\ clock' \in Nat /\ minted' \in Nat /\ tok' \in [Process -> Nat]
      BY <1>6, <2>1 DEF Lock, Step
    <2> QED
      BY <1>6, <2>2 DEF Lock
  <1>7. ASSUME NEW p \in Process, Deliver(p) PROVE TypeOK'
    BY <1>7 DEF Deliver, Step
  <1>8. ASSUME NEW p \in Process, Complete(p) PROVE TypeOK'
    <2>1. row' \in Row
      BY <1>0, <1>8 DEF Complete, Row, Status
    <2> QED
      BY <1>8, <2>1 DEF Complete, Step
  <1>9. ASSUME NEW p \in Process, Enqueue(p) PROVE TypeOK'
    <2>1. queue' \subseteq Task
      BY <1>0, <1>9 DEF Enqueue, Row, Task
    <2> QED
      BY <1>9, <2>1 DEF Enqueue, Step
  <1>10. ASSUME NEW b \in Beat, NEW r \in {"touch", "heartbeat"}, Ask(b, r) PROVE TypeOK'
    BY <1>10 DEF Ask, Step
  <1>11. ASSUME NEW b \in Beat, Touch(b) PROVE TypeOK'
    <2>1. row' \in Row
      <3>1. asked[b] \in Nat
        OBVIOUS
      <3>2. [held[b] EXCEPT !.seen = asked[b],
                            !.status = IF @ = "updating" THEN @ ELSE "online"] \in Row
        BY <1>0, <3>1 DEF Row, Status
      <3> QED
        BY <1>0, <1>11, <3>2, WrittenType DEF Touch
    <2> QED
      BY <1>11, <2>1 DEF Touch, Step
  <1>12. ASSUME NEW b \in Beat, Heartbeat(b) PROVE TypeOK'
    <2>1. row' \in Row
      <3>1. PICK status \in {held[b].status, "online"}, seen \in asked[b]..clock :
               row' = Written(held[b], [held[b] EXCEPT !.status = status, !.seen = seen,
                                                       !.wakes = 0, !.deadline = None])
        BY <1>12 DEF Heartbeat
      <3>2. asked[b] \in Nat /\ clock \in Nat
        OBVIOUS
      <3>3. seen \in Nat
        BY <3>2
      <3>4. [held[b] EXCEPT !.status = status, !.seen = seen, !.wakes = 0,
                            !.deadline = None] \in Row
        BY <1>0, <3>3 DEF Row, Status, None
      <3> QED
        BY <1>0, <3>1, <3>4, WrittenType
    <2> QED
      BY <1>12, <2>1 DEF Heartbeat, Step
  <1>13. ASSUME NEW p \in Process PROVE Requeued(p) \subseteq Task
    <2>1. CASE p \in Worker /\ task[p].attempts < MaxRetries
      <3>1. task[p] \in Task /\ task[p].attempts + 1 \in Nat
        BY <2>1 DEF Task
      <3> DEFINE attempts == task[p].attempts + 1
      <3>2. attempts \in Nat
        BY <3>1
      <3>3. [task[p] EXCEPT !.attempts = attempts, !.due = 0] \in Task
        <4> HIDE DEF attempts
        <4> QED
          BY <3>1, <3>2 DEF Task
      <3> QED
        BY <2>1, <3>3 DEF Requeued
    <2>2. CASE ~(p \in Worker /\ task[p].attempts < MaxRetries)
      BY <2>2 DEF Requeued
    <2> QED
      BY <2>1, <2>2
  <1>14. ASSUME NEW p \in Process, GatewayError(p) PROVE TypeOK'
    BY <1>0, <1>13, <1>14 DEF GatewayError, Fault, Step
  <1>15. ASSUME NEW w \in Worker, Timeout(w) PROVE TypeOK'
    BY <1>13, <1>15 DEF Timeout, Released, Fault, Step
  <1>16. ASSUME NEW p \in Process, Crash(p) PROVE TypeOK'
    BY <1>16 DEF Crash, Released, Fault, Step
  <1>17. ASSUME NEW k \in queue, DrainedTwice(k) PROVE TypeOK'
    <2>1. [k EXCEPT !.copy = 1] \in Task
      BY DEF Task
    <2> QED
      BY <1>17, <2>1 DEF DrainedTwice, Fault
  <1>18. CASE DeadlinePasses
    BY <1>18 DEF DeadlinePasses
  <1>19. CASE UNCHANGED vars
    BY <1>19 DEF vars
  <1> QED
    BY <1>1, <1>2, <1>3, <1>4, <1>5, <1>6, <1>7, <1>8, <1>9, <1>10, <1>11, <1>12, <1>14, <1>15,
       <1>16, <1>17, <1>18, <1>19 DEF Next, RunStep

\* Every variable keeps its domain, whatever the constants are.
THEOREM TypeCorrect == Spec => []TypeOK
  BY InitType, NextType, PTL DEF Spec

-----------------------------------------------------------------------------
(* The row lock. *)

Calling == {"call", "delivered"}

\* The process in a call of the gateway is the one that holds the lock.
Locked == \A p \in Process : at[p] \in Calling <=> lock = p

LEMMA NextLocked == TypeOK /\ Locked /\ [Next]_vars => Locked'
  <1> SUFFICES ASSUME TypeOK, Locked, [Next]_vars PROVE Locked'
    OBVIOUS
  <1> USE SessionsAssumption DEF TypeOK, Locked, Calling, Process, Session, runVars, Goto
  <1>1. ASSUME NEW e \in Editor, EditLoad(e) PROVE Locked'
    BY <1>1 DEF EditLoad
  <1>2. ASSUME NEW e \in Editor, EditMint(e) PROVE Locked'
    BY <1>2 DEF EditMint
  <1>3. ASSUME NEW s \in Syncer, SyncLoad(s) PROVE Locked'
    BY <1>3 DEF SyncLoad
  <1>4. ASSUME NEW w \in Worker, NEW k \in queue, Take(w, k) PROVE Locked'
    BY <1>4 DEF Take
  <1>5. ASSUME NEW w \in Worker, GiveUp(w) PROVE Locked'
    BY <1>5 DEF GiveUp
  <1>6. ASSUME NEW p \in Process, Lock(p) PROVE Locked'
    BY <1>6 DEF Lock, Free
  <1>7. ASSUME NEW p \in Process, Deliver(p) PROVE Locked'
    BY <1>7 DEF Deliver
  <1>8. ASSUME NEW p \in Process, Complete(p) PROVE Locked'
    BY <1>8 DEF Complete
  <1>9. ASSUME NEW p \in Process, Enqueue(p) PROVE Locked'
    BY <1>9 DEF Enqueue
  <1>10. ASSUME NEW b \in Beat, NEW r \in {"touch", "heartbeat"}, Ask(b, r) PROVE Locked'
    BY <1>10 DEF Ask
  <1>11. ASSUME NEW b \in Beat, Touch(b) PROVE Locked'
    BY <1>11 DEF Touch
  <1>12. ASSUME NEW b \in Beat, Heartbeat(b) PROVE Locked'
    BY <1>12 DEF Heartbeat
  <1>13. ASSUME NEW p \in Process, GatewayError(p) PROVE Locked'
    BY <1>13 DEF GatewayError
  <1>14. ASSUME NEW w \in Worker, Timeout(w) PROVE Locked'
    BY <1>14 DEF Timeout, Released
  <1>15. ASSUME NEW p \in Process, Crash(p) PROVE Locked'
    BY <1>15 DEF Crash, Released
  <1>16. ASSUME NEW k \in queue, DrainedTwice(k) PROVE Locked'
    BY <1>16 DEF DrainedTwice
  <1>17. CASE DeadlinePasses
    BY <1>17 DEF DeadlinePasses
  <1>18. CASE UNCHANGED vars
    BY <1>18 DEF vars
  <1> QED
    BY <1>1, <1>2, <1>3, <1>4, <1>5, <1>6, <1>7, <1>8, <1>9, <1>10, <1>11, <1>12, <1>13, <1>14,
       <1>15, <1>16, <1>17, <1>18 DEF Next, RunStep

\* The lock and the types together.
Base == TypeOK /\ Locked

LEMMA InitBase == Init => Base
  BY InitType, SessionsAssumption DEF Init, Base, Locked, Calling, Session, Process, TypeOK

LEMMA NextBase == Base /\ [Next]_vars => Base'
  BY NextType, NextLocked DEF Base

-----------------------------------------------------------------------------
(* Calls that do not cross keep the tokens together. *)

\* A run's token goes into the row and into the files before the lock is let go,
\* and an update or sync that waits for the lock has the row's own; a stale copy
\* cannot write an old one back, because a flush writes only what it assigned.
Tokens ==
    /\ TokenInSync
    /\ \A p \in Editor \cup Syncer : at[p] = "lock" => tok[p] = row.token
    /\ \A p \in Process : /\ at[p] = "call" => held[p].token = tok[p]
                          /\ at[p] = "delivered" => held[p].token = gw
    /\ \A p \in Editor \cup Syncer : at[p] \in Calling => held[p].token = row.token
    /\ \A w \in Worker : at[w] \in Calling => ~HandingOver(Editor \cup Syncer)

\* Tokens are numbered as they are minted.
Numbered == row.token <= minted /\ \A s \in Session : held[s].token <= minted

TokensUncrossed == Numbered /\ (~crossed => Tokens)

\* A flush that assigned no token leaves it.
LEMMA UnassignedToken ==
    ASSUME TypeOK, NEW r \in Row, NEW a \in Row, a.token = r.token
    PROVE  Written(r, a).token = row.token
  BY WrittenColumns DEF Flushed, TypeOK

\* What the steps assign, as far as tokens go.
LEMMA TokenWrites ==
    ASSUME TypeOK, Numbered
    PROVE  /\ \A e \in Editor : EditMint(e) => row'.token = minted + 1 /\ held'[e].token = minted + 1
           /\ \A w \in Worker : GiveUp(w) => row'.token = row.token
           /\ \A b \in Beat : Touch(b) \/ Heartbeat(b) => row'.token = row.token
           /\ \A p \in Process : Lock(p) =>
                 held'[p].token = IF p \in Worker THEN minted + 1 ELSE row.token
           /\ \A p \in Process : Complete(p) => row'.token = held[p].token
  <1> USE DEF Process, Session
  <1>0. /\ row \in Row /\ minted \in Nat
        /\ \A s \in Session : held[s] \in Row /\ held[s].token \in Nat /\ held[s].token # minted + 1
    BY DEF TypeOK, Row, Numbered
  <1>1. ASSUME NEW e \in Editor, EditMint(e)
        PROVE  row'.token = minted + 1 /\ held'[e].token = minted + 1
    <2>1. PICK r \in Row : r = [held[e] EXCEPT !.token = minted + 1] /\ r.token = minted + 1
      <3>1. PICK n \in Nat : n = minted + 1
        BY <1>0
      <3>2. [held[e] EXCEPT !.token = n] \in Row /\ [held[e] EXCEPT !.token = n].token = n
        BY <1>0, <3>1 DEF Row
      <3> QED
        BY <3>1, <3>2
    <2>2. Written(held[e], r).token = Flushed(held[e].token, r.token, row.token)
      BY <1>0, WrittenColumns
    <2>3. Written(held[e], r).token = minted + 1
      BY <1>0, <2>1, <2>2 DEF Flushed
    <2> QED
      BY <1>1, <2>1, <2>3 DEF EditMint, TypeOK
  <1>2. ASSUME NEW w \in Worker, GiveUp(w) PROVE row'.token = row.token
    <2>1. [held[w] EXCEPT !.status = "offline", !.deadline = None] \in Row
      BY <1>0 DEF Row, Status, None
    <2> QED
      BY <1>0, <1>2, <2>1, UnassignedToken DEF GiveUp, Row
  <1>3. ASSUME NEW b \in Beat, Touch(b) PROVE row'.token = row.token
    <2>1. asked[b] \in Nat
      BY DEF TypeOK
    <2>2. [held[b] EXCEPT !.seen = asked[b],
                          !.status = IF @ = "updating" THEN @ ELSE "online"] \in Row
      BY <1>0, <2>1 DEF Row, Status
    <2> QED
      BY <1>0, <1>3, <2>2, UnassignedToken DEF Touch, Row
  <1>4. ASSUME NEW b \in Beat, Heartbeat(b) PROVE row'.token = row.token
    <2>1. PICK status \in {held[b].status, "online"}, seen \in asked[b]..clock :
             row' = Written(held[b], [held[b] EXCEPT !.status = status, !.seen = seen,
                                                     !.wakes = 0, !.deadline = None])
      BY <1>4 DEF Heartbeat
    <2>2. seen \in Nat
      BY DEF TypeOK
    <2>3. [held[b] EXCEPT !.status = status, !.seen = seen, !.wakes = 0,
                          !.deadline = None] \in Row
      BY <1>0, <2>2 DEF Row, Status, None
    <2> QED
      BY <1>0, <2>1, <2>3, UnassignedToken DEF Row
  <1>5. ASSUME NEW p \in Process, Lock(p)
        PROVE  held'[p].token = IF p \in Worker THEN minted + 1 ELSE row.token
    <2>1. /\ Requested(p) \in Row
          /\ Requested(p).token = IF p \in Worker THEN minted + 1 ELSE held[p].token
      BY RequestedType
    <2>2. Written(held[p], Requested(p)).token = IF p \in Worker THEN minted + 1 ELSE row.token
      BY <1>0, <2>1, WrittenColumns DEF Flushed
    <2> QED
      BY <1>5, <2>2 DEF Lock, TypeOK
  <1>6. ASSUME NEW p \in Process, Complete(p) PROVE row'.token = held[p].token
    BY <1>0, <1>6 DEF Complete, Row
  <1> QED
    BY <1>1, <1>2, <1>3, <1>4, <1>5, <1>6

LEMMA NextTokens == Base /\ TokensUncrossed /\ [Next]_vars => TokensUncrossed'
  <1> SUFFICES ASSUME Base, TokensUncrossed, [Next]_vars PROVE TokensUncrossed'
    OBVIOUS
  <1> USE DEF Base, Process, Session, runVars, historyVars, countVars, Goto, Free, HandingOver
  <1>0. /\ minted \in Nat /\ row.token \in Nat /\ \A s \in Session : held[s].token \in Nat
        /\ Numbered
    BY DEF TypeOK, Row, TokensUncrossed
  <1>w. \A w \in Worker \cup Beat : w \notin Editor \cup Syncer
    BY SessionsAssumption
  \* A step that takes no token, and after which at most a session that waits has started.
  <1>s. ASSUME UNCHANGED <<tok, gw, minted, lock>>, row'.token = row.token, crossed' = crossed,
               \A s \in Session : held'[s] = held[s] \/ held'[s] = row,
               \A p \in Process : \/ at'[p] = at[p] /\ held'[p] = held[p]
                                  \/ at[p] # "lock" /\ at'[p] \notin {"lock", "call", "delivered"}
                                  \/ p \in Worker /\ at'[p] = "lock"
        PROVE  TokensUncrossed'
    <2>1. Numbered'
      BY <1>0, <1>s DEF Numbered
    <2>2. \A e \in Editor : at'[e] = "lock" <=> at[e] = "lock"
      BY <1>s, <1>w
    <2>3. TokenInSync => TokenInSync'
      BY <1>s, <2>2 DEF TokenInSync
    <2>4. /\ \A p \in Editor \cup Syncer : at'[p] = "lock" => at[p] = "lock"
          /\ \A p \in Process : at'[p] \in Calling => at[p] = at'[p] /\ held'[p] = held[p]
      BY <1>s, <1>w DEF Calling
    <2>5. Tokens => Tokens'
      BY <1>s, <2>3, <2>4 DEF Tokens, Calling
    <2> QED
      BY <1>s, <2>1, <2>5 DEF TokensUncrossed
  <1>1. ASSUME NEW e \in Editor, EditLoad(e) PROVE TokensUncrossed'
    BY <1>s, <1>1 DEF EditLoad, TypeOK
  <1>2. ASSUME NEW e \in Editor, EditMint(e) PROVE TokensUncrossed'
    <2>1. row'.token = minted + 1 /\ held'[e].token = minted + 1
      BY <1>0, <1>2, TokenWrites
    <2>2. /\ at[e] = "mint" /\ at'[e] = "lock" /\ tok'[e] = minted + 1 /\ minted' = minted + 1
          /\ UNCHANGED <<gw, lock>>
          /\ \A p \in Process \ {e} : at'[p] = at[p] /\ tok'[p] = tok[p]
          /\ \A s \in Session \ {e} : held'[s] = held[s]
          /\ ~crossed' => ~crossed /\ \A p \in (Editor \cup Syncer) \ {e} : at[p] # "lock"
      BY <1>2 DEF EditMint, TypeOK
    <2>3. \A p \in Process : at[p] \notin Calling
      BY <1>2, SessionsAssumption DEF EditMint, Locked
    <2>4. Numbered'
      BY <1>0, <2>1, <2>2 DEF Numbered
    <2>5. ~crossed' => Tokens'
      BY <2>1, <2>2, <2>3 DEF Tokens, TokenInSync, Calling
    <2> QED
      BY <2>4, <2>5 DEF TokensUncrossed
  <1>3. ASSUME NEW c \in Syncer, SyncLoad(c) PROVE TokensUncrossed'
    <2>1. /\ at'[c] = "lock" /\ tok'[c] = gw /\ held'[c] = row /\ UNCHANGED <<row, gw, lock, minted>>
          /\ \A p \in Process \ {c} : at'[p] = at[p] /\ tok'[p] = tok[p]
          /\ \A s \in Session \ {c} : held'[s] = held[s]
          /\ ~crossed' => ~crossed /\ Free /\ \A e \in Editor : at[e] # "lock"
      BY <1>3 DEF SyncLoad, TypeOK
    <2>2. Numbered'
      BY <1>0, <2>1 DEF Numbered
    <2>3. ASSUME ~crossed' PROVE row.token = gw
      BY <2>1, <2>3 DEF TokensUncrossed, Tokens, TokenInSync
    <2>4. \A p \in Process : at[p] \in Calling => lock = p /\ p # NoOne
      BY SessionsAssumption DEF Locked
    <2>5. ~crossed' => Tokens'
      BY <2>1, <2>3, <2>4 DEF TokensUncrossed, Tokens, TokenInSync, Calling
    <2> QED
      BY <2>2, <2>5 DEF TokensUncrossed
  <1>4. ASSUME NEW w \in Worker, NEW k \in queue, Take(w, k) PROVE TokensUncrossed'
    BY <1>s, <1>4 DEF Take, TypeOK
  <1>5. ASSUME NEW w \in Worker, GiveUp(w) PROVE TokensUncrossed'
    <2>1. row'.token = row.token
      BY <1>0, <1>5, TokenWrites
    <2> QED
      BY <1>s, <1>5, <2>1 DEF GiveUp, TypeOK
  <1>6. ASSUME NEW p \in Process, Lock(p) PROVE TokensUncrossed'
    <2>1. held'[p].token = IF p \in Worker THEN minted + 1 ELSE row.token
      BY <1>0, <1>6, TokenWrites
    <2>2. /\ at[p] = "lock" /\ at'[p] = "call" /\ lock = NoOne /\ lock' = p
          /\ UNCHANGED <<row, gw>>
          /\ \A q \in Process \ {p} : at'[q] = at[q] /\ tok'[q] = tok[q]
          /\ \A s \in Session \ {p} : held'[s] = held[s]
          /\ IF p \in Worker THEN minted' = minted + 1 /\ tok'[p] = minted + 1
                             ELSE minted' = minted /\ tok'[p] = tok[p]
          /\ ~crossed' => ~crossed
      BY <1>6 DEF Lock, TypeOK
    <2>3. p # NoOne
      BY SessionsAssumption
    <2>4. Numbered'
      BY <1>0, <2>1, <2>2 DEF Numbered
    <2>5. ASSUME ~crossed' PROVE Tokens'
      <3>1. Tokens
        BY <2>2, <2>5 DEF TokensUncrossed
      <3>2. held'[p].token = tok'[p]
        BY <2>1, <2>2, <3>1 DEF Tokens
      <3>3. p \in Worker => ~HandingOver(Editor \cup Syncer)'
        BY <1>6, <1>w, <2>2, <2>5 DEF Lock
      <3>4. p \notin Worker => held'[p].token = row'.token
        BY <2>1, <2>2
      <3>5. \A q \in Process \ {p} : at[q] \notin Calling
        BY <2>2, SessionsAssumption DEF Locked
      <3>6. TokenInSync'
        BY <2>2, <2>3 DEF TokenInSync
      <3> QED
        BY <1>w, <2>2, <3>1, <3>2, <3>3, <3>4, <3>5, <3>6 DEF Tokens, Calling
    <2> QED
      BY <2>4, <2>5 DEF TokensUncrossed
  <1>7. ASSUME NEW p \in Process, Deliver(p) PROVE TokensUncrossed'
    <2>1. /\ at[p] = "call" /\ at'[p] = "delivered" /\ gw' = tok[p] /\ crossed' = crossed
          /\ UNCHANGED <<row, held, tok, lock, minted>>
          /\ \A q \in Process \ {p} : at'[q] = at[q]
      BY <1>7 DEF Deliver, TypeOK
    <2>2. lock # NoOne /\ \A q \in Process \ {p} : at[q] \notin Calling
      BY <2>1, SessionsAssumption DEF Locked, Calling
    <2>3. Tokens => Tokens'
      BY <2>1, <2>2 DEF Tokens, TokenInSync, Calling
    <2> QED
      BY <1>0, <2>1, <2>3 DEF TokensUncrossed, Numbered
  <1>8. ASSUME NEW p \in Process, Complete(p) PROVE TokensUncrossed'
    <2>1. row'.token = held[p].token
      BY <1>0, <1>8, TokenWrites
    <2>2. /\ at[p] = "delivered" /\ at'[p] \in {"idle", "enqueue"} /\ crossed' = crossed
          /\ UNCHANGED <<held, tok, gw, minted>>
          /\ \A q \in Process \ {p} : at'[q] = at[q]
      BY <1>8 DEF Complete, TypeOK
    <2>3. \A q \in Process \ {p} : at[q] \notin Calling
      BY <2>2 DEF Locked, Calling
    <2>4. Numbered'
      BY <1>0, <2>1, <2>2 DEF Numbered
    <2>5. Tokens /\ row.token = held[p].token => Tokens'
      BY <2>1, <2>2, <2>3 DEF Tokens, TokenInSync, Calling
    <2>6. Tokens /\ p \in Worker /\ ~HandingOver(Editor \cup Syncer) => Tokens'
      BY <2>1, <2>2, <2>3 DEF Tokens, TokenInSync, Calling
    <2>7. Tokens => Tokens'
      BY <2>2, <2>5, <2>6 DEF Tokens, Calling
    <2> QED
      BY <2>2, <2>4, <2>7 DEF TokensUncrossed
  <1>9. ASSUME NEW p \in Process, Enqueue(p) PROVE TokensUncrossed'
    BY <1>s, <1>9 DEF Enqueue, TypeOK
  <1>10. ASSUME NEW b \in Beat, NEW r \in {"touch", "heartbeat"}, Ask(b, r) PROVE TokensUncrossed'
    BY <1>s, <1>w, <1>10 DEF Ask, TypeOK
  <1>11. ASSUME NEW b \in Beat, Touch(b) \/ Heartbeat(b) PROVE TokensUncrossed'
    <2>1. row'.token = row.token
      BY <1>0, <1>11, TokenWrites
    <2> QED
      BY <1>s, <1>w, <1>11, <2>1 DEF Touch, Heartbeat, TypeOK
  <1>12. ASSUME NEW p \in Process, GatewayError(p) PROVE TokensUncrossed'
    BY <1>0, <1>12 DEF GatewayError, TokensUncrossed, Numbered
  <1>13. ASSUME NEW p \in Process, Timeout(p) \/ Crash(p) PROVE TokensUncrossed'
    BY <1>0, <1>13 DEF Timeout, Crash, TokensUncrossed, Numbered
  <1>14. ASSUME NEW k \in queue, DrainedTwice(k) PROVE TokensUncrossed'
    BY <1>s, <1>14 DEF DrainedTwice
  <1>15. CASE DeadlinePasses
    BY <1>s, <1>15 DEF DeadlinePasses
  <1>16. CASE UNCHANGED vars
    BY <1>s, <1>16 DEF vars
  <1> QED
    BY <1>1, <1>2, <1>3, <1>4, <1>5, <1>6, <1>7, <1>8, <1>9, <1>10, <1>11, <1>12, <1>13, <1>14,
       <1>15, <1>16 DEF Next, RunStep

\* However many updates, syncs, workers, check-ins and duplicated tasks there are:
\* whenever the row is free the agent can authenticate, unless a run failed or two
\* calls crossed between the token and the row lock of run_lifecycle.
THEOREM TokensStayInSync == Spec => []TokenSplitNeedsCrossing
  <1>1. Init => TokensUncrossed
    <2> SUFFICES ASSUME Init PROVE Numbered /\ Tokens
      BY DEF TokensUncrossed
    <2>1. FirstRow.token = 1
      BY DEF FirstRow
    <2>2. row.token = gw /\ Numbered
      BY <2>1 DEF Init, Numbered
    <2> QED
      BY <2>2 DEF Init, Tokens, TokenInSync, HandingOver, Calling, Session, Process
  <1>2. TokensUncrossed => TokenSplitNeedsCrossing
    BY DEF TokensUncrossed, Tokens, TokenSplitNeedsCrossing
  <1> QED
    BY <1>1, <1>2, InitBase, NextBase, NextTokens, PTL DEF Spec

-----------------------------------------------------------------------------
(* One worker wakes a silent agent a bounded number of times. *)

\* The runs of updates and syncs may be cut off, but their calls do not fail.
OneWorker == (\A v, w \in Worker : v = w) /\ Flaky \subseteq Worker

\* What wake_attempts accounts for, at each stage of the worker's run.
Counted ==
    /\ (\A w \in Worker : at[w] # "delivered") => retries <= row.wakes + faults
    /\ \A w \in Worker :
          /\ at[w] = "lock" =>
                /\ retries <= held[w].wakes + faults
                /\ held[w].wakes < MAX_WAKE_ATTEMPTS_WITHOUT_CHECKIN
          /\ at[w] = "call" =>
                /\ retries + 1 <= held[w].wakes + faults
                /\ held[w].wakes <= MAX_WAKE_ATTEMPTS_WITHOUT_CHECKIN
          /\ at[w] = "delivered" =>
                /\ retries <= held[w].wakes + faults
                /\ retries <= row.wakes + faults + 1
    /\ \A e \in Editor : at[e] = "delivered" => retries = 0
    /\ \A s \in Syncer : at[s] \in Calling => held[s].wakes = row.wakes
    /\ WakesBounded

\* A flush that assigned no wake_attempts leaves them.
LEMMA UnassignedWakes ==
    ASSUME TypeOK, NEW r \in Row, NEW a \in Row, a.wakes = r.wakes
    PROVE  Written(r, a).wakes = row.wakes
  BY WrittenColumns DEF Flushed, TypeOK

LEMMA NextCounted == ASSUME OneWorker PROVE Base /\ Counted /\ [Next]_vars => Counted'
  <1> SUFFICES ASSUME Base, Counted, [Next]_vars PROVE Counted'
    OBVIOUS
  <1> DEFINE Max == MAX_WAKE_ATTEMPTS_WITHOUT_CHECKIN
  <1> USE BoundsAssumption, SessionsAssumption
      DEF Base, OneWorker, Process, Session, runVars, countVars, historyVars, Goto, Free, WakesBounded
  <1>0. /\ row \in Row /\ row.wakes \in Nat /\ retries \in Nat /\ faults \in Nat
        /\ \A s \in Session : held[s] \in Row /\ held[s].wakes \in Nat
    BY DEF TypeOK, Row
  \* While the row is free nobody is in a call.
  <1>a. Free => \A p \in Process : at[p] \notin Calling
    BY DEF Locked
  <1>1. ASSUME NEW e \in Editor, EditLoad(e) PROVE Counted'
    BY <1>1 DEF EditLoad, Counted, TypeOK, Calling
  <1>2. ASSUME NEW e \in Editor, EditMint(e) PROVE Counted'
    <2>1. [held[e] EXCEPT !.token = minted + 1] \in Row
      BY <1>0 DEF Row, TypeOK
    <2>2. row'.wakes = row.wakes
      BY <1>0, <1>2, <2>1, WrittenColumns DEF EditMint, Flushed, Row
    <2> QED
      BY <1>2, <1>a, <2>2 DEF EditMint, Counted, TypeOK, Calling
  <1>3. ASSUME NEW s \in Syncer, SyncLoad(s) PROVE Counted'
    BY <1>3 DEF SyncLoad, Counted, TypeOK, Calling
  <1>4. ASSUME NEW w \in Worker, NEW k \in queue, Take(w, k) PROVE Counted'
    <2>1. at[w] = "idle" /\ \A v \in Worker : v = w
      BY <1>4 DEF Take
    <2>2. retries <= row.wakes + faults
      BY <2>1 DEF Counted
    <2>3. /\ held'[w] = row /\ at'[w] \in {"idle", "giveup", "lock"}
          /\ at'[w] = "lock" => row.wakes < Max
      BY <1>0, <1>4 DEF Take, TypeOK, Exhausted
    <2>4. /\ UNCHANGED <<row, retries, faults>>
          /\ \A p \in Session \ {w} : at'[p] = at[p] /\ held'[p] = held[p]
      BY <1>4 DEF Take, TypeOK
    <2> QED
      BY <1>0, <2>1, <2>2, <2>3, <2>4 DEF Counted, Calling
  <1>5. ASSUME NEW w \in Worker, GiveUp(w) PROVE Counted'
    <2>1. [held[w] EXCEPT !.status = "offline", !.deadline = None] \in Row
      BY <1>0 DEF Row, Status, None
    <2>2. row'.wakes = row.wakes
      BY <1>0, <1>5, <2>1, UnassignedWakes DEF GiveUp, Row
    <2> QED
      BY <1>5, <2>2 DEF GiveUp, Counted, TypeOK, Calling
  <1>6. ASSUME NEW p \in Process, Lock(p) PROVE Counted'
    <2>1. /\ Requested(p) \in Row
          /\ Requested(p).wakes = IF p \in Syncer THEN held[p].wakes ELSE held[p].wakes + 1
      BY RequestedType
    <2>2. held'[p].wakes = IF p \in Syncer THEN row.wakes ELSE held[p].wakes + 1
      BY <1>0, <1>6, <2>1, WrittenColumns DEF Lock, Flushed, TypeOK
    <2>3. /\ at'[p] = "call" /\ UNCHANGED <<row, retries, faults>>
          /\ \A q \in Session \ {p} : at'[q] = at[q] /\ held'[q] = held[q]
      BY <1>6 DEF Lock, TypeOK
    <2>4. CASE p \in Worker
      <3>1. /\ p \notin Syncer /\ \A v \in Worker : v = p
            /\ at[p] = "lock"
        BY <1>6, <2>4 DEF Lock
      <3>2. retries <= held[p].wakes + faults /\ held[p].wakes < Max
        BY <2>4, <3>1 DEF Counted
      <3>3. retries + 1 <= held'[p].wakes + faults /\ held'[p].wakes <= Max
        BY <1>0, <2>2, <3>1, <3>2
      <3>4. (\A w \in Worker : at[w] # "delivered") /\ retries <= row.wakes + faults
        BY <3>1 DEF Counted
      <3> QED
        BY <2>3, <2>4, <3>1, <3>3, <3>4 DEF Counted
    <2>5. CASE p \notin Worker
      <3>1. \A w \in Worker : at'[w] = at[w] /\ held'[w] = held[w]
        BY <2>3, <2>5
      <3>2. \A e \in Editor : at'[e] = "delivered" => at[e] = "delivered"
        BY <2>3
      <3>3. \A s \in Syncer : at'[s] \in Calling => held'[s].wakes = row'.wakes
        BY <2>2, <2>3 DEF Counted
      <3> QED
        BY <1>0, <2>3, <3>1, <3>2, <3>3 DEF Counted
    <2> QED
      BY <2>4, <2>5
  <1>7. ASSUME NEW p \in Process, Deliver(p) PROVE Counted'
    <2>1. /\ lock = p
          /\ \A q \in Process \ {p} : at[q] \notin Calling
      BY <1>7 DEF Deliver, Locked, Calling
    <2>2. /\ at'[p] = "delivered" /\ UNCHANGED <<row, held, faults>>
          /\ \A q \in Session \ {p} : at'[q] = at[q]
      BY <1>7 DEF Deliver, TypeOK
    <2>3. CASE p \in Worker
      <3>1. \A v \in Worker : v = p
        BY <2>3
      <3>2. at[p] = "call" /\ retries' = retries + 1
        BY <1>7, <2>3 DEF Deliver
      <3>3. retries <= row.wakes + faults
        BY <3>1, <3>2 DEF Counted
      <3>4. retries + 1 <= held[p].wakes + faults /\ held[p].wakes <= Max
        BY <2>3, <3>2 DEF Counted
      <3>5. /\ retries' <= held'[p].wakes + faults' /\ retries' <= row'.wakes + faults' + 1
            /\ retries' <= Max + faults'
        BY <1>0, <2>2, <3>2, <3>3, <3>4
      <3>6. \A e \in Editor : at'[e] # "delivered"
        BY <2>1, <2>2, <2>3 DEF Calling
      <3> QED
        BY <2>1, <2>2, <2>3, <3>1, <3>5, <3>6 DEF Counted, Calling
    <2>4. CASE p \in Editor
      <3>1. retries' = 0
        BY <1>7, <2>4 DEF Deliver
      <3>2. \A w \in Worker : at'[w] \notin Calling
        BY <2>1, <2>2, <2>4
      <3> QED
        BY <1>0, <2>1, <2>2, <2>4, <3>1, <3>2 DEF Counted, Calling
    <2>5. CASE p \in Syncer
      <3>1. retries' = retries
        BY <1>7, <2>5 DEF Deliver
      <3>2. at[p] = "call"
        BY <1>7 DEF Deliver
      <3> QED
        BY <1>0, <2>2, <2>5, <3>1, <3>2 DEF Counted, Calling
    <2> QED
      BY <2>3, <2>4, <2>5
  <1>8. ASSUME NEW p \in Process, Complete(p) PROVE Counted'
    <2>1. /\ at[p] = "delivered" /\ at'[p] \in {"idle", "enqueue"}
          /\ UNCHANGED <<held, retries, faults>>
          /\ \A q \in Session \ {p} : at'[q] = at[q]
      BY <1>8 DEF Complete, TypeOK
    <2>2. row'.wakes = held[p].wakes
      BY <1>0, <1>8 DEF Complete, Row
    <2>3. \A q \in Process : at'[q] \notin Calling
      BY <2>1 DEF Locked, Calling
    <2>4. retries <= held[p].wakes + faults
      <3>1. CASE p \in Worker
        BY <2>1, <3>1 DEF Counted
      <3>2. CASE p \in Editor
        BY <1>0, <2>1, <3>2 DEF Counted
      <3>3. CASE p \in Syncer
        <4>1. \A w \in Worker : at[w] \notin Calling
          BY <2>1, <3>3 DEF Locked, Calling
        <4> QED
          BY <2>1, <3>3, <4>1 DEF Counted, Calling
      <3> QED
        BY <3>1, <3>2, <3>3
    <2>5. \A w \in Worker : at'[w] = "lock" => at[w] = "lock"
      BY <2>1
    <2> QED
      BY <2>1, <2>2, <2>3, <2>4, <2>5 DEF Counted, Calling
  <1>9. ASSUME NEW p \in Process, Enqueue(p) PROVE Counted'
    BY <1>9 DEF Enqueue, Counted, TypeOK, Calling
  <1>10. ASSUME NEW b \in Beat, NEW r \in {"touch", "heartbeat"}, Ask(b, r) PROVE Counted'
    BY <1>10 DEF Ask, Counted, TypeOK, Calling
  <1>11. ASSUME NEW b \in Beat, Touch(b) PROVE Counted'
    <2>1. asked[b] \in Nat
      BY DEF TypeOK
    <2>2. [held[b] EXCEPT !.seen = asked[b],
                          !.status = IF @ = "updating" THEN @ ELSE "online"] \in Row
      BY <1>0, <2>1 DEF Row, Status
    <2>3. row'.wakes = row.wakes
      BY <1>0, <1>11, <2>2, UnassignedWakes DEF Touch, Row
    <2> QED
      BY <1>11, <2>3 DEF Touch, Counted, TypeOK, Calling
  <1>12. ASSUME NEW b \in Beat, Heartbeat(b) PROVE Counted'
    <2>1. row'.wakes \in Nat
      BY <1>12, NextType DEF Next, TypeOK, Row
    <2>2. /\ retries' = 0 /\ UNCHANGED <<held, faults>>
          /\ \A p \in Process : at'[p] = at[p] /\ at[p] \notin Calling
      BY <1>12, <1>a DEF Heartbeat, TypeOK
    <2> QED
      BY <1>0, <2>1, <2>2 DEF Counted, Calling
  <1>13. ASSUME NEW p \in Process, GatewayError(p) PROVE Counted'
    <2>1. /\ p \in Worker /\ at[p] \in Calling /\ at'[p] = "idle" /\ row' = held[p]
          /\ faults' = faults + 1 /\ UNCHANGED <<held, retries>>
          /\ \A q \in Session \ {p} : at'[q] = at[q]
      BY <1>13 DEF GatewayError, Fault, Calling, TypeOK
    <2>2. \A q \in Process : at'[q] \notin Calling
      BY <2>1 DEF Locked, Calling
    <2>3. retries <= held[p].wakes + faults
      BY <1>0, <2>1 DEF Counted, Calling
    <2>4. \A w \in Worker : w = p
      BY <2>1
    <2> QED
      BY <1>0, <2>1, <2>2, <2>3, <2>4 DEF Counted, Calling
  <1>14. ASSUME NEW w \in Worker, Timeout(w) PROVE Counted'
    <2>1. /\ at'[w] = "idle" /\ faults' = faults + 1 /\ UNCHANGED <<row, held, retries>>
          /\ \A q \in Session \ {w} : at'[q] = at[q]
      BY <1>14 DEF Timeout, Fault, TypeOK
    <2>2. \A v \in Worker : v = w
      OBVIOUS
    <2>3. retries <= row.wakes + faults + 1
      <3>1. CASE \A v \in Worker : at[v] # "delivered"
        BY <1>0, <3>1 DEF Counted
      <3>2. CASE \E v \in Worker : at[v] = "delivered"
        BY <1>0, <3>2 DEF Counted
      <3> QED
        BY <3>1, <3>2
    <2> QED
      BY <1>0, <2>1, <2>2, <2>3 DEF Counted, Calling
  <1>15. ASSUME NEW p \in Process, Crash(p) PROVE Counted'
    <2>1. /\ at'[p] = "idle" /\ faults' = faults + 1 /\ UNCHANGED <<row, held, retries>>
          /\ \A q \in Session \ {p} : at'[q] = at[q]
      BY <1>15 DEF Crash, Fault, TypeOK
    <2>2. \A v, w \in Worker : v = w
      OBVIOUS
    <2>3. retries <= row.wakes + faults + 1
      <3>1. CASE \A v \in Worker : at[v] # "delivered"
        BY <1>0, <3>1 DEF Counted
      <3>2. CASE \E v \in Worker : at[v] = "delivered"
        BY <1>0, <3>2 DEF Counted
      <3> QED
        BY <3>1, <3>2
    <2> QED
      BY <1>0, <2>1, <2>2, <2>3 DEF Counted, Calling
  <1>16. ASSUME NEW k \in queue, DrainedTwice(k) PROVE Counted'
    BY <1>0, <1>16 DEF DrainedTwice, Fault, Counted, Calling
  <1>17. CASE DeadlinePasses
    BY <1>17 DEF DeadlinePasses, Counted, Calling
  <1>18. CASE UNCHANGED vars
    BY <1>18 DEF vars, Counted, Calling
  <1> QED
    BY <1>1, <1>2, <1>3, <1>4, <1>5, <1>6, <1>7, <1>8, <1>9, <1>10, <1>11, <1>12, <1>13, <1>14,
       <1>15, <1>16, <1>17, <1>18 DEF Next, RunStep

\* With one worker, whatever updates, syncs, check-ins, stale copies, failed
\* runs and crashes come in between, reconciliation wakes a silent agent at
\* most the maximal number of times and once more for each failure.
THEOREM WakesStayBounded == ASSUME OneWorker PROVE Spec => []WakesBounded
  <1>1. Init => Counted
    BY BoundsAssumption DEF Init, Counted, WakesBounded, FirstRow, Session, Process, Calling
  <1>2. Counted => WakesBounded
    BY DEF Counted
  <1> QED
    BY <1>1, <1>2, InitBase, NextBase, NextCounted, PTL DEF Spec
=============================================================================
