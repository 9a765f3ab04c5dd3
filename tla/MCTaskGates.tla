---------------------------- MODULE MCTaskGates ----------------------------
(***************************************************************************)
(* TaskGates with requests and scenarios for model checking.               *)
(***************************************************************************)
EXTENDS TaskGates, TLC

Asks(W, wants, D, G) == [who : W, want : wants, wantDeps : D, gives : G]

\* Bound: moves, edits of dependencies and assignments, each by those whose
\* rules differ.
Requests ==
    Asks({"user"}, {"inbox", "done", Keep}, {Keep}, {Keep})
    \cup Asks({"worker"}, {"in_progress", "review"}, {Keep}, {Keep})
    \cup Asks({"lead"}, {"done", "inbox"}, {Keep}, {Keep})
    \cup Asks({"user", "lead"}, {Keep}, {{1}}, {Keep}) \cup Asks({"user"}, {Keep}, {{2}}, {Keep})
    \cup Asks({"lead"}, {Keep}, {{2}}, {"worker"})

\* Bound: tasks in a row, each waiting for the one before, that are reopened,
\* closed, started and, by the lead, made to wait for the first.
ChainRequests ==
    Asks({"user"}, {"inbox"}, {Keep}, {Keep}) \cup Asks({"lead"}, {"done"}, {Keep}, {Keep})
    \cup Asks({"worker"}, {"in_progress"}, {Keep}, {Keep}) \cup Asks({"lead"}, {Keep}, {{1}}, {Keep})

AllRequests == Requests \cup ChainRequests

\* One instance, two scenarios: three tasks in a row, or two tasks and a third
\* one that nothing is asked of.  Only in the first does the third depend on any.
InARow == \E e \in deps : e[1] = 3
OneScenario == deps = {<<2, 1>>, <<3, 2>>} \/ (~InARow /\ status[3] = "inbox")
ScenarioInit == Init /\ OneScenario

\* Bounds: in a row, three calls once the second task is approved; otherwise two
\* calls while approvals of the first are filed and decided.
MayAsk(k) ==
    LET r == [who |-> k.who, want |-> k.want, wantDeps |-> k.wantDeps, gives |-> k.gives]
    IN  IF InARow THEN approved = {2} /\ r \in ChainRequests
        ELSE asked < 2 /\ k.task # 3 /\ r \in Requests

InScenario ==
    /\ \A c \in Call : call[c].at = "idle" /\ call'[c].at # "idle" => MayAsk(call'[c])
    /\ pending' \cup approved' \subseteq (IF InARow THEN {2} ELSE {1})
    /\ InARow /\ 2 \in approved => UNCHANGED approvalVars

ScenarioSpec == ScenarioInit /\ [][Next /\ InScenario]_vars

\* No property tells one call from another.
Interchangeable == Permutations(Call)
=============================================================================
