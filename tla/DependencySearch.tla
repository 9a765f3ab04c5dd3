-------------------------- MODULE DependencySearch --------------------------
(***************************************************************************)
(* The check of a board's dependency graph: _has_cycle, the depth-first    *)
(* search of services/task_dependencies.py.                                *)
(***************************************************************************)
EXTENDS FiniteSets

\* A circle: tasks of which each waits for one of them.
Circle(nodes, E) == \E S \in SUBSET nodes : S # {} /\ \A t \in S : \E u \in S : <<t, u>> \in E

\* edges.get(current)
After(current, E) == {e[2] : e \in {f \in E : f[1] = current}}

\* Where a loop over nodes stands: those still to come, and the sets visited and in_stack.
Query(nodes) == [todo : SUBSET nodes, visited : SUBSET nodes, stack : SUBSET nodes]

\* Variant: visited nodes are passed over before the stack is looked at.
OnStackNew(current, q) == current \in q.stack /\ current \notin q.visited

OnStack(current, q) == current \in q.stack

\* dfs(current): whether it returns True, and the nodes visited then.  What it
\* adds to the stack it takes off again, or nothing is looked at any more.
Dfs(loop, E, q, current) ==
    IF OnStack(current, q) THEN [found |-> TRUE, visited |-> q.visited]
    ELSE IF current \in q.visited THEN [found |-> FALSE, visited |-> q.visited]
    ELSE loop[[todo |-> After(current, E), visited |-> q.visited \cup {current},
               stack |-> q.stack \cup {current}]]

\* The rest of a loop, in the body of dfs or over the start nodes (any).
Loop(loop, E, q) ==
    IF q.todo = {} THEN [found |-> FALSE, visited |-> q.visited]
    ELSE LET next == CHOOSE n \in q.todo : TRUE
             r == Dfs(loop, E, q, next)
         IN  IF r.found THEN r
             ELSE loop[[todo |-> q.todo \ {next}, visited |-> r.visited, stack |-> q.stack]]

Search(nodes, E) ==
    LET loop[q \in Query(nodes)] == Loop(loop, E, q)
    IN  loop

HasCycle(nodes, E) == Search(nodes, E)[[todo |-> nodes, visited |-> {}, stack |-> {}]].found
=============================================================================
