--------------------------- MODULE TaskApprovals ---------------------------
(***************************************************************************)
(* What the approvals of a board are to its tasks, without rows, copies or *)
(* calls: which tasks have a pending and which an approved approval.       *)
(*                                                                         *)
(* Approvals implements this; TaskGates, where calls of update_task ask    *)
(* for these two sets, takes its steps.  The lock of a task's row is all   *)
(* that one module has to know of the other: a task becomes pending only   *)
(* under it (lock_tasks_for_approval), and is deleted only when nobody     *)
(* holds it.                                                               *)
(***************************************************************************)
CONSTANT Task

VARIABLES
    live,               \* the tasks that exist
    held,               \* those whose row a call on approvals holds, or may hold
    pending, approved   \* those a pending, an approved approval is linked to

Init == live = Task /\ pending = {} /\ approved = {}

\* Some tasks of T are approved no more.
Disapproved(T) == \E A \in SUBSET T : approved' = approved \ A

\* An approval for T is filed, or reopened after it was decided.
File(T) ==
    /\ T # {} /\ T \subseteq held \ pending
    /\ pending' = pending \cup T
    /\ Disapproved(T)

\* An approval for T is approved, from whatever status, or filed as approved.
Approve(T) ==
    /\ T # {} /\ T \subseteq live
    /\ \/ T \subseteq pending /\ pending' = pending \ T
       \/ UNCHANGED pending
    /\ approved' = approved \cup T

\* One that was pending or approved is rejected.
Reject(T) ==
    /\ T # {}
    /\ \/ T \subseteq pending /\ pending' = pending \ T /\ UNCHANGED approved
       \/ T \subseteq approved /\ Disapproved(T) /\ UNCHANGED pending

Delete(t) ==
    /\ t \in live \ held
    /\ live' = live \ {t} /\ pending' = pending \ {t} /\ approved' = approved \ {t}

Next ==
    \/ \E T \in SUBSET Task : (File(T) \/ Approve(T) \/ Reject(T)) /\ UNCHANGED live
    \/ \E t \in Task : Delete(t)

Spec == Init /\ [][Next]_<<live, pending, approved>>
=============================================================================
