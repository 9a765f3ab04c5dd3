---------------------------- MODULE MCApprovals ----------------------------
(* An instance of Approvals for TLC that is small enough for liveness.      *)
EXTENDS Approvals

CONSTANTS Rejectable, Rejecting

\* Bound: of the calls that reject, which lock what those that approve do, only
\* some are considered, on some of the approvals.
FewRejections ==
    \A c \in Call :
        call[c].at = "idle" /\ call'[c].want = "rejected" =>
            call'[c].ap \in Rejectable /\ c \in Rejecting
=============================================================================
