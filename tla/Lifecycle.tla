------------------------------ MODULE Lifecycle ------------------------------
(***************************************************************************)
(* What an observer of one actor may rely on: the statuses its snapshots   *)
(* go through (snapshot.hpp, SnapshotStatus).  The detailed modules are    *)
(* shown to implement this one.                                            *)
(***************************************************************************)
VARIABLE status

\* An actor starts at most once, finishes at most once, may turn out to have
\* failed after it finished (an observer threw), and never leaves "stopped".
Follows == [none    |-> {"active", "done", "error", "stopped"},
            active  |-> {"done", "error", "stopped"},
            done    |-> {"error", "stopped"},
            error   |-> {"stopped"},
            stopped |-> {}]

Init == status = "none"
Next == status' \in Follows[status]
Spec == Init /\ [][Next]_status
=============================================================================
