---------------------------- MODULE MCEventLoop ----------------------------
(***************************************************************************)
(* Both event loops on one small instance: the first state picks one.      *)
(***************************************************************************)
EXTENDS Win32EventLoop

VARIABLE platform   \* which of the two the program is built with

\* No timer is ever as far away as the wait that means for ever.
ASSUME WaitsAreFinite == MaxTime + Ms - 1 < Ms * Infinite

MCInit == platform \in {"posix", "win32"} /\ Init

\* No task stops the loop it runs on if that is the Win32 one: it would wait for
\* itself for ever.
MCNext ==
    /\ \/ platform = "posix" /\ Next
       \/ platform = "win32" /\ WinNext /\ call'[Loop] = "none"
    /\ UNCHANGED platform

MCFairness == \/ platform = "posix" /\ Fairness
              \/ platform = "win32" /\ WinFairness

MCSpec == MCInit /\ [][MCNext]_<<vars, platform>> /\ MCFairness
=============================================================================
