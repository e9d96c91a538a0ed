---------------------------- MODULE MCChatRuns ----------------------------
(***************************************************************************)
(* Instances of ChatRuns for TLC.  All runs share one thread: runs of      *)
(* different threads have nothing in common but the process.               *)
(***************************************************************************)
EXTENDS ChatRuns

CONSTANTS r1, r2, t1

MCThreadOf == [r \in Runs |-> t1]
=============================================================================
