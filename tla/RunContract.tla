---------------------------- MODULE RunContract ----------------------------
(***************************************************************************)
(* What the durable chat-run API promises about the status column of the   *)
(* agent_runs table, whoever executes, cancels, crashes or restarts: a run *)
(* is accepted only while no other run of its thread is active, it is      *)
(* marked running at most once, and its first finished status is its last. *)
(***************************************************************************)
CONSTANTS Runs,       \* run identifiers a client may create
          ThreadOf    \* the conversation thread each run belongs to

VARIABLE status       \* the status of each run's row, "absent" before the insert

ActiveStatuses   == {"queued", "running"}
FinishedStatuses == {"waiting_approval", "succeeded", "failed", "cancelled"}

Siblings(r) == {s \in Runs \ {r} : ThreadOf[s] = ThreadOf[r]}

Init == status = [r \in Runs |-> "absent"]

Accept(r) ==
  /\ status[r] = "absent"
  /\ \A s \in Siblings(r) : status[s] \notin ActiveStatuses
  /\ status' = [status EXCEPT ![r] = "queued"]

Begin(r) ==
  /\ status[r] = "queued"
  /\ status' = [status EXCEPT ![r] = "running"]

Finish(r) ==
  /\ status[r] \in ActiveStatuses
  /\ \E s \in FinishedStatuses : status' = [status EXCEPT ![r] = s]

Next == \E r \in Runs : Accept(r) \/ Begin(r) \/ Finish(r)

Spec == Init /\ [][Next]_status
=============================================================================
