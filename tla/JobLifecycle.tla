---------------------------- MODULE JobLifecycle ----------------------------
(***************************************************************************)
(* What a job runner promises whoever polls it, while its process lives:   *)
(* a submitted job runs, then it is complete, failed, or waiting for an    *)
(* answer; only an answer sets it running again; complete is for good; and *)
(* no job runs for ever.                                                   *)
(***************************************************************************)
CONSTANT Jobs

VARIABLE status   \* what a poll of each job reports

States == {"unknown", "running", "needs_input", "complete", "failed", "gone"}

Init == status = [j \in Jobs |-> "unknown"]

Submit(j) == /\ status[j] = "unknown"
             /\ status' = [status EXCEPT ![j] = "running"]

Settle(j) == /\ status[j] = "running"
             /\ \E s \in {"needs_input", "complete", "failed"} :
                  status' = [status EXCEPT ![j] = s]

\* A job that failed while it was resumed may be answered again.
Answer(j) == /\ status[j] \in {"needs_input", "failed"}
             /\ status' = [status EXCEPT ![j] = "running"]

\* The process dies, and whoever polls it polls nobody.
Die == status' = [j \in Jobs |-> "gone"]

Next == (\E j \in Jobs : Submit(j) \/ Settle(j) \/ Answer(j)) \/ Die

Spec == Init /\ [][Next]_status /\ \A j \in Jobs : WF_status(Settle(j))
=============================================================================
