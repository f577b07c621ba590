------------------------ MODULE WorkflowMaintenance ------------------------
(***************************************************************************)
(* The scheduled pass of api/domains/workflows/maintenance.py over the       *)
(* runs of an installation.  WorkflowRun follows one run in detail; here a   *)
(* run is only what the pass can tell apart:                                *)
(*   "missed"   only the pass can move it on: its event was missed, or its    *)
(*              attempt expired unreported, which stages no event,            *)
(*   "running"  its attempt is with the Agent: waking it writes nothing,      *)
(*   "parked"   PAUSED or BLOCKED: waking it writes nothing,                 *)
(*   "settled"  terminal, no longer scanned.                                *)
(* The pass wakes the Limit active runs with the oldest updated_at, and a    *)
(* run's updated_at moves only when its row is written.                      *)
(***************************************************************************)
EXTENDS Naturals, Sequences

CONSTANTS
    Runs,        \* the runs of the installation
    Limit        \* how many active_ids() returns

VARIABLES
    status,      \* what the pass can tell of each run
    by_updated,  \* the runs in updated_at order, oldest first
    batch        \* the runs the current pass has still to wake

vars == <<status, by_updated, batch>>

Init ==
    /\ status = [r \in Runs |-> "absent"]
    /\ by_updated = <<>>
    /\ batch = <<>>

\* A write of r's row: its status, and its updated_at.
Write(r, s) ==
    /\ status' = [status EXCEPT ![r] = s]
    /\ by_updated' = Append(SelectSeq(by_updated, LAMBDA q : q # r), r)

\* start() commits; the event that should wake the run may be missed.
Start(r) ==
    /\ status[r] = "absent"
    /\ Write(r, "missed")
    /\ UNCHANGED batch

Active(r) == status[r] \notin {"absent", "settled"}

\* active_ids(): not terminal, ordered by updated_at, limited.
ActiveIds == LET active == SelectSeq(by_updated, Active)
             IN SubSeq(active, 1, IF Len(active) < Limit THEN Len(active) ELSE Limit)

BeginPass ==
    /\ batch = <<>>
    /\ ActiveIds # <<>>
    /\ batch' = ActiveIds
    /\ UNCHANGED <<status, by_updated>>

\* controller.wake(): only a run that can move has its row written.
WakeNext ==
    /\ batch # <<>>
    /\ batch' = Tail(batch)
    /\ LET r == Head(batch)
       IN IF status[r] = "missed"
          THEN \E s \in {"running", "parked", "settled"} : Write(r, s)
          ELSE UNCHANGED <<status, by_updated>>

\* The attempt ends: the run settles, parks, or waits for the next wake.
AttemptEnds(r) ==
    /\ status[r] = "running"
    /\ \E s \in {"missed", "parked", "settled"} : Write(r, s)
    /\ UNCHANGED batch

Next ==
    \/ BeginPass
    \/ WakeNext
    \/ \E r \in Runs : Start(r) \/ AttemptEnds(r)

\* The cron job runs every minute, and an attempt ends by its deadline.
Fairness ==
    /\ WF_vars(BeginPass)
    /\ WF_vars(WakeNext)
    /\ \A r \in Runs : WF_vars(AttemptEnds(r))

FairSpec == Init /\ [][Next]_vars /\ Fairness

\* docs/features/agent-workflows.md: "The scheduled pass recovers missed
\* wakeups once per minute."  Violated: Limit parked runs, never written
\* again, stay the oldest and fill every pass.
MissedWakeupsRecovered ==
    \A r \in Runs : status[r] = "missed" ~> status[r] # "missed"
=============================================================================
