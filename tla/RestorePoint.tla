---------------------------- MODULE RestorePoint ----------------------------
(***************************************************************************)
(* api/domains/restore_points: the Restore Points of one Agent. A capture    *)
(* archives the Agent's volume onto a volume of its own; a restore first      *)
(* makes a safety copy of the Agent's volume, then wipes it and extracts an    *)
(* archive. Both run as Kubernetes Jobs that the API only creates: what a Job  *)
(* came to is found later by whoever reads the rows (reconcile_agent) or by    *)
(* the reconciliation CronJob, which write it with updates that are           *)
(* conditional on the row's status alone.                                    *)
(*                                                                         *)
(* Start, stop, capture, restore and agent deletion hold the Agent's           *)
(* lifecycle lock; readers and delete_restore_point do not. The lock is        *)
(* non-blocking, so a request that meets it is refused and changes nothing.    *)
(* Managed updates are outside this module.                                  *)
(*                                                                         *)
(* A restore point is a number, in creation order. A Job is numbered by the   *)
(* row it was created with: a capture by its own row, a restore by the row of  *)
(* its safety copy.                                                          *)
(***************************************************************************)
EXTENDS Naturals, FiniteSets

CONSTANTS
    Readers,   \* reconcilers that may be overtaken: API requests, the CronJob
    MaxRows,   \* bound: restore points ever created
    Cap,       \* restore_point_max_per_agent
    MaxFaults  \* bound: failed calls, Jobs and processes

ASSUME RestoreAssumption ==
    MaxRows \in Nat /\ Cap \in Nat /\ MaxFaults \in Nat

Ids == 1..MaxRows

\* DELETING is a declared status that no code assigns.
NonTerminal == {"PENDING", "CAPTURING", "RESTORING"}
Statuses == NonTerminal \cup {"none", "READY", "FAILED"}
Rows == [status : Statuses, origin : {"MANUAL", "PRE_RESTORE"},
         job : 0..MaxRows, reapply : BOOLEAN]
NoRow == [status |-> "none", origin |-> "MANUAL", job |-> 0, reapply |-> FALSE]

\* An archive volume; "released" is what delete_restore_point leaves.
Volumes == {"none", "filling", "archive", "released"}

\* A Job's phase. A capture is tried twice: "retrying" has one failed pod and
\* an active one. A restore prints its manifest once the copy is made. Gone: the
\* Job object was reclaimed, and its pod is "ending" or there is none.
Running == {"active", "retrying", "backed_up"}
Gone == {"ending", "reclaimed"}
Phases == Running \cup Gone \cup {"absent", "succeeded", "failed",
                                  "backup_failed", "extraction_failed"}
Jobs == [target : 0..MaxRows, phase : Phases]
NoJob == [target |-> 0, phase |-> "absent"]

Seen == {"missing", "active", "succeeded", "failed", "backup_failed",
         "extraction_failed", "unknown"}

Ops == [kind : {"none", "capture", "mark", "restore"}, id : 0..MaxRows,
        target : 0..MaxRows, reapply : BOOLEAN]
Snapshots == [id : 0..MaxRows, status : Statuses, reapply : BOOLEAN, seen : Seen]
Deletes == [id : 0..MaxRows, step : {"idle", "volume", "row"}]

VARIABLES
    agent,     \* the Agent's stored status
    rows,      \* the restore point rows
    created,   \* rows created so far
    volumes,   \* their archive volumes
    jobs,      \* their Jobs
    op,        \* the capture or restore holding the lifecycle lock
    reader,    \* what each reconciler has read and not yet written
    deleting,  \* delete_restore_point: the row it read, and how far it is
    faults     \* faults so far

vars == <<agent, rows, created, volumes, jobs, op, reader, deleting, faults>>

Free == [kind |-> "none", id |-> 0, target |-> 0, reapply |-> FALSE]
Idle == [id |-> 0, status |-> "none", reapply |-> FALSE, seen |-> "missing"]
NotDeleting == [id |-> 0, step |-> "idle"]

Init ==
    /\ agent = "STOPPED"
    /\ rows = [i \in Ids |-> NoRow] /\ created = 0
    /\ volumes = [i \in Ids |-> "none"]
    /\ jobs = [i \in Ids |-> NoJob]
    /\ op = Free
    /\ reader = [p \in Readers |-> Idle]
    /\ deleting = NotDeleting /\ faults = 0

Fault == faults < MaxFaults /\ faults' = faults + 1

-----------------------------------------------------------------------------
\* What the guards look at.

Owes(i) == rows[i].status = "READY" /\ rows[i].reapply

Blocks(i) == rows[i].status \in NonTerminal \/ Owes(i)
Unblocked == \A i \in Ids : ~Blocks(i)
LockFree == op = Free
Runnable == agent \in {"STOPPED", "ERROR"}
Counted == {i \in Ids : /\ rows[i].origin = "MANUAL"
                        /\ rows[i].status \notin {"none", "FAILED"}}
ManualCount == Cardinality(Counted)

\* Mutant of UnderCap: one restore point too many.
UnderCapInclusive == ManualCount <= Cap

UnderCap == ManualCount < Cap

-----------------------------------------------------------------------------
\* The Agent's lifecycle, each under the lifecycle lock from check to commit.
\* The reconciliation these requests begin with is a Reconcile step of its own.

\* Mutant of MayStart: a start that trusts the check made before its lock.
MayStartUnchecked == LockFree /\ Runnable

MayStart == LockFree /\ Runnable /\ Unblocked

Start ==
    /\ MayStart
    /\ agent' = "RUNNING"
    /\ UNCHANGED <<rows, created, volumes, jobs, op, reader, deleting, faults>>

StartFails ==
    /\ MayStart /\ Fault
    /\ agent' = "ERROR"
    /\ UNCHANGED <<rows, created, volumes, jobs, op, reader, deleting>>

Stop ==
    /\ LockFree /\ agent = "RUNNING"
    /\ agent' = "STOPPED"
    /\ UNCHANGED <<rows, created, volumes, jobs, op, reader, deleting, faults>>

\* delete_agent: purge_agent finds the volumes and Jobs by the Agent's label.
DeleteAgent ==
    /\ LockFree /\ agent # "DELETED" /\ Unblocked
    /\ agent' = "DELETED"
    /\ rows' = [i \in Ids |-> NoRow]
    /\ volumes' = [i \in Ids |-> "none"]
    /\ jobs' = [i \in Ids |-> NoJob]
    /\ UNCHANGED <<created, op, reader, deleting, faults>>

-----------------------------------------------------------------------------
\* Capture and restore. _await_agent_volume_release is over before the lock is
\* taken, so all that is known of the pod by then is the stored status.

MayOperate == LockFree /\ Runnable /\ Unblocked /\ created < MaxRows

NewRow(origin) == [status |-> "PENDING", origin |-> origin,
                   job |-> created + 1, reapply |-> FALSE]

Capture ==
    /\ MayOperate /\ UnderCap
    /\ created' = created + 1
    /\ rows' = [rows EXCEPT ![created + 1] = NewRow("MANUAL")]
    /\ op' = [Free EXCEPT !.kind = "capture", !.id = created + 1]
    /\ UNCHANGED <<agent, volumes, jobs, reader, deleting, faults>>

\* restore_restore_point, first transaction: the safety copy's row.
Restore(i, reapply) ==
    /\ MayOperate /\ rows[i].status = "READY"
    /\ created' = created + 1
    /\ rows' = [rows EXCEPT ![created + 1] = NewRow("PRE_RESTORE")]
    /\ op' = [kind |-> "mark", id |-> created + 1, target |-> i,
              reapply |-> reapply]
    /\ UNCHANGED <<agent, volumes, jobs, reader, deleting, faults>>

\* Second transaction: the target, unless it is no longer READY (409).
MarkRestoring ==
    /\ op.kind = "mark"
    /\ IF rows[op.target].status = "READY"
       THEN /\ rows' = [rows EXCEPT ![op.target].status = "RESTORING",
                                    ![op.target].job = op.id,
                                    ![op.target].reapply = op.reapply]
            /\ op' = [op EXCEPT !.kind = "restore"]
       ELSE op' = Free /\ UNCHANGED rows
    /\ UNCHANGED <<agent, created, volumes, jobs, reader, deleting, faults>>

\* _provision_capture, _provision_restore: the volume, then the Job.
Provision ==
    /\ op.kind \in {"capture", "restore"}
    /\ volumes' = [volumes EXCEPT ![op.id] = "filling"]
    /\ jobs' = [jobs EXCEPT ![op.id] = [target |-> op.target, phase |-> "active"]]
    /\ op' = Free
    /\ UNCHANGED <<agent, rows, created, reader, deleting, faults>>

\* The capture's own copy of the row is saved FAILED whatever the row says; a
\* restore fails its copy and hands its target back, both conditionally.
Undone(i) ==
    CASE i = op.id -> [rows[i] EXCEPT !.status = "FAILED",
                          !.job = IF op.kind = "capture" THEN op.id ELSE 0]
      [] i = op.target /\ rows[i].status = "RESTORING" ->
           [rows[i] EXCEPT !.status = "READY", !.job = 0, !.reapply = FALSE]
      [] OTHER -> rows[i]

ProvisionFails ==
    /\ op.kind \in {"capture", "restore"} /\ Fault
    /\ rows' = [i \in Ids |-> Undone(i)]
    /\ volumes' = [volumes EXCEPT ![op.id] = "none"]
    /\ op' = Free
    /\ UNCHANGED <<agent, created, jobs, reader, deleting>>

\* The process dies holding the lock; Postgres releases it. The volume may have
\* been created, the Job has not.
OperationDies ==
    /\ op # Free /\ Fault
    /\ op' = Free
    /\ \/ UNCHANGED volumes
       \/ op.kind # "mark" /\ volumes' = [volumes EXCEPT ![op.id] = "filling"]
    /\ UNCHANGED <<agent, rows, created, jobs, reader, deleting>>

-----------------------------------------------------------------------------
\* Jobs. Deleting a volume under a pod that mounts it only takes effect when
\* the pod ends, so a Job may finish with its volume gone.

IsCapture(j) == jobs[j].target = 0
Filled(j) == IF volumes[j] = "filling" THEN "archive" ELSE volumes[j]
StepJob(j, phase) == jobs' = [jobs EXCEPT ![j].phase = phase]
FillVolume(j) == volumes' = [volumes EXCEPT ![j] = Filled(j)]
JobFrame == UNCHANGED <<agent, rows, created, op, reader, deleting>>

\* capture of restore_point_job.main
CaptureSucceeds(j) ==
    /\ IsCapture(j) /\ jobs[j].phase \in {"active", "retrying"}
    /\ StepJob(j, "succeeded") /\ FillVolume(j)
    /\ UNCHANGED faults /\ JobFrame

\* A pod fails; after the first one Kubernetes starts the second, unless the
\* deadline has passed.
CaptureFails(j) ==
    /\ IsCapture(j) /\ Fault
    /\ \/ jobs[j].phase = "active" /\ StepJob(j, "retrying")
       \/ jobs[j].phase \in {"active", "retrying"} /\ StepJob(j, "failed")
    /\ UNCHANGED volumes /\ JobFrame

\* restore of main: the safety copy is made, then the volume is wiped and the
\* archive extracted.
RestoreBacksUp(j) ==
    /\ ~IsCapture(j) /\ jobs[j].phase = "active"
    /\ StepJob(j, "backed_up") /\ FillVolume(j)
    /\ UNCHANGED faults /\ JobFrame

RestoreSucceeds(j) ==
    /\ ~IsCapture(j) /\ jobs[j].phase = "backed_up"
    /\ StepJob(j, "succeeded")
    /\ UNCHANGED <<volumes, faults>> /\ JobFrame

\* Exit code 2 before the manifest, 3 after it; killed at either point.
RestoreFails(j) ==
    /\ ~IsCapture(j) /\ Fault
    /\ \/ jobs[j].phase = "active" /\ StepJob(j, "backup_failed")
       \/ jobs[j].phase = "backed_up" /\ StepJob(j, "extraction_failed")
    /\ UNCHANGED volumes /\ JobFrame

-----------------------------------------------------------------------------
\* Reconciliation: a row is read with its Job, judged, and written.

\* Mutant of Outcomes: a failure with no exit code counts as a failed backup.
OutcomesGuessed(phase) == {phase, "backup_failed"}

\* _restore_outcome: the phase that failed, when the pod still tells.
Outcomes(phase) == {phase, "unknown"}

\* The Job of row i, as _reconcile_row judges it. A Job that is not there yet
\* is inside the row's grace period while its request is still provisioning.
\* A read of an active Job that changes nothing is left out.
Judged(i) ==
    LET phase == jobs[rows[i].job].phase
    IN CASE phase \in Gone \cup {"absent"} ->
              IF i \in {op.id, op.target} THEN {} ELSE {"missing"}
         [] phase = "succeeded" -> {"succeeded"}
         [] phase \in {"failed", "retrying"} -> {"failed"}
         [] phase \in {"backup_failed", "extraction_failed"} -> Outcomes(phase)
         [] OTHER -> IF rows[i].status = "PENDING" THEN {"active"} ELSE {}

Snapshot(i, seen) == [id |-> i, status |-> rows[i].status,
                      reapply |-> rows[i].reapply, seen |-> seen]

\* Mutant of Verdict: a Job that is gone leaves the row as it is.
VerdictPatient(s) ==
    CASE s.seen \in {"missing", "active"} -> "capturing"
      [] s.seen = "succeeded" -> IF s.status = "RESTORING" THEN "restored" ELSE "ready"
      [] s.seen = "failed" -> "fail_capture"
      [] s.seen = "backup_failed" -> IF s.status = "RESTORING" THEN "restored" ELSE "fail_capture"
      [] s.seen = "extraction_failed" -> IF s.status = "RESTORING" THEN "fail" ELSE "ready"
      [] OTHER -> "fail"

\* The write that _reconcile_row chooses for the row as it was read.
Verdict(s) ==
    IF s.seen = "active" THEN "capturing"
    ELSE IF s.status = "RESTORING"
    THEN IF s.seen \in {"succeeded", "backup_failed"} THEN "restored" ELSE "fail"
    ELSE CASE s.seen \in {"succeeded", "extraction_failed"} -> "ready"
           [] s.seen = "unknown" -> "fail"
           [] OTHER -> "fail_capture"

From(verdict) == CASE verdict = "capturing" -> {"PENDING"}
                   [] verdict = "restored" -> {"RESTORING"}
                   [] OTHER -> NonTerminal

\* A failed restore owes no replay: cleared whatever the row has become.
Cancelled(s, row) ==
    IF s.status = "RESTORING" /\ s.reapply /\ s.seen \notin {"missing", "succeeded"}
    THEN [row EXCEPT !.reapply = FALSE] ELSE row

Written(verdict, row) ==
    CASE verdict = "capturing" -> [row EXCEPT !.status = "CAPTURING"]
      [] verdict \in {"ready", "restored"} ->
           [row EXCEPT !.status = "READY", !.job = 0]
      [] OTHER -> [row EXCEPT !.status = "FAILED", !.job = 0, !.reapply = FALSE]

\* Mutant of Releases: the volume goes even when the update matched no row.
ReleasesAnyway(verdict, row) == verdict = "fail_capture"

\* _fail_capture: the volume goes with the row this call failed.
Releases(verdict, row) == verdict = "fail_capture" /\ row.status \in From(verdict)

\* A finished Job that no unresolved row names is never read again: whether
\* its ttl has passed no longer matters, and it leaves the model. That a Job was
\* reclaimed is remembered.
Needed == [j \in Ids |->
             IF \/ jobs[j].phase \in Running \cup Gone
                \/ \E i \in Ids : rows'[i].status \in NonTerminal /\ rows'[i].job = j
             THEN jobs[j] ELSE NoJob]

Resolve(s) ==
    LET verdict == Verdict(s)
        row == rows[s.id]
        cleared == Cancelled(s, row)
    IN /\ rows' = [rows EXCEPT ![s.id] =
             IF row.status \in From(verdict) THEN Written(verdict, cleared) ELSE cleared]
       /\ volumes' = IF Releases(verdict, row)
                     THEN [volumes EXCEPT ![s.id] = "none"] ELSE volumes
       /\ jobs' = Needed
       /\ UNCHANGED <<agent, created, op, deleting, faults>>

\* A reconciliation that nothing interrupts.
Reconcile(i) ==
    /\ rows[i].status \in NonTerminal
    /\ \E seen \in Judged(i) : Resolve(Snapshot(i, seen))
    /\ UNCHANGED reader

\* One that is overtaken between its read and its write; a reader that dies in
\* between is one that never writes.
Observe(p, i) ==
    /\ reader[p] = Idle /\ rows[i].status \in NonTerminal
    /\ \E seen \in Judged(i) : reader' = [reader EXCEPT ![p] = Snapshot(i, seen)]
    /\ UNCHANGED <<agent, rows, created, volumes, jobs, op, deleting, faults>>

ResolveLate(p) ==
    /\ reader[p] # Idle
    /\ Resolve(reader[p])
    /\ reader' = [reader EXCEPT ![p] = Idle]

\* The owed configuration is written, or its failure recorded, under the lock.
Replay(i) ==
    /\ LockFree /\ Runnable /\ Owes(i)
    /\ rows' = [rows EXCEPT ![i].reapply = FALSE]
    /\ UNCHANGED <<agent, created, volumes, jobs, op, reader, deleting, faults>>

-----------------------------------------------------------------------------
\* The CronJob's pass over the volumes: a READY row whose volume is not in the
\* listing is failed. The listing is older than the row it is compared with, so
\* any row may be missing from it; an empty one fails nothing, but it holds the
\* volumes of every Agent.

FailMissing(i) ==
    /\ rows[i].status = "READY"
    /\ rows' = [rows EXCEPT ![i] = Written("fail", rows[i])]
    /\ UNCHANGED <<agent, created, volumes, jobs, op, reader, deleting, faults>>

\* The same pass deletes what no row owns, by the id in the label; a restore's Job
\* carries the id of its target. A row that is gone does not come back, so the
\* check and the delete are one step. It waits until an object is half an hour
\* old, and a Job may run longer than that. Of the volumes there is none to
\* reclaim: every delete of a row here deletes its volume first.
Label(j) == IF IsCapture(j) THEN j ELSE jobs[j].target
Orphaned(j) == rows[Label(j)].status = "none"

ReclaimJob(j) ==
    /\ jobs[j].phase \notin Gone \cup {"absent"} /\ Orphaned(j)
    /\ StepJob(j, IF jobs[j].phase \in Running THEN "ending" ELSE "reclaimed")
    /\ UNCHANGED <<volumes, faults>> /\ JobFrame

\* delete_job propagates in the background: the pod is told to stop and has its
\* grace period to go on, in which it may complete its copy.
PodEnds(j) ==
    /\ jobs[j].phase = "ending"
    /\ StepJob(j, "reclaimed")
    /\ UNCHANGED volumes \/ FillVolume(j)
    /\ UNCHANGED faults /\ JobFrame

-----------------------------------------------------------------------------
\* delete_restore_point takes no lock: it reads, then deletes volume and row.

DeleteReads(i) ==
    /\ deleting = NotDeleting
    /\ rows[i].status \in {"READY", "FAILED"} /\ ~rows[i].reapply
    /\ deleting' = [id |-> i, step |-> "volume"]
    /\ UNCHANGED <<agent, rows, created, volumes, jobs, op, reader, faults>>

DeleteVolume ==
    /\ deleting.step = "volume"
    /\ volumes' = [volumes EXCEPT ![deleting.id] =
                      IF @ = "none" THEN "none" ELSE "released"]
    /\ deleting' = [deleting EXCEPT !.step = "row"]
    /\ UNCHANGED <<agent, rows, created, jobs, op, reader, faults>>

DeleteRow ==
    /\ deleting.step = "row"
    /\ rows' = [rows EXCEPT ![deleting.id] = NoRow]
    /\ deleting' = NotDeleting
    /\ UNCHANGED <<agent, created, volumes, jobs, op, reader, faults>>

DeleteDies ==
    /\ deleting # NotDeleting /\ Fault
    /\ deleting' = NotDeleting
    /\ UNCHANGED <<agent, rows, created, volumes, jobs, op, reader>>

-----------------------------------------------------------------------------
JobStep(j) == CaptureSucceeds(j) \/ RestoreBacksUp(j) \/ RestoreSucceeds(j)
OperationStep == MarkRestoring \/ Provision

Next ==
    \/ Start \/ StartFails \/ Stop \/ DeleteAgent \/ Capture
    \/ \E i \in Ids, reapply \in BOOLEAN : Restore(i, reapply)
    \/ OperationStep \/ ProvisionFails \/ OperationDies
    \/ \E j \in Ids : JobStep(j) \/ CaptureFails(j) \/ RestoreFails(j)
    \/ \E j \in Ids : ReclaimJob(j) \/ PodEnds(j)
    \/ \E p \in Readers : ResolveLate(p) \/ (\E i \in Ids : Observe(p, i))
    \/ \E i \in Ids : Reconcile(i) \/ Replay(i) \/ FailMissing(i) \/ DeleteReads(i)
    \/ DeleteVolume \/ DeleteRow \/ DeleteDies

\* The ttl of a finished Job takes nothing from a row that still needs it: the
\* CronJob looks every ten minutes at rows unresolved for fifteen, the ttl is an
\* hour. Only the reclaim does.
Spec == Init /\ [][Next]_vars

\* A request that holds the lock goes on, a Job ends by its deadline, and the
\* CronJob reconciles every row that stays unresolved.
FairSpec ==
    /\ Spec
    /\ WF_vars(OperationStep)
    /\ WF_vars(\E j \in Ids : JobStep(j))
    /\ WF_vars(\E i \in Ids : Reconcile(i))
    /\ WF_vars(\E i \in Ids : Replay(i))

-----------------------------------------------------------------------------
Typed ==
    /\ agent \in {"RUNNING", "STOPPED", "ERROR", "DELETED"}
    /\ rows \in [Ids -> Rows] /\ created \in 0..MaxRows
    /\ volumes \in [Ids -> Volumes] /\ jobs \in [Ids -> Jobs]
    /\ op \in Ops /\ reader \in [Readers -> Snapshots]
    /\ deleting \in Deletes /\ faults \in 0..MaxFaults

\* Every variable has its type, and no more restore points count against the
\* Agent than _assert_capturable allows.
TypeOK == Typed /\ ManualCount <= Cap

\* A restore Job has the Agent's volume to itself: while one runs the Agent is
\* not RUNNING and no other Job is on its first pod, however stale the writes of
\* the readers are. What protects it from a reader that still holds the target's
\* previous Job is the row of the safety copy. Nothing protects against a pod
\* whose Job is decided: the second pod of a capture, and that of a Job
\* reclaimed while it ran.
RestoreAlone ==
    \A j \in Ids : (~IsCapture(j) /\ jobs[j].phase \in Running) =>
        /\ agent # "RUNNING"
        /\ \A k \in Ids \ {j} : jobs[k].phase \notin {"active", "backed_up"}

\* A READY restore point has the archive it offers, unless a delete took it.
ReadyHasArchive ==
    \A i \in Ids : rows[i].status = "READY" => volumes[i] \in {"archive", "released"}

CompleteCopy(i) == rows[i].origin = "PRE_RESTORE" /\ volumes[i] = "archive"

\* Once the safety copy of a restore is complete nothing but a delete destroys
\* it: "destroying nothing on doubt" (_resolve_failure). This is so as long as
\* the restore's Job has not been reclaimed.
SafetyCopyKept ==
    [][\A i \in Ids : (CompleteCopy(i) /\ jobs[i].phase \notin Gone) =>
          volumes'[i] # "none" \/ agent' = "DELETED"]_vars

\* "A capture releases the one it never finished writing" (_resolve_untracked):
\* no complete safety copy is released, whatever became of the Job. The code
\* does not keep this: the target's row is deleted under a running restore, the
\* Job is reclaimed as an orphan, and the safety copy's row is then failed as one
\* whose Job is missing.
CompleteCopyKept ==
    [][\A i \in Ids : CompleteCopy(i) => volumes'[i] # "none" \/ agent' = "DELETED"]_vars

\* Whatever fails on the way, the operations that block the Agent are resolved:
\* it can always be started, captured, restored or deleted again later.
OperationsResolve == []<>Unblocked
=============================================================================
