------------------------- MODULE RestorePointProofs -------------------------
(***************************************************************************)
(* Proofs about RestorePoint, for any number of rows, reconcilers and faults *)
(* and any cap.                                                             *)
(*                                                                         *)
(* The inductive invariant, Good, says what keeps the writers apart, since    *)
(* no lock does: readers judge and write rows that may have moved on.         *)
(*   - A row whose own Job is undecided names that Job, is not being deleted, *)
(*     and its volume is as full as the phase of the Job says (EarlyGood).   *)
(*   - A Job on the Agent's volume keeps its own row undecided, and with it    *)
(*     the Agent blocked: no reader holds anything that could decide the row   *)
(*     (AloneGood).                                                          *)
(*   - A request that holds the lock has a row that no reader has seen         *)
(*     (OpGood).                                                             *)
(*   - What a reader saw stays true enough to be written late: a success       *)
(*     finds the archive, or a row that takes no write; a failure that would   *)
(*     release a volume finds none with an archive, and no Job that could      *)
(*     still fill one (SnapshotGood).                                        *)
(* A Job that was reclaimed is the exception to the first and the last: nothing  *)
(* is known of its volume, and a reader may have found it missing.           *)
(***************************************************************************)
EXTENDS RestorePoint, FiniteSetTheorems, TLAPS

\* A row whose own Job has not been judged: a capture or a safety copy.
Early == {"PENDING", "CAPTURING"}

\* An archive that is there, or that a delete took.
Kept == {"archive", "released"}

\* A Job on its first pod: nobody may have judged it yet.
Alone == {"active", "backed_up"}

\* A Job that has filled its own volume.
Copied == {"backed_up", "succeeded", "extraction_failed"}

\* Nothing refers to a row that was not created.
Fresh ==
    /\ \A i \in Ids : i > created =>
          rows[i] = NoRow /\ volumes[i] = "none" /\ jobs[i] = NoJob
    /\ \A p \in Readers : reader[p].id <= created
    /\ deleting.id <= created
    /\ deleting.step # "idle" => deleting.id # 0

\* A row whose own Job is undecided names it and is not being deleted; its volume
\* is as full as the phase of the Job says.
EarlyGood(i) ==
    rows[i].status \in Early =>
        /\ rows[i].job = i
        /\ deleting.id # i
        /\ jobs[i].phase # "absent" => volumes[i] # "none"
        /\ jobs[i].phase \notin Gone =>
              IF jobs[i].phase \in Copied THEN volumes[i] \in Kept ELSE volumes[i] # "archive"

\* A row that can be restored from, or is being restored from, has its archive.
HolderGood(i) == rows[i].status \in {"READY", "RESTORING"} => volumes[i] \in Kept

\* A capture is of a manual row, and only captures get a second pod.
JobGood(j) ==
    /\ jobs[j].target = 0 /\ jobs[j].phase # "absent" => rows[j].origin = "MANUAL"
    /\ jobs[j].target # 0 => jobs[j].phase \notin {"retrying", "failed"}

\* A Job on its first pod keeps its row undecided, so the Agent blocked and the
\* lock unused for operations; readers have seen nothing of it but "active"; and
\* it is the only one.
AloneGood(j) ==
    jobs[j].phase \in Alone =>
        /\ rows[j].status \in Early
        /\ agent # "RUNNING"
        /\ op = Free
        /\ \A p \in Readers : reader[p].id = j => reader[p].seen = "active"
        /\ \A k \in Ids : jobs[k].phase \in Alone => k = j

\* The request that holds the lock has a new row, without volume or Job, that no
\* reader has seen; the Agent does not run.
OpGood ==
    op # Free =>
        /\ op.kind # "none"
        /\ op.id \in Ids
        /\ rows[op.id].status = "PENDING"
        /\ volumes[op.id] = "none"
        /\ jobs[op.id] = NoJob
        /\ agent # "RUNNING"
        /\ \A p \in Readers : reader[p].id # op.id
        /\ IF op.kind = "capture" THEN op.target = 0 /\ rows[op.id].origin = "MANUAL"
           ELSE op.target \in Ids \ {op.id}

\* What a reader saw of a row's own Job still fits what it is about to write.
SnapshotGood(s) ==
    s # Idle =>
        /\ s.id \in Ids /\ s.status \in NonTerminal
        /\ s.status \in Early =>
              /\ s.seen \in {"succeeded", "extraction_failed"} =>
                    rows[s.id].status \in {"FAILED", "none"} \/ volumes[s.id] \in Kept
              /\ s.seen \in {"missing", "backup_failed"} =>
                    \/ jobs[s.id].phase \in Gone
                    \/ /\ volumes[s.id] # "archive"
                       /\ jobs[s.id].phase \in {"absent", "backup_failed"}
              /\ s.seen = "failed" => rows[s.id].origin = "MANUAL"

\* The invariant, row by row.
RowsGood ==
    \A i \in Ids : EarlyGood(i) /\ HolderGood(i) /\ JobGood(i) /\ AloneGood(i)

\* The invariant of what the readers hold.
SnapshotsGood == \A p \in Readers : SnapshotGood(reader[p])

\* The inductive invariant.
Good == Typed /\ Fresh /\ OpGood /\ RowsGood /\ SnapshotsGood

-----------------------------------------------------------------------------
\* An Agent without restore points satisfies it.
LEMMA InitGood == Init => Good
<1> SUFFICES ASSUME Init PROVE Good
    OBVIOUS
<1> USE DEF Init
<1>1. Typed
    BY RestoreAssumption DEF Typed, Rows, Jobs, NoRow, NoJob, Volumes, Statuses,
       NonTerminal,
       Phases, Running, Free, Idle, NotDeleting, Seen, Ops, Snapshots, Deletes
<1>2. Fresh /\ OpGood /\ RowsGood /\ SnapshotsGood
    BY RestoreAssumption DEF Fresh, OpGood, RowsGood, SnapshotsGood, EarlyGood,
       HolderGood, JobGood, AloneGood, SnapshotGood,
       Early, Alone, Idle, NotDeleting, NoRow, NoJob, Ids
<1>3. QED
    BY <1>1, <1>2 DEF Good

\* No operation is a value of op.
LEMMA FreeTyped == Free \in Ops
BY RestoreAssumption DEF Free, Ops

\* The ways in which a row is updated: the status alone;
LEMMA NewStatus ==
    ASSUME NEW row \in Rows, NEW st \in Statuses
    PROVE  /\ [row EXCEPT !.status = st] \in Rows
           /\ [row EXCEPT !.status = st].status = st
           /\ [row EXCEPT !.status = st].origin = row.origin
           /\ [row EXCEPT !.status = st].job = row.job
BY DEF Rows

\* the status, with Job and replay cleared;
LEMMA ResetRow ==
    ASSUME NEW row \in Rows, NEW st \in Statuses
    PROVE  /\ [row EXCEPT !.status = st, !.job = 0, !.reapply = FALSE] \in Rows
           /\ [row EXCEPT !.status = st, !.job = 0, !.reapply = FALSE].status = st
           /\ [row EXCEPT !.status = st, !.job = 0, !.reapply = FALSE].origin = row.origin
<1>1. 0 \in 0..MaxRows
    BY RestoreAssumption
<1>2. QED
    BY <1>1 DEF Rows

\* the replay alone.
LEMMA NoReplay ==
    ASSUME NEW row \in Rows
    PROVE  /\ [row EXCEPT !.reapply = FALSE] \in Rows
           /\ [row EXCEPT !.reapply = FALSE].status = row.status
           /\ [row EXCEPT !.reapply = FALSE].origin = row.origin
           /\ [row EXCEPT !.reapply = FALSE].job = row.job
BY DEF Rows

-----------------------------------------------------------------------------
\* Every action keeps the invariant.

\* start_agent meets no blocking row, so no Job is on the volume.
LEMMA StartGood == ASSUME Good, Start PROVE Good'
BY DEF Good, Start, MayStart, LockFree, Runnable, Unblocked, Blocks, Typed, Fresh, OpGood,
   RowsGood, SnapshotsGood, EarlyGood, HolderGood, JobGood, AloneGood, SnapshotGood,
   Early, NonTerminal

\* A failed start leaves the Agent stopped.
LEMMA StartFailsGood == ASSUME Good, StartFails PROVE Good'
BY RestoreAssumption DEF Good, StartFails, Fault, MayStart, LockFree, Typed, Fresh,
   OpGood, RowsGood, SnapshotsGood, EarlyGood, HolderGood, JobGood, AloneGood, SnapshotGood

\* Stopping only helps.
LEMMA StopGood == ASSUME Good, Stop PROVE Good'
BY DEF Good, Stop, Typed, Fresh, OpGood, RowsGood, SnapshotsGood, EarlyGood, HolderGood,
   JobGood, AloneGood, SnapshotGood

\* delete_agent leaves nothing a late reader could harm.
LEMMA DeleteAgentGood == ASSUME Good, DeleteAgent PROVE Good'
<1>1. Typed'
  BY RestoreAssumption DEF Good, Typed, DeleteAgent, NoRow, Rows, NoJob, Jobs, Phases,
     Volumes, Statuses
<1>2. Fresh' /\ OpGood' /\ RowsGood'
  BY DEF Good, Typed, DeleteAgent, LockFree, Fresh, OpGood, RowsGood, EarlyGood,
     HolderGood, JobGood, AloneGood, NoRow, NoJob, Early, Alone
<1>3. SnapshotsGood'
  BY DEF Good, Typed, DeleteAgent, SnapshotsGood, SnapshotGood, NoRow, NoJob
<1>4. QED
  BY <1>1, <1>2, <1>3 DEF Good

\* A capture takes a row that no reader and no delete has seen.
LEMMA CaptureGood == ASSUME Good, Capture PROVE Good'
<1> DEFINE row == NewRow("MANUAL")
<1>1. /\ created \in 0..MaxRows /\ created + 1 \in Ids /\ created + 1 \in 0..MaxRows
      /\ row \in Rows /\ row.status = "PENDING" /\ row.job = created + 1
    BY RestoreAssumption DEF Good, Typed, Capture, MayOperate, Ids, NewRow, Rows,
       Statuses, NonTerminal
<1>2. /\ rows[created + 1] = NoRow
      /\ volumes[created + 1] = "none" /\ jobs[created + 1] = NoJob
      /\ deleting.id # created + 1 /\ \A p \in Readers : reader[p].id # created + 1
    BY <1>1 DEF Good, Typed, Fresh, Snapshots, Deletes, Ids
<1>3. /\ rows' = [rows EXCEPT ![created + 1] = row]
      /\ created' = created + 1
      /\ UNCHANGED <<agent, volumes, jobs, reader, deleting, faults>>
    BY DEF Capture
<1>4. agent # "RUNNING" /\ \A j \in Ids : jobs[j].phase \notin Alone
    BY DEF Good, Capture, MayOperate, Runnable, Unblocked, Blocks, RowsGood, AloneGood,
       Early, NonTerminal
<1>5. op' \in Ops /\ OpGood'
  <2>1. op' = [kind |-> "capture", id |-> created + 1, target |-> 0, reapply |-> FALSE]
    BY DEF Capture, Free
  <2>2. op' \in Ops
    BY <1>1, <2>1, RestoreAssumption DEF Ops, Ids
  <2>3. OpGood'
    BY <1>1, <1>2, <1>3, <1>4, <2>1, row.origin = "MANUAL" DEF Good, Typed, OpGood, NewRow
  <2>4. QED
    BY <2>2, <2>3
<1> HIDE DEF row
<1>6. Typed'
    BY <1>1, <1>3, <1>5 DEF Good, Typed
<1>7. Fresh'
    BY <1>1, <1>2, <1>3 DEF Good, Typed, Fresh, Ids, Snapshots, Deletes
<1>8. RowsGood'
    BY <1>1, <1>2, <1>3, <1>4 DEF Good, Typed, RowsGood, EarlyGood, HolderGood, JobGood,
       AloneGood, NoJob, Early, Copied
<1>9. SnapshotsGood'
    BY <1>1, <1>2, <1>3 DEF Good, Typed, SnapshotsGood, SnapshotGood
<1>10. QED
    BY <1>6, <1>5, <1>7, <1>8, <1>9 DEF Good

\* A restore does the same for its safety copy.
LEMMA RestoreGood ==
    ASSUME Good, NEW i \in Ids, NEW reapply \in BOOLEAN, Restore(i, reapply)
    PROVE  Good'
<1> DEFINE row == NewRow("PRE_RESTORE")
<1>1. /\ created \in 0..MaxRows /\ created + 1 \in Ids /\ created + 1 \in 0..MaxRows
      /\ row \in Rows /\ row.status = "PENDING" /\ row.job = created + 1
    BY RestoreAssumption DEF Good, Typed, Restore, MayOperate, Ids, NewRow, Rows,
       Statuses, NonTerminal
<1>2. /\ rows[created + 1] = NoRow
      /\ volumes[created + 1] = "none" /\ jobs[created + 1] = NoJob
      /\ deleting.id # created + 1 /\ \A p \in Readers : reader[p].id # created + 1
    BY <1>1 DEF Good, Typed, Fresh, Snapshots, Deletes, Ids
<1>3. /\ rows' = [rows EXCEPT ![created + 1] = row]
      /\ created' = created + 1
      /\ UNCHANGED <<agent, volumes, jobs, reader, deleting, faults>>
    BY DEF Restore
<1>4. agent # "RUNNING" /\ \A j \in Ids : jobs[j].phase \notin Alone
    BY DEF Good, Restore, MayOperate, Runnable, Unblocked, Blocks, RowsGood, AloneGood,
       Early, NonTerminal
<1>5. op' \in Ops /\ OpGood'
  <2>1. op' = [kind |-> "mark", id |-> created + 1, target |-> i, reapply |-> reapply]
    BY DEF Restore, Free
  <2>2. op' \in Ops
    BY <1>1, <2>1, RestoreAssumption DEF Ops, Ids
  <2>5. created + 1 # i
    BY <1>2 DEF Restore, NoRow
  <2>3. OpGood'
    BY <1>1, <1>2, <1>3, <1>4, <2>1, <2>5 DEF Good, Typed, OpGood
  <2>4. QED
    BY <2>2, <2>3
<1> HIDE DEF row
<1>6. Typed'
    BY <1>1, <1>3, <1>5 DEF Good, Typed
<1>7. Fresh'
    BY <1>1, <1>2, <1>3 DEF Good, Typed, Fresh, Ids, Snapshots, Deletes
<1>8. RowsGood'
    BY <1>1, <1>2, <1>3, <1>4 DEF Good, Typed, RowsGood, EarlyGood, HolderGood, JobGood,
       AloneGood, NoJob, Early, Copied
<1>9. SnapshotsGood'
    BY <1>1, <1>2, <1>3 DEF Good, Typed, SnapshotsGood, SnapshotGood
<1>10. QED
    BY <1>6, <1>5, <1>7, <1>8, <1>9 DEF Good

\* The target is marked, if it is still READY.
LEMMA MarkRestoringGood == ASSUME Good, MarkRestoring PROVE Good'
<1>1. /\ op \in Ops /\ op # Free /\ op.id \in Ids /\ op.target \in Ids \ {op.id}
      /\ rows[op.target] \in Rows
    BY DEF Good, Typed, OpGood, MarkRestoring, Free
<1>2. CASE rows[op.target].status = "READY"
  <2> DEFINE row == [rows[op.target] EXCEPT !.status = "RESTORING", !.job = op.id,
                                            !.reapply = op.reapply]
  <2>1. /\ rows' = [rows EXCEPT ![op.target] = row]
        /\ op' = [op EXCEPT !.kind = "restore"]
        /\ UNCHANGED <<agent, created, volumes, jobs, reader, deleting, faults>>
    BY <1>1, <1>2 DEF Good, Typed, MarkRestoring
  <2>2. row \in Rows /\ row.status = "RESTORING" /\ row.origin = rows[op.target].origin
    BY <1>1 DEF Rows, Statuses, NonTerminal, Ops
  <2>3. /\ op' \in Ops /\ op' # Free /\ op'.kind = "restore"
        /\ op'.id = op.id /\ op'.target = op.target
    BY <1>1, <2>1 DEF Ops, Free
  <2> HIDE DEF row
  <2>4. Typed'
    BY <2>1, <2>2, <2>3 DEF Good, Typed
  <2>5. Fresh'
    <3>1. ~(op.target > created)
      BY <1>1, <1>2 DEF Good, Fresh, NoRow
    <3>2. QED
      BY <1>1, <2>1, <3>1 DEF Good, Typed, Fresh
  <2>6. OpGood'
    BY <1>1, <2>1, <2>3 DEF Good, Typed, OpGood
  <2>7. RowsGood'
    BY <1>1, <1>2, <2>1, <2>2 DEF Good, Typed, RowsGood, EarlyGood, HolderGood, JobGood,
       AloneGood, Early
  <2>8. SnapshotsGood'
    BY <1>1, <1>2, <2>1, <2>2 DEF Good, Typed, SnapshotsGood, SnapshotGood
  <2>9. QED
    BY <2>4, <2>5, <2>6, <2>7, <2>8 DEF Good
<1>3. CASE rows[op.target].status # "READY"
  <2>1. op' = Free /\ UNCHANGED <<agent, rows, created, volumes, jobs, reader, deleting,
     faults>>
    BY <1>3 DEF MarkRestoring
  <2>2. Typed' /\ Fresh' /\ OpGood'
    BY <2>1, FreeTyped DEF Good, Typed, Fresh, OpGood
  <2>3. RowsGood' /\ SnapshotsGood'
    BY <2>1 DEF Good, RowsGood, EarlyGood, HolderGood, JobGood, AloneGood, SnapshotsGood,
       SnapshotGood
  <2>4. QED
    BY <2>2, <2>3 DEF Good
<1>4. QED
    BY <1>2, <1>3

\* The new Job is the only one on its first pod, and no reader has seen its row.
LEMMA ProvisionGood == ASSUME Good, Provision PROVE Good'
<1> DEFINE job == [target |-> op.target, phase |-> "active"]
<1>1. /\ op \in Ops /\ op # Free /\ op.id \in Ids
      /\ rows[op.id].status = "PENDING" /\ agent # "RUNNING"
      /\ jobs[op.id] = NoJob /\ volumes[op.id] = "none"
      /\ \A p \in Readers : reader[p].id # op.id
      /\ op.target = 0 => rows[op.id].origin = "MANUAL"
    BY DEF Good, Typed, OpGood, Provision, Free, Ids
<1>2. /\ volumes' = [volumes EXCEPT ![op.id] = "filling"]
      /\ jobs' = [jobs EXCEPT ![op.id] = job]
      /\ op' = Free
      /\ UNCHANGED <<agent, rows, created, reader, deleting, faults>>
    BY DEF Provision
<1>3. job \in Jobs /\ job.phase = "active" /\ job.target = op.target
    BY <1>1 DEF Jobs, Phases, Running, Ops
<1> HIDE DEF job
<1>4. Typed'
    BY <1>2, <1>3, FreeTyped DEF Good, Typed, Volumes
<1>5. Fresh'
    BY <1>1, <1>2, <1>3 DEF Good, Typed, Fresh, NoRow
<1>6. RowsGood'
    BY <1>1, <1>2, <1>3 DEF Good, Typed, RowsGood, EarlyGood, HolderGood, JobGood,
       AloneGood, Early, Alone, Copied
<1>7. OpGood' /\ SnapshotsGood'
    BY <1>1, <1>2, <1>3 DEF Good, Typed, OpGood, SnapshotsGood, SnapshotGood, Idle
<1>8. QED
    BY <1>4, <1>5, <1>6, <1>7 DEF Good

\* What a failed provisioning makes of a row.
LEMMA UndoneFacts ==
    ASSUME Good, op # Free, NEW i \in Ids
    PROVE  /\ Undone(i) \in Rows /\ Undone(i).origin = rows[i].origin
           /\ \/ Undone(i) = rows[i] /\ i # op.id
              \/ i = op.id /\ Undone(i).status = "FAILED"
              \/ i # op.id /\ rows[i].status = "RESTORING" /\ Undone(i).status = "READY"
<1>1. /\ rows[i] \in Rows /\ op \in Ops /\ 0 \in 0..MaxRows
      /\ rows[op.id].status = "PENDING"
    BY RestoreAssumption DEF Good, Typed, OpGood
<1>2. CASE i = op.id
  <2>1. CASE op.kind = "capture"
    <3>1. Undone(i) = [rows[i] EXCEPT !.status = "FAILED", !.job = op.id]
      BY <1>1, <1>2, <2>1 DEF Undone
    <3>2. QED
      BY <1>1, <1>2, <3>1 DEF Statuses, Ops, Rows
  <2>2. CASE op.kind # "capture"
    <3>1. Undone(i) = [rows[i] EXCEPT !.status = "FAILED", !.job = 0]
      BY <1>1, <1>2, <2>2 DEF Undone
    <3>2. QED
      BY <1>1, <1>2, <3>1 DEF Statuses, Rows
  <2>3. QED
    BY <2>1, <2>2
<1>3. CASE i # op.id
  <2>1. \/ Undone(i) = rows[i]
        \/ /\ rows[i].status = "RESTORING"
           /\ Undone(i) = [rows[i] EXCEPT !.status = "READY", !.job = 0, !.reapply = FALSE]
    BY <1>3 DEF Undone
  <2>2. QED
    BY <1>1, <1>3, <2>1 DEF Statuses, Rows
<1>4. QED
    BY <1>2, <1>3

\* A failed provisioning undoes both rows.
LEMMA ProvisionFailsGood == ASSUME Good, ProvisionFails PROVE Good'
<1>1. /\ op \in Ops /\ op # Free /\ op.id \in Ids
      /\ rows[op.id].status = "PENDING"
      /\ volumes[op.id] = "none" /\ jobs[op.id] = NoJob
      /\ \A p \in Readers : reader[p].id # op.id
    BY DEF Good, Typed, OpGood, ProvisionFails, Free, Ids
<1>2. /\ volumes' = volumes /\ op' = Free /\ faults' \in 0..MaxFaults
      /\ UNCHANGED <<agent, created, jobs, reader, deleting>>
    BY <1>1, RestoreAssumption DEF ProvisionFails, Fault, Good, Typed
<1>3. /\ rows' \in [Ids -> Rows]
      /\ \A i \in Ids :
            /\ rows'[i].origin = rows[i].origin
            /\ \/ rows'[i] = rows[i] /\ i # op.id
               \/ i = op.id /\ rows'[i].status = "FAILED"
               \/ i # op.id /\ rows[i].status = "RESTORING" /\ rows'[i].status = "READY"
    BY <1>1, UndoneFacts DEF ProvisionFails
<1>4. Typed'
    BY <1>2, <1>3, FreeTyped DEF Good, Typed
<1>5. Fresh'
    BY <1>1, <1>2, <1>3 DEF Good, Typed, Fresh, NoRow
<1>6. RowsGood'
    BY <1>1, <1>2, <1>3 DEF Good, Typed, RowsGood, EarlyGood, HolderGood, JobGood,
       AloneGood, Early, Alone, NoJob
<1>7. OpGood' /\ SnapshotsGood'
    BY <1>1, <1>2, <1>3 DEF Good, Typed, OpGood, SnapshotsGood, SnapshotGood
<1>8. QED
    BY <1>4, <1>5, <1>6, <1>7 DEF Good

\* A request that dies leaves an undecided row, perhaps with an empty volume.
LEMMA OperationDiesGood == ASSUME Good, OperationDies PROVE Good'
<1>1. /\ op \in Ops /\ op.id \in Ids
      /\ rows[op.id].status = "PENDING"
      /\ volumes[op.id] = "none" /\ jobs[op.id] = NoJob
      /\ \A p \in Readers : reader[p].id # op.id
    BY DEF Good, Typed, OpGood, OperationDies
<1>2. /\ volumes' = volumes \/ volumes' = [volumes EXCEPT ![op.id] = "filling"]
      /\ op' = Free /\ faults' \in 0..MaxFaults
      /\ UNCHANGED <<agent, rows, created, jobs, reader, deleting>>
    BY RestoreAssumption DEF OperationDies, Fault, Good, Typed
<1>3. Typed'
    BY <1>1, <1>2, FreeTyped DEF Good, Typed, Volumes
<1>4. Fresh'
    BY <1>1, <1>2 DEF Good, Typed, Fresh, NoRow
<1>5. RowsGood'
    BY <1>1, <1>2 DEF Good, Typed, RowsGood, EarlyGood, HolderGood, JobGood, AloneGood,
       Copied, Alone, NoJob
<1>6. OpGood' /\ SnapshotsGood'
    BY <1>1, <1>2 DEF Good, Typed, OpGood, SnapshotsGood, SnapshotGood
<1>7. QED
    BY <1>3, <1>4, <1>5, <1>6 DEF Good

\* A Job moves on: its volume fills with the phase, and nothing starts.
LEMMA JobMoves ==
    ASSUME Good, NEW j \in Ids, NEW phase \in Phases \ {"absent"},
           phase \notin Gone,
           jobs[j].phase \in Running, StepJob(j, phase), JobFrame,
           faults' \in 0..MaxFaults,
           phase \in Alone => jobs[j].phase \in Alone,
           jobs[j].target # 0 => phase \notin {"retrying", "failed"},
           IF phase \in Copied
           THEN FillVolume(j) \/ (jobs[j].phase \in Copied /\ UNCHANGED volumes)
           ELSE UNCHANGED volumes /\ jobs[j].phase \notin Copied
    PROVE  Good'
<1>1. /\ jobs[j] \in Jobs /\ jobs' = [jobs EXCEPT ![j].phase = phase]
      /\ UNCHANGED <<agent, rows, created, op, reader, deleting>>
    BY DEF Good, Typed, StepJob, JobFrame
<1>2. /\ jobs' \in [Ids -> Jobs]
      /\ jobs'[j].phase = phase /\ jobs'[j].target = jobs[j].target
      /\ \A k \in Ids \ {j} : jobs'[k] = jobs[k]
    BY <1>1 DEF Good, Typed, Jobs
<1>3. /\ volumes' \in [Ids -> Volumes]
      /\ volumes' = volumes \/ volumes' = [volumes EXCEPT ![j] = Filled(j)]
      /\ phase \notin Copied => volumes' = volumes
      /\ \A k \in Ids \ {j} : volumes'[k] = volumes[k]
      /\ volumes'[j] = volumes[j] \/ (volumes[j] = "filling" /\ volumes'[j] = "archive")
    BY DEF Good, Typed, FillVolume, Filled, Volumes
<1>4. /\ rows[j].status \in Early /\ phase \in Copied => volumes'[j] \in Kept
      /\ jobs[j].phase # "absent"
    BY DEF Good, Typed, RowsGood, EarlyGood, FillVolume, Filled, Volumes, Kept, Running,
       Gone, NoJob
<1>5. Typed'
    BY <1>1, <1>2, <1>3 DEF Good, Typed
<1>6. Fresh' /\ OpGood'
    BY <1>1, <1>2, <1>3, <1>4 DEF Good, Typed, Fresh, OpGood, NoJob
<1>7. RowsGood'
    BY <1>1, <1>2, <1>3, <1>4 DEF Good, Typed, RowsGood, EarlyGood, HolderGood, JobGood,
       AloneGood, Kept, Running, Gone
<1>8. SnapshotsGood'
    BY <1>1, <1>2, <1>3, <1>4 DEF Good, Typed, SnapshotsGood, SnapshotGood, Kept, Running,
       Gone
<1>9. QED
    BY <1>5, <1>6, <1>7, <1>8 DEF Good

\* Every step of a Job is such a move.
LEMMA JobsGood ==
    ASSUME Good, NEW j \in Ids, JobStep(j) \/ CaptureFails(j) \/ RestoreFails(j)
    PROVE  Good'
<1> USE DEF IsCapture, Phases, Running, Gone, Alone, Copied
<1>1. CASE CaptureSucceeds(j)
    BY <1>1, JobMoves DEF CaptureSucceeds, Good, Typed
<1>2. CASE RestoreBacksUp(j)
    BY <1>2, JobMoves DEF RestoreBacksUp, Good, Typed
<1>3. CASE RestoreSucceeds(j)
    BY <1>3, JobMoves DEF RestoreSucceeds, Good, Typed
<1>4. CASE CaptureFails(j) \/ RestoreFails(j)
  <2>1. faults' \in 0..MaxFaults
    BY <1>4, RestoreAssumption DEF CaptureFails, RestoreFails, Fault, Good, Typed
  <2>2. QED
    BY <1>4, <2>1, JobMoves DEF CaptureFails, RestoreFails
<1>5. QED
    BY <1>1, <1>2, <1>3, <1>4 DEF JobStep

\* A Job is reclaimed, or its pod ends: no more is said of its volume.
LEMMA GoneGood ==
    ASSUME Good, NEW j \in Ids, ReclaimJob(j) \/ PodEnds(j)
    PROVE  Good'
<1>1. PICK phase \in Gone : jobs' = [jobs EXCEPT ![j].phase = phase]
    BY DEF ReclaimJob, PodEnds, StepJob, Gone
<1>2. /\ jobs[j] \in Jobs /\ jobs[j].phase # "absent" /\ jobs[j] # NoJob
      /\ UNCHANGED <<agent, rows, created, op, reader, deleting, faults>>
    BY DEF Good, Typed, ReclaimJob, PodEnds, JobFrame, NoJob
<1>3. /\ jobs' \in [Ids -> Jobs]
      /\ jobs'[j].phase \in Gone /\ jobs'[j].target = jobs[j].target
      /\ \A k \in Ids \ {j} : jobs'[k] = jobs[k]
    BY <1>1, <1>2 DEF Good, Typed, Jobs, Phases
<1>4. /\ volumes' \in [Ids -> Volumes]
      /\ \A k \in Ids \ {j} : volumes'[k] = volumes[k]
      /\ volumes'[j] = volumes[j] \/ (volumes[j] = "filling" /\ volumes'[j] = "archive")
    BY DEF Good, Typed, ReclaimJob, PodEnds, FillVolume, Filled, Volumes
<1>5. Typed'
    BY <1>2, <1>3, <1>4 DEF Good, Typed
<1>6. Fresh' /\ OpGood'
    BY <1>2, <1>3, <1>4 DEF Good, Typed, Fresh, OpGood
<1>7. RowsGood'
    BY <1>2, <1>3, <1>4 DEF Good, Typed, RowsGood, EarlyGood, HolderGood, JobGood,
       AloneGood, Kept, Alone, Gone
<1>8. SnapshotsGood'
    BY <1>2, <1>3, <1>4 DEF Good, Typed, SnapshotsGood, SnapshotGood, Kept
<1>9. QED
    BY <1>5, <1>6, <1>7, <1>8 DEF Good

\* What a reconciler can see of a row is good when it sees it.
LEMMA JudgedGood ==
    ASSUME Good, NEW i \in Ids, rows[i].status \in NonTerminal, NEW seen \in Judged(i)
    PROVE  /\ Snapshot(i, seen) \in Snapshots
           /\ Snapshot(i, seen) # Idle
           /\ SnapshotGood(Snapshot(i, seen))
           /\ i <= created
           /\ op # Free => i # op.id
           /\ jobs[i].phase \in Alone => seen = "active"
<1> DEFINE phase == jobs[rows[i].job].phase
<1>1. /\ rows[i] \in Rows /\ jobs[i] \in Jobs /\ volumes[i] \in Volumes
      /\ EarlyGood(i) /\ JobGood(i) /\ AloneGood(i) /\ OpGood
    BY DEF Good, Typed, RowsGood
<1>2. /\ seen \in Seen
      /\ phase \in Gone \cup {"absent"} => seen = "missing" /\ i \notin {op.id, op.target}
      /\ phase \in {"active", "backed_up"} => seen = "active"
      /\ phase = "succeeded" => seen = "succeeded"
      /\ phase \in {"failed", "retrying"} => seen = "failed"
      /\ phase = "backup_failed" => seen \in {"backup_failed", "unknown"}
      /\ phase = "extraction_failed" => seen \in {"extraction_failed", "unknown"}
  <2>1. CASE phase \in Gone \cup {"absent"}
    BY <2>1 DEF Judged, Seen, Gone
  <2>2. CASE phase = "succeeded"
    BY <2>2 DEF Judged, Seen, Gone
  <2>3. CASE phase \in {"failed", "retrying"}
    BY <2>3 DEF Judged, Seen, Gone
  <2>4. CASE phase \in {"backup_failed", "extraction_failed"}
    BY <2>4 DEF Judged, Seen, Outcomes, Gone
  <2>5. CASE phase \notin Gone \cup {"absent", "succeeded", "failed", "retrying",
                                    "backup_failed", "extraction_failed"}
    BY <2>5 DEF Judged, Seen, Gone
  <2>6. QED
    BY <2>1, <2>2, <2>3, <2>4, <2>5
<1>3. rows[i].status \in Early => phase = jobs[i].phase
    BY <1>1 DEF EarlyGood
<1> HIDE DEF phase
<1>4. Snapshot(i, seen) \in Snapshots /\ Snapshot(i, seen) # Idle
    BY <1>1, <1>2 DEF Snapshot, Snapshots, Idle, Rows, Ids
<1>5. op # Free => i # op.id
    BY <1>1, <1>2, <1>3 DEF OpGood, Early, NoJob
<1>6. jobs[i].phase \in Alone => seen = "active"
    BY <1>1, <1>2, <1>3 DEF AloneGood, Alone
<1>7. SnapshotGood(Snapshot(i, seen))
  <2>1. jobs[i].phase \in Phases
    BY <1>1 DEF Jobs
  <2>2. QED
    BY <1>1, <1>2, <1>3, <2>1 DEF SnapshotGood, Snapshot, EarlyGood, JobGood, Early,
       Copied, Phases, Running, Gone
<1>8. i <= created
    BY DEF Good, Typed, Fresh, Ids, NoRow, NonTerminal
<1>9. QED
    BY <1>4, <1>5, <1>6, <1>7, <1>8


\* The ways in which the write of a judgement changes the row it is about.
Judgement(s) ==
    LET old == rows[s.id]
        new == rows'[s.id]
    IN /\ new \in Rows /\ new.origin = old.origin
       /\ \/ new.status = old.status /\ new.job = old.job /\ volumes' = volumes
          \/ /\ old.status = "PENDING" /\ new.status = "CAPTURING"
             /\ new.job = old.job /\ volumes' = volumes
          \/ /\ old.status \in NonTerminal /\ new.status = "READY"
             /\ s.seen # "active"
             /\ volumes[s.id] \in Kept /\ volumes' = volumes
          \/ /\ old.status \in NonTerminal /\ new.status = "FAILED"
             /\ s.seen # "active"
             /\ \/ volumes' = volumes
                \/ /\ Verdict(s) = "fail_capture"
                   /\ volumes' = [volumes EXCEPT ![s.id] = "none"]

\* The writes a reader may choose.
Verdicts == {"capturing", "restored", "ready", "fail", "fail_capture"}

\* Which write is chosen for what was seen.
LEMMA VerdictFacts ==
    ASSUME NEW s, s.seen \in Seen, s.status \in NonTerminal
    PROVE  /\ Verdict(s) \in Verdicts
           /\ Verdict(s) # "capturing" => s.seen # "active"
           /\ Verdict(s) = "ready" =>
                 s.status \in Early /\ s.seen \in {"succeeded", "extraction_failed"}
           /\ Verdict(s) = "fail_capture" =>
                 s.status \in Early /\ s.seen \in {"missing", "failed", "backup_failed"}
<1>1. CASE s.seen = "active"
    BY <1>1 DEF Verdict, Verdicts
<1>2. CASE s.seen # "active" /\ s.status = "RESTORING"
    BY <1>2 DEF Verdict, Verdicts
<1>3. CASE s.seen # "active" /\ s.status # "RESTORING"
    BY <1>3 DEF Verdict, Verdicts, Seen, NonTerminal, Early
<1>4. QED
    BY <1>1, <1>2, <1>3

\* The write of a reader changes one row in one of these ways, and releases a
\* volume only with the row it failed.
LEMMA ResolveJudges ==
    ASSUME Good, NEW s \in Snapshots, s # Idle, SnapshotGood(s), Resolve(s)
    PROVE  /\ Judgement(s)
           /\ \A i \in Ids \ {s.id} : rows'[i] = rows[i]
           /\ rows' \in [Ids -> Rows]
<1> DEFINE row == rows[s.id]
           cleared == Cancelled(s, row)
           verdict == Verdict(s)
           new == IF row.status \in From(verdict) THEN Written(verdict,
              cleared) ELSE cleared
<1>1. s.id \in Ids /\ row \in Rows /\ s.status \in NonTerminal /\ s.seen \in Seen
    BY DEF SnapshotGood, Good, Typed, Snapshots
<1>2. /\ cleared \in Rows /\ cleared.status = row.status
      /\ cleared.origin = row.origin /\ cleared.job = row.job
    BY <1>1, NoReplay DEF Cancelled
<1>3. /\ rows' = [rows EXCEPT ![s.id] = new]
      /\ volumes' = IF Releases(verdict, row) THEN [volumes EXCEPT ![s.id] = "none"]
                    ELSE volumes
    BY DEF Resolve
<1>4. /\ verdict \in Verdicts
      /\ verdict # "capturing" => s.seen # "active"
      /\ verdict = "ready" => s.status \in Early /\ s.seen \in {"succeeded",
         "extraction_failed"}
    BY <1>1, VerdictFacts
<1> HIDE DEF cleared, verdict
<1>5. CASE row.status \notin From(verdict)
  <2>1. new = cleared /\ volumes' = volumes
    BY <1>3, <1>5 DEF Releases
  <2>2. new \in Rows /\ new.origin = row.origin
        /\ new.status = row.status /\ new.job = row.job
    BY <1>2, <2>1
  <2> HIDE DEF new
  <2>3. rows'[s.id] = new /\ \A i \in Ids \ {s.id} : rows'[i] = rows[i]
    BY <1>1, <1>3 DEF Good, Typed
  <2>4. QED
    BY <1>1, <1>3, <2>1, <2>2, <2>3 DEF Judgement, Good, Typed
<1>6. CASE row.status \in From(verdict)
  <2>1. new = Written(verdict, cleared)
    BY <1>6
  <2> HIDE DEF new
  <2>2. rows'[s.id] = new /\ \A i \in Ids \ {s.id} : rows'[i] = rows[i]
    BY <1>1, <1>3 DEF Good, Typed
  <2>3. CASE verdict = "capturing"
    <3>1. new = [cleared EXCEPT !.status = "CAPTURING"] /\ row.status = "PENDING"
      BY <1>6, <2>1, <2>3 DEF Written, From
    <3>2. /\ new \in Rows /\ new.origin = row.origin /\ new.job = row.job
          /\ new.status = "CAPTURING"
      BY <1>2, <3>1, NewStatus DEF Statuses, NonTerminal
    <3>3. volumes' = volumes
      BY <1>3, <2>3 DEF Releases
    <3>4. QED
      BY <1>1, <1>3, <2>2, <3>1, <3>2, <3>3 DEF Judgement, Good, Typed
  <2>4. CASE verdict \in {"ready", "restored"}
    <3>1. new = [cleared EXCEPT !.status = "READY", !.job = 0] /\ row.status \in NonTerminal
      BY <1>6, <2>1, <2>4 DEF Written, From, NonTerminal
    <3>2. new \in Rows /\ new.origin = row.origin /\ new.status = "READY"
      <4>1. 0 \in 0..MaxRows
        BY RestoreAssumption
      <4>2. QED
        BY <1>2, <3>1, <4>1 DEF Statuses, Rows
    <3>3. volumes' = volumes
      BY <1>3, <2>4 DEF Releases
    <3>4. volumes[s.id] \in Kept
      <4>1. CASE verdict = "ready"
        BY <1>1, <1>4, <3>1, <4>1 DEF SnapshotGood, NonTerminal
      <4>2. CASE verdict = "restored"
        BY <1>1, <1>6, <4>2 DEF From, Good, RowsGood, HolderGood
      <4>3. QED
        BY <2>4, <4>1, <4>2
    <3>5. QED
      BY <1>1, <1>3, <1>4, <2>2, <2>4, <3>1, <3>2, <3>3, <3>4 DEF Judgement, Good, Typed
  <2>5. CASE verdict \in {"fail", "fail_capture"}
    <3>1. /\ new = [cleared EXCEPT !.status = "FAILED", !.job = 0, !.reapply = FALSE]
          /\ row.status \in NonTerminal
      BY <1>6, <2>1, <2>5 DEF Written, From
    <3>2. new \in Rows /\ new.origin = row.origin /\ new.status = "FAILED"
      BY <1>2, <3>1, ResetRow DEF Statuses
    <3>3. \/ volumes' = volumes
          \/ verdict = "fail_capture" /\ volumes' = [volumes EXCEPT ![s.id] = "none"]
      BY <1>3 DEF Releases
    <3>4. QED
      BY <1>1, <1>3, <1>4, <2>2, <2>5, <3>1, <3>2, <3>3 DEF Judgement, Good, Typed, verdict
  <2>6. QED
    BY <1>4, <2>3, <2>4, <2>5 DEF Verdicts
<1>7. QED
    BY <1>5, <1>6


\* A judgement is written, on whatever the row has become.
LEMMA ResolveGood ==
    ASSUME Good, NEW s \in Snapshots, s # Idle, SnapshotGood(s), Resolve(s),
           s.id <= created,
           op # Free => s.id # op.id,
           jobs[s.id].phase \in Alone => s.seen = "active",
           reader' \in [Readers -> Snapshots],
           \A p \in Readers : reader'[p] \in {reader[p], Idle}
    PROVE  Good'
<1> DEFINE row == rows[s.id]
<1>1. /\ s.id \in Ids /\ row \in Rows
      /\ UNCHANGED <<agent, created, op, deleting, faults>>
    BY DEF SnapshotGood, Good, Typed, Resolve
<1>2. /\ Judgement(s) /\ \A i \in Ids \ {s.id} : rows'[i] = rows[i]
      /\ rows' \in [Ids -> Rows]
    BY ResolveJudges
<1>3. /\ \A i \in Ids : rows'[i].origin = rows[i].origin
      /\ \A i \in Ids : rows[i].status \notin NonTerminal => rows'[i].status = rows[i].status
      /\ \A i \in Ids : rows'[i].status \in Early =>
            /\ rows[i].status \in Early /\ rows'[i].job = rows[i].job
            /\ volumes'[i] = volumes[i]
      /\ \A i \in Ids : rows'[i].status \in {"READY", "RESTORING"} =>
            volumes'[i] = volumes[i] /\ (volumes[i] \in Kept \/ rows[i].status = rows'[i].status)
    BY <1>1, <1>2 DEF Judgement, Good, Typed, Early, NonTerminal
<1>4. /\ volumes' \in [Ids -> Volumes]
      /\ \A i \in Ids :
            \/ volumes'[i] = volumes[i]
            \/ volumes'[i] = "none" /\ rows'[i].status = "FAILED"
      /\ \A i \in Ids : jobs[i].phase \in Alone /\ rows[i].status \in Early =>
            rows'[i].status \in Early
    BY <1>1, <1>2 DEF Judgement, Good, Typed, Volumes, Early
<1>5. /\ jobs' \in [Ids -> Jobs]
      /\ \A j \in Ids : \/ jobs'[j] = jobs[j]
                        \/ jobs'[j] = NoJob /\ jobs[j].phase \notin Running \cup Gone
      /\ \A i \in Ids : rows'[i].status \in Early => jobs'[i] = jobs[i]
  <2>1. jobs' = Needed /\ NoJob \in Jobs
    BY RestoreAssumption DEF Resolve, NoJob, Jobs, Phases
  <2>2. \A i \in Ids : rows'[i].status \in Early => rows'[i].job = i
    BY <1>3 DEF Good, RowsGood, EarlyGood
  <2>3. QED
    BY <2>1, <2>2 DEF Needed, Good, Typed, Early, NonTerminal
<1>6. Typed'
    BY <1>1, <1>2, <1>4, <1>5 DEF Good, Typed
<1>7. Fresh'
  <2>1. ASSUME NEW i \in Ids, i > created
        PROVE  rows'[i] = NoRow /\ volumes'[i] = "none" /\ jobs'[i] = NoJob
    <3>1. rows[i] = NoRow /\ volumes[i] = "none" /\ jobs[i] = NoJob
      BY <2>1 DEF Good, Fresh
    <3>2. i # s.id
      BY <2>1, <1>1 DEF Good, Typed, Ids
    <3>3. QED
      BY <1>2, <1>4, <1>5, <3>1, <3>2
  <2>2. QED
    BY <1>1, <2>1 DEF Good, Typed, Fresh, Idle
<1>8. OpGood'
    BY <1>1, <1>2, <1>4, <1>5 DEF Good, Typed, OpGood, Idle, Ids
<1>9. RowsGood'
  <2> SUFFICES ASSUME NEW i \in Ids
               PROVE  EarlyGood(i)' /\ HolderGood(i)' /\ JobGood(i)' /\ AloneGood(i)'
    BY DEF RowsGood
  <2>1. EarlyGood(i) /\ HolderGood(i) /\ JobGood(i) /\ AloneGood(i)
    BY DEF Good, RowsGood
  <2>2. EarlyGood(i)'
    BY <1>1, <1>3, <1>5, <2>1 DEF EarlyGood
  <2>3. HolderGood(i)' /\ JobGood(i)'
    BY <1>3, <1>4, <1>5, <2>1 DEF HolderGood, JobGood, NoJob
  <2>4. AloneGood(i)'
    BY <1>1, <1>4, <1>5, <2>1 DEF AloneGood, NoJob, Alone, Idle, Ids
  <2>5. QED
    BY <2>2, <2>3, <2>4
<1>10. SnapshotsGood'
  <2> SUFFICES ASSUME NEW p \in Readers, reader'[p] # Idle
               PROVE  SnapshotGood(reader[p])'
    BY DEF SnapshotsGood, SnapshotGood
  <2>1. reader'[p] = reader[p] /\ SnapshotGood(reader[p]) /\ reader[p].id \in Ids
    BY DEF Good, SnapshotsGood, SnapshotGood
  <2>2. QED
    BY <1>1, <1>3, <1>4, <1>5, <2>1 DEF SnapshotGood, NoJob, NonTerminal
<1>11. QED
    BY <1>6, <1>7, <1>8, <1>9, <1>10 DEF Good

\* A reconciliation that nothing interrupts.
LEMMA ReconcileGood == ASSUME Good, NEW i \in Ids, Reconcile(i) PROVE Good'
<1>1. PICK seen \in Judged(i) : Resolve(Snapshot(i, seen))
    BY DEF Reconcile
<1>2. rows[i].status \in NonTerminal /\ UNCHANGED reader
    BY DEF Reconcile
<1>3. Snapshot(i, seen).id = i /\ Snapshot(i, seen).seen = seen
    BY DEF Snapshot
<1>4. QED
    BY <1>1, <1>2, <1>3, JudgedGood, ResolveGood DEF Good, Typed

\* The read of one that may be overtaken.
LEMMA ObserveGood ==
    ASSUME Good, NEW p \in Readers, NEW i \in Ids, Observe(p, i) PROVE Good'
<1>1. PICK seen \in Judged(i) : reader' = [reader EXCEPT ![p] = Snapshot(i, seen)]
    BY DEF Observe
<1> DEFINE s == Snapshot(i, seen)
<1>2. /\ rows[i].status \in NonTerminal
      /\ UNCHANGED <<agent, rows, created, volumes, jobs, op, deleting, faults>>
    BY DEF Observe
<1>3. /\ s \in Snapshots /\ s # Idle /\ SnapshotGood(s) /\ s.id = i /\ s.seen = seen
      /\ i <= created
      /\ op # Free => i # op.id
      /\ jobs[i].phase \in Alone => seen = "active"
    BY <1>2, JudgedGood DEF Snapshot
<1> HIDE DEF s
<1>4. /\ reader' = [reader EXCEPT ![p] = s]
      /\ \A q \in Readers : reader'[q] = IF q = p THEN s ELSE reader[q]
    BY <1>1 DEF Good, Typed, s
<1>5. Typed'
    BY <1>2, <1>3, <1>4 DEF Good, Typed
<1>6. Fresh'
    BY <1>2, <1>3, <1>4 DEF Good, Typed, Fresh, NoRow, NonTerminal
<1>7. OpGood' /\ RowsGood'
    BY <1>2, <1>3, <1>4 DEF Good, OpGood, RowsGood, EarlyGood, HolderGood, JobGood,
       AloneGood
<1>8. SnapshotsGood'
    BY <1>2, <1>3, <1>4 DEF Good, SnapshotsGood, SnapshotGood
<1>9. QED
    BY <1>5, <1>6, <1>7, <1>8 DEF Good

\* Its write, however late.
LEMMA ResolveLateGood == ASSUME Good, NEW p \in Readers, ResolveLate(p) PROVE Good'
<1> DEFINE s == reader[p]
<1>1. /\ s \in Snapshots /\ s # Idle /\ SnapshotGood(s) /\ Resolve(s)
      /\ reader' = [reader EXCEPT ![p] = Idle]
    BY DEF Good, Typed, SnapshotsGood, ResolveLate
<1>2. /\ s.id <= created
      /\ op # Free => s.id # op.id
      /\ jobs[s.id].phase \in Alone => s.seen = "active"
    BY <1>1 DEF Good, Fresh, OpGood, RowsGood, AloneGood, SnapshotGood
<1>3. /\ reader' \in [Readers -> Snapshots]
      /\ \A q \in Readers : reader'[q] \in {reader[q], Idle}
    BY <1>1, RestoreAssumption DEF Good, Typed, Idle, Snapshots, Statuses, Seen
<1>4. QED
    BY <1>1, <1>2, <1>3, ResolveGood

-----------------------------------------------------------------------------
\* The remaining writes.

\* A row is written that keeps its Job, or that has none.
LEMMA RowWriteGood ==
    ASSUME Good, NEW i \in Ids, NEW row \in Rows, rows' = [rows EXCEPT ![i] = row],
           row.origin \in {rows[i].origin, "MANUAL"},
           rows[i].status \notin Early,
           row.status \in {rows[i].status, "FAILED", "none"},
           i <= created,
           UNCHANGED <<agent, created, volumes, jobs, op, reader, faults>>,
           deleting' \in {deleting, NotDeleting}
    PROVE  Good'
<1>1. Typed'
    BY RestoreAssumption DEF Good, Typed, NotDeleting, Deletes
<1>2. Fresh'
    BY DEF Good, Typed, Fresh, NotDeleting, Ids
<1>3. OpGood'
    BY DEF Good, Typed, OpGood, Early
<1>4. RowsGood'
    BY DEF Good, Typed, RowsGood, EarlyGood, HolderGood, JobGood, AloneGood, NotDeleting,
       Early, Ids
<1>5. SnapshotsGood'
    BY DEF Good, Typed, SnapshotsGood, SnapshotGood
<1>6. QED
    BY <1>1, <1>2, <1>3, <1>4, <1>5 DEF Good

\* A row with a status was created.
LEMMA CreatedRow == ASSUME Good, NEW i \in Ids, rows[i].status # "none" PROVE i <= created
BY DEF Good, Typed, Fresh, NoRow, Ids

\* The owed replay is done.
LEMMA ReplayGood == ASSUME Good, NEW i \in Ids, Replay(i) PROVE Good'
<1> DEFINE row == [rows[i] EXCEPT !.reapply = FALSE]
<1>1. /\ rows[i] \in Rows /\ rows[i].status = "READY"
      /\ UNCHANGED <<agent, created, volumes, jobs, op, reader, deleting, faults>>
    BY DEF Good, Typed, Replay, Owes
<1>2. rows' = [rows EXCEPT ![i] = row]
    BY DEF Good, Typed, Replay
<1>3. row \in Rows /\ row.status = rows[i].status /\ row.origin = rows[i].origin
    BY <1>1, NoReplay
<1> HIDE DEF row
<1>4. QED
    BY <1>1, <1>2, <1>3, CreatedRow, RowWriteGood DEF Early

\* A READY row whose volume is not listed is failed.
LEMMA FailMissingGood == ASSUME Good, NEW i \in Ids, FailMissing(i) PROVE Good'
<1> DEFINE row == Written("fail", rows[i])
<1>1. /\ rows[i] \in Rows /\ rows[i].status = "READY"
      /\ rows' = [rows EXCEPT ![i] = row]
      /\ UNCHANGED <<agent, created, volumes, jobs, op, reader, deleting, faults>>
    BY DEF Good, Typed, FailMissing
<1>2. row = [rows[i] EXCEPT !.status = "FAILED", !.job = 0, !.reapply = FALSE]
    BY DEF Written
<1> HIDE DEF row
<1>3. row \in Rows /\ row.status = "FAILED" /\ row.origin = rows[i].origin
    BY <1>1, <1>2, ResetRow DEF Statuses
<1>4. QED
    BY <1>1, <1>3, CreatedRow, RowWriteGood DEF Early

\* delete_restore_point: the row goes;
LEMMA DeleteRowGood == ASSUME Good, DeleteRow PROVE Good'
<1>1. /\ rows' = [rows EXCEPT ![deleting.id] = NoRow]
      /\ deleting' = NotDeleting
      /\ UNCHANGED <<agent, created, volumes, jobs, op, reader, faults>>
    BY DEF DeleteRow
<1>2. /\ deleting.id \in Ids /\ deleting.id <= created
      /\ rows[deleting.id].status \notin Early
    BY DEF DeleteRow, Good, Typed, Deletes, Fresh, Ids, RowsGood, EarlyGood
<1>3. /\ NoRow \in Rows /\ NoRow.status = "none" /\ NoRow.origin = "MANUAL"
    BY RestoreAssumption DEF NoRow, Rows, Statuses
<1>4. QED
    BY <1>1, <1>2, <1>3, RowWriteGood

\* it was decided when it was read;
LEMMA DeleteReadsGood == ASSUME Good, NEW i \in Ids, DeleteReads(i) PROVE Good'
<1>1. /\ deleting' = [id |-> i, step |-> "volume"]
      /\ rows[i].status \in {"READY", "FAILED"} /\ i <= created
      /\ UNCHANGED <<agent, rows, created, volumes, jobs, op, reader, faults>>
    BY CreatedRow DEF DeleteReads
<1>2. deleting' \in Deletes /\ deleting'.id = i
    BY <1>1 DEF Deletes, Ids
<1>3. Typed' /\ Fresh' /\ OpGood'
    BY <1>1, <1>2 DEF Good, Typed, Fresh, OpGood, Ids
<1>4. RowsGood' /\ SnapshotsGood'
    BY <1>1, <1>2 DEF Good, RowsGood, EarlyGood, HolderGood, JobGood, AloneGood, Early,
       SnapshotsGood, SnapshotGood
<1>5. QED
    BY <1>3, <1>4 DEF Good

\* the volume goes, which counts as taken by a delete;
LEMMA DeleteVolumeGood == ASSUME Good, DeleteVolume PROVE Good'
<1>1. /\ deleting.id \in Ids /\ deleting.id <= created
      /\ rows[deleting.id].status \notin Early
      /\ UNCHANGED <<agent, rows, created, jobs, op, reader, faults>>
    BY DEF DeleteVolume, Good, Typed, Deletes, Fresh, Ids, RowsGood, EarlyGood
<1>2. deleting' \in Deletes /\ deleting'.id = deleting.id /\ deleting'.step = "row"
    BY DEF DeleteVolume, Good, Typed, Deletes
<1>3. /\ volumes' \in [Ids -> Volumes]
      /\ \A i \in Ids :
            \/ volumes'[i] = volumes[i]
            \/ i = deleting.id /\ volumes'[i] = "released" /\ volumes[i] # "none"
    BY <1>1 DEF DeleteVolume, Good, Typed, Volumes
<1>4. Typed' /\ Fresh' 
    BY <1>1, <1>2, <1>3 DEF Good, Typed, Fresh, Ids
<1>5. OpGood'
    BY <1>1, <1>2, <1>3 DEF Good, Typed, OpGood, Early
<1>6. RowsGood' /\ SnapshotsGood'
    BY <1>1, <1>2, <1>3 DEF Good, RowsGood, EarlyGood, HolderGood, JobGood, AloneGood, Kept,
       SnapshotsGood, SnapshotGood
<1>7. QED
    BY <1>4, <1>5, <1>6 DEF Good

\* or the request dies on the way.
LEMMA DeleteDiesGood == ASSUME Good, DeleteDies PROVE Good'
<1>1. /\ deleting' = NotDeleting /\ faults' \in 0..MaxFaults
      /\ UNCHANGED <<agent, rows, created, volumes, jobs, op, reader>>
    BY RestoreAssumption DEF DeleteDies, Fault, Good, Typed
<1>2. Typed' /\ Fresh' /\ OpGood'
    BY <1>1, RestoreAssumption DEF Good, Typed, Fresh, OpGood, NotDeleting, Deletes
<1>3. RowsGood' /\ SnapshotsGood'
    BY <1>1 DEF Good, RowsGood, EarlyGood, HolderGood, JobGood, AloneGood, NotDeleting, Ids,
       SnapshotsGood, SnapshotGood
<1>4. QED
    BY <1>2, <1>3 DEF Good

\* Every step keeps the invariant.
LEMMA StepGood == ASSUME Good, [Next]_vars PROVE Good'
<1>1. CASE UNCHANGED vars
    BY <1>1 DEF vars, Good, Typed, Fresh, OpGood, RowsGood, EarlyGood, HolderGood, JobGood,
       AloneGood, SnapshotsGood, SnapshotGood
<1>2. CASE Next
    BY <1>2, StartGood, StartFailsGood, StopGood, DeleteAgentGood, CaptureGood, RestoreGood,
       MarkRestoringGood, ProvisionGood, ProvisionFailsGood, OperationDiesGood, JobsGood, GoneGood,
       ResolveLateGood, ObserveGood, ReconcileGood, ReplayGood, FailMissingGood,
       DeleteReadsGood, DeleteVolumeGood, DeleteRowGood, DeleteDiesGood
    DEF Next, OperationStep
<1>3. QED
    BY <1>1, <1>2

\* The invariant holds throughout.
LEMMA AlwaysGood == Spec => []Good
BY InitGood, StepGood, PTL DEF Spec

\* RestoreAlone: a restore Job has the Agent's volume to itself, for any number of
\* restore points, reconcilers and faults.
THEOREM RestoresRunAlone == Spec => []RestoreAlone
<1>1. Good => RestoreAlone
    BY DEF Good, RowsGood, AloneGood, JobGood, RestoreAlone, IsCapture, Running, Alone
<1>2. QED
    BY <1>1, AlwaysGood, PTL

\* ReadyHasArchive: what is offered for a restore is there, or a delete took it.
THEOREM ReadyArchivesExist == Spec => []ReadyHasArchive
<1>1. Good => ReadyHasArchive
    BY DEF Good, RowsGood, HolderGood, ReadyHasArchive, Kept
<1>2. QED
    BY <1>1, AlwaysGood, PTL

-----------------------------------------------------------------------------
\* The complete safety copy. Only a judgement, a failed provisioning and a delete
\* of the Agent take a volume away.
LEMMA JudgementSpares ==
    ASSUME Good, NEW s \in Snapshots, s # Idle, SnapshotGood(s), Resolve(s),
           NEW i \in Ids, CompleteCopy(i), jobs[i].phase \notin Gone
    PROVE  volumes'[i] # "none"
<1>1. Judgement(s) /\ s.id \in Ids /\ s.seen \in Seen /\ s.status \in NonTerminal
    BY ResolveJudges DEF SnapshotGood, Snapshots
<1>2. CASE i # s.id
    BY <1>1, <1>2 DEF Judgement, Good, Typed, CompleteCopy
<1>3. CASE i = s.id
  <2>1. Verdict(s) # "fail_capture"
    BY <1>1, <1>3, VerdictFacts DEF SnapshotGood, CompleteCopy
  <2>2. QED
    BY <1>1, <1>3, <2>1 DEF Judgement, CompleteCopy
<1>4. QED
    BY <1>2, <1>3

\* SafetyCopyKept: "destroying nothing on doubt", for any number of restore points,
\* reconcilers and faults, unless the restore's Job was reclaimed as an orphan.
THEOREM SafetyCopiesSurvive == Spec => SafetyCopyKept
<1> DEFINE Spared ==
       \A i \in Ids : (CompleteCopy(i) /\ jobs[i].phase \notin Gone) =>
          volumes'[i] # "none" \/ agent' = "DELETED"
<1>1. ASSUME Good, [Next]_vars PROVE Spared
  <2> SUFFICES ASSUME NEW i \in Ids, CompleteCopy(i), jobs[i].phase \notin Gone,
                      agent' # "DELETED"
               PROVE  volumes'[i] # "none"
    OBVIOUS
  <2>0. volumes[i] = "archive"
    BY DEF CompleteCopy
  <2>1. CASE UNCHANGED volumes
    BY <2>0, <2>1
  <2>2. CASE \E j \in Ids : FillVolume(j)
    BY <1>1, <2>0, <2>2 DEF FillVolume, Filled, Good, Typed
  <2>3. CASE Provision \/ ProvisionFails \/ OperationDies
    <3>1. op # Free
      BY <2>3 DEF Provision, ProvisionFails, OperationDies, Free
    <3>2. op.id \in Ids /\ op.id # i
      BY <1>1, <2>0, <3>1 DEF Good, OpGood
    <3>3. volumes'[i] = volumes[i]
      BY <1>1, <2>3, <3>2 DEF Provision, ProvisionFails, OperationDies, Good, Typed
    <3>4. QED
      BY <2>0, <3>3
  <2>4. CASE DeleteVolume
    BY <1>1, <2>0, <2>4 DEF DeleteVolume, Good, Typed
  <2>5. CASE \E p \in Readers : ResolveLate(p)
    BY <1>1, <2>5, JudgementSpares DEF ResolveLate, Good, Typed, SnapshotsGood
  <2>6. CASE \E k \in Ids : Reconcile(k)
    BY <1>1, <2>6, JudgedGood, JudgementSpares DEF Reconcile
  <2>7. \/ UNCHANGED volumes
        \/ DeleteVolume \/ Provision \/ ProvisionFails \/ OperationDies
        \/ \E j \in Ids : FillVolume(j)
        \/ \E p \in Readers : ResolveLate(p)
        \/ \E k \in Ids : Reconcile(k)
    BY <1>1 DEF Next, vars, Start, StartFails, Stop, DeleteAgent, Capture, Restore,
       OperationStep, MarkRestoring, JobStep, CaptureSucceeds, RestoreBacksUp,
       RestoreSucceeds, CaptureFails, RestoreFails, ReclaimJob, PodEnds, Observe, Replay,
       FailMissing, DeleteReads, DeleteRow, DeleteDies
  <2>8. QED
    BY <2>1, <2>2, <2>3, <2>4, <2>5, <2>6, <2>7
<1>2. QED
    BY <1>1, AlwaysGood, PTL DEF Spec, SafetyCopyKept

-----------------------------------------------------------------------------
\* The cap on manual restore points.

\* Nothing but a capture makes a row count.
NoneCounted ==
    \A i \in Ids : rows'[i].origin = "MANUAL" /\ rows'[i].status \notin {"none",
       "FAILED"} =>
                      rows[i].origin = "MANUAL" /\ rows[i].status \notin {"none", "FAILED"}

\* The counted rows are finitely many.
LEMMA CountedFinite == IsFiniteSet(Counted) /\ Cardinality(Counted) \in Nat
<1>1. IsFiniteSet(Ids)
    BY RestoreAssumption, FS_Interval DEF Ids
<1>2. IsFiniteSet(Counted)
    BY <1>1, FS_Subset DEF Counted
<1>3. QED
    BY <1>2, FS_CardinalityType

\* A step that makes no row count keeps the cap.
LEMMA CountFalls == ASSUME ManualCount <= Cap, NoneCounted PROVE (ManualCount <= Cap)'
<1>1. Counted' \subseteq Counted
    BY DEF NoneCounted, Counted
<1>2. IsFiniteSet(Counted')
    BY <1>1, CountedFinite, FS_Subset
<1>3. Cardinality(Counted') <= Cardinality(Counted) /\ Cardinality(Counted') \in Nat
    BY <1>1, <1>2, CountedFinite, FS_Subset, FS_CardinalityType
<1>4. QED
    BY <1>3, CountedFinite, RestoreAssumption DEF ManualCount

\* A capture adds one row, after UnderCap.
LEMMA CaptureCounts == ASSUME Good, Capture PROVE (ManualCount <= Cap)'
<1>1. Counted' \subseteq Counted \cup {created + 1}
    BY DEF Counted, Capture, Good, Typed
<1>2. /\ IsFiniteSet(Counted \cup {created + 1})
      /\ Cardinality(Counted \cup {created + 1}) \in Nat
      /\ Cardinality(Counted \cup {created + 1}) <= Cardinality(Counted) + 1
    BY CountedFinite, FS_AddElement, FS_CardinalityType
<1>3. IsFiniteSet(Counted') /\ Cardinality(Counted') <= Cardinality(Counted \cup {created + 1})
    BY <1>1, <1>2, FS_Subset
<1>4. Cardinality(Counted') \in Nat
    BY <1>3, FS_CardinalityType
<1>5. Cardinality(Counted) < Cap
    BY DEF Capture, UnderCap, ManualCount
<1>6. QED
    BY <1>2, <1>3, <1>4, <1>5, CountedFinite, RestoreAssumption DEF ManualCount

\* Every step keeps the cap.
LEMMA StepCounts ==
    ASSUME Good, ManualCount <= Cap, [Next]_vars PROVE (ManualCount <= Cap)'
<1>1. CASE Capture
    BY <1>1, CaptureCounts
<1>2. CASE UNCHANGED rows
    BY <1>2, CountFalls DEF NoneCounted
<1>3. CASE \E i \in Ids, reapply \in BOOLEAN : Restore(i, reapply)
  <2>1. NoneCounted
    BY <1>3 DEF NoneCounted, Restore, NewRow, Good, Typed
  <2>2. QED
    BY <2>1, CountFalls
<1>4. CASE DeleteAgent
    BY <1>4, CountFalls DEF NoneCounted, DeleteAgent, NoRow
<1>5. CASE MarkRestoring
  <2>1. NoneCounted
    BY <1>5 DEF NoneCounted, MarkRestoring, Good, Typed, Rows
  <2>2. QED
    BY <2>1, CountFalls
<1>6. CASE ProvisionFails
  <2>1. NoneCounted
    <3>1. op # Free /\ rows' = [i \in Ids |-> Undone(i)]
      BY <1>6 DEF ProvisionFails, Free
    <3>2. QED
      BY <3>1, UndoneFacts DEF NoneCounted
  <2>2. QED
    BY <2>1, CountFalls
<1>7. ASSUME NEW s \in Snapshots, s # Idle, SnapshotGood(s), Resolve(s)
      PROVE  (ManualCount <= Cap)'
  <2>1. NoneCounted
    BY <1>7, ResolveJudges DEF NoneCounted, Judgement, NonTerminal
  <2>2. QED
    BY <2>1, CountFalls
<1>8. CASE \E p \in Readers : ResolveLate(p)
    BY <1>7, <1>8 DEF ResolveLate, Good, Typed, SnapshotsGood
<1>9. CASE \E i \in Ids : Reconcile(i)
    BY <1>7, <1>9, JudgedGood DEF Reconcile
<1>10. CASE \E i \in Ids : Replay(i)
  <2>1. NoneCounted
    BY <1>10, NoReplay DEF NoneCounted, Replay, Good, Typed
  <2>2. QED
    BY <2>1, CountFalls
<1>11. CASE \E i \in Ids : FailMissing(i)
  <2>1. NoneCounted
    BY <1>11 DEF NoneCounted, FailMissing, Written, Good, Typed, Rows
  <2>2. QED
    BY <2>1, CountFalls
<1>12. CASE DeleteRow
  <2>1. NoneCounted
    BY <1>12 DEF NoneCounted, DeleteRow, NoRow, Good, Typed
  <2>2. QED
    BY <2>1, CountFalls
<1>13. \/ Capture \/ UNCHANGED rows \/ DeleteAgent \/ MarkRestoring \/ ProvisionFails
       \/ DeleteRow
       \/ \E i \in Ids, reapply \in BOOLEAN : Restore(i, reapply)
       \/ \E p \in Readers : ResolveLate(p)
       \/ \E i \in Ids : Reconcile(i) \/ Replay(i) \/ FailMissing(i)
    BY DEF Next, vars, Start, StartFails, Stop, OperationStep, Provision, OperationDies,
       JobStep, CaptureSucceeds, RestoreBacksUp, RestoreSucceeds, CaptureFails,
       RestoreFails, ReclaimJob, PodEnds, JobFrame, Observe, DeleteReads, DeleteVolume, DeleteDies
<1>14. QED
    BY <1>1, <1>2, <1>3, <1>4, <1>5, <1>6, <1>8, <1>9, <1>10, <1>11, <1>12, <1>13

\* TypeOK: the types, and the cap that _assert_capturable keeps.
THEOREM TypesAndCap == Spec => []TypeOK
<1>1. Init => ManualCount <= Cap
  <2>1. Init => Counted = {}
    BY DEF Init, Counted, NoRow
  <2>2. QED
    BY <2>1, FS_EmptySet, RestoreAssumption DEF ManualCount
<1>2. Good /\ ManualCount <= Cap => TypeOK
    BY DEF Good, TypeOK
<1>3. QED
    BY <1>1, <1>2, AlwaysGood, StepCounts, PTL DEF Spec

=============================================================================
