# Agent Barn: TLA+ verification

Agent Barn runs AI agents for organizations. The Python API (`src/api`) is the
control plane; PostgreSQL holds all durable state, Dramatiq over Redis runs
background work, Kubernetes runs one pod per Agent, and cron jobs repair what
events missed. Almost every hard behaviour has one shape: several processes share
a database row and a lossy queue, each holds a lock only for one transaction, and a
periodic pass must recover whatever a crash or a lost message left behind. The
project models that shape where it carries the most weight: **event delivery**, on
which every domain's background work rests; **workflow runs**, the most intricate
state machine built on it, with their definitions and starts; **communications**, the
way from a chat message through the Agent's pod and back; and **restore points**, where
a mistake destroys an Agent's files.

| file | what it is |
|---|---|
| `EventDelivery.tla` | the transactional outbox: publisher, workers, retries, sweep |
| `MCEventDelivery.tla`, `EventDelivery_*.cfg` | its instances for TLC |
| `EventDeliveryProofs.tla` | its theorems |
| `WorkflowRun.tla` | one workflow run: ledger, controllers, Agent sessions, callbacks |
| `MCWorkflowRun.tla`, `WorkflowRun_*.cfg` | its instances for TLC |
| `WorkflowRunProofs.tla` | its theorems |
| `RunLedger.tla`, `WorkflowRunRefinement.tla` | abstract: what a run promises, and the proof that `WorkflowRun` implements it |
| `WorkflowMaintenance.tla`, `WorkflowMaintenance_starved.cfg` | the minutely pass over all runs |
| `WorkflowStart.tla`, `.cfg`, `WorkflowStartProofs.tla` | one definition: edits, archive, starts, re-runs, retention |
| `ConversationStream.tla` | abstract: the replies of a conversation are one ordered stream |
| `CommunicationOutbound.tla`, `.cfg`, `CommunicationOutboundProofs.tla` | the outbound rows and their processors, and that they implement the stream |
| `CommunicationInbound.tla`, `.cfg`, `CommunicationInboundProofs.tla` | inbound rows, gateway and the runtime adapter in the Agent's pod |
| `RestorePoint.tla`, `.cfg`, `RestorePointProofs.tla` | restore points: requests, Jobs, reconcilers, the lifecycle lock |
| `PROJECT.json` | components, runs, mutants, map to the source, findings, hazards, theorems |

## Inventory

Line numbers are in `PROJECT.json` ("map" and "hazards"); this is the survey.

| component | state | operations | interacts through | what makes it correct |
|---|---|---|---|---|
| Event delivery (`api/domains/events`) | `event_outbox_message`, `event_delivery` | stage, publish, claim, mark, retry, dead-letter, sweep | transaction of the producer; Redis queue; cron | every staged delivery settles; one worker at a time; success only after the handler |
| Workflow runs (`api/domains/workflows`, `agent-trigger-server.py`) | `workflow_run`, `_attempt`, `_checkpoint`, `_history`; `_STEPS` in the Agent | start, cancel, advance, wake, handoff, result, failure, retention | `workflow.run.changed` events; HTTP to the Agent and back; cron | one live attempt; checkpoints equal progress; fenced attempts have no effect; runs settle |
| Workflow definitions | `workflow`, `workflow_version` | create, save a version, archive | read by start | no lost edit; one run per request identity; archived is closed |
| Communications (`api/domains/communications`, `communications-runtime-adapter.py`) | connections, inbound and outbound deliveries with leases; the adapter's threads | accept, claim, reply, complete, cancel, reclaim, retry, retire | webhooks, HTTP from the pod, Redis signals | order per conversation, bounded attempts, cancel wins, answers are not lost |
| Restore points | `agent_restore_point`, volumes, Kubernetes Jobs | capture, restore, delete, replay, reconcile | lifecycle lock; Job status polling; cron | a restore has the volume to itself; READY has an archive; nothing blocks for ever |
| Artifacts | records, references, object store | reserve, upload, reference, release, purge | object store; workflow settlement | nothing referenced is purged; purge eventually frees |
| File sync, sync provider | rules, cursors, file state | pull, push, resolve | provider APIs | no lost update between the two sides |
| Billing and costs | budgets, spend snapshots | sync, alert, reconcile keys | LiteLLM | a budget is enforced after a crash |
| Agents | `agent`, pods, secrets | create, start, stop, delete | Kubernetes | database and cluster converge |
| Playbooks | extraction rows | enqueue, extract | second Dramatiq actor | an extraction ends |
| Organizations, users, roles, API keys, skills, templates | CRUD rows | CRUD | request scope | database constraints |
| UI, Helm charts, base images, e-mail worker | none | - | HTTP | - |

The hard behaviours are concurrency (event workers, cron jobs and requests on one
row), failure between two transactions, unacknowledged HTTP calls in both
directions, time limits that race late answers, and bounded batches.

## EventDelivery

One row per (event, handler) goes `PENDING`, `ENQUEUED`, `PROCESSING` and then
`SUCCEEDED` or `DEAD_LETTERED`. The variables are the table (`row`), the order of
the outbox, what each request has still to publish (`todo`, `sent`), the queue as a
count of each message, and each worker's registers (`pc`, `msg`, `mark`, `snap`).

* **Publisher.** `Stage` is the producer's transaction; `DispatchSend` and
  `DispatchMark` are the two halves of one turn of `enqueue_immediate`, in the code's
  order: publish first, mark afterwards.
* **Worker.** `Receive*` is `process()` up to the claim, `Claim`/`ClaimRefused`
  is `claim_delivery`, `Handler*` the handler's three ways to end. A mark is two
  steps, `MarkLoad` and `MarkCommit`, because `mark_delivery_succeeded`,
  `..._retryable_failure` and `..._dead_lettered` read the row without a lock.
  SQLAlchemy writes only columns that differ from what it loaded: `Flush` says so, and
  `MarkRejected` is the case where the mixture would break the table's CHECK.
* **Dramatiq** (external) is what the code relies on: `AfterRaise` retries up to
  `MaxRetries` and then sends the retry-exhausted callback; `Redeliver` and `Lose`
  cover at-least-once delivery and a lost message.
* **Sweep.** `ReconcileClaim` flips one bounded batch of the oldest stuck rows,
  `ReconcilePublish` publishes each, `ReconcileFails` drops some.
* **Time** is a timestamp that turns from `fresh` to `stale` at any moment.
  `ClaimOverruns` is a live worker that takes longer than the staleness limit.

`handled` and `disturbed` are history variables; no action reads them. `disturbed`
records the two ways in which the code takes a claim from a live worker, so that the
exclusion property can be stated exactly for everything else.

## WorkflowRun

The ledger's columns are variables (`run_state`, `revision`, `next_step`,
`generation`, `settled_at`, `checkpoint`, `attempt_state`, `step_index`,
`dispatched`, `overdue`). An attempt is its generation. Every repository method
locks the run, so it is one step; `advance()` is split into its four outcomes
(`AdvanceReturns`, `AdvanceCloses`, `AdvanceFences`, `AdvanceStarts`), whose guards
are the method's conditions in its order.

* **Controllers.** `wake()` is `Wake` (inspect and advance), `Inspect` (the unlocked
  read everything after acts on), then either `SendStop` and `ConfirmStop`, or one of
  the `Send*` outcomes and `MarkDispatched`. The second inspection reads the run and
  then the attempt; treating the two reads as one loses nothing, because a change
  between them either makes `wake()` return or has the effect of the same change
  just after both.
* **Agent.** `session[g]` is the trigger server's thread for attempt g. Its entry in
  `_STEPS` exists exactly while the session is neither `none` nor `ended` (`HeldBy`).
* **Callbacks** are messages in `calls` that may be delayed, lost (`LoseCall`) or
  repeated (`PostAgain`); a post that raised is reported as a failure even if it was
  accepted (`PostRaises`). A post about an attempt that is no longer `REASONING` can
  have no effect and is answered at once (`Posted`).
* **fail()** of a retryable failure is two transactions: `FailRetryable`, `Recover`.
* **Environment.** `agent` is `available`, `withdrawn` (stopped, or the initiator
  lost authority) or `deleted`.

`RunLedger` is what a run promises to those who start and cancel it, without any of
these processes: attempts hold the run one at a time (`Admit`), only the holder's result
is taken and only while its admission is open (`Deliver`), a holder is dropped for a
retry, for good, for a person or for a cancellation (`Drop`), a run is lost to timeouts
only when all its attempts are used, and a held, cancelling or settled run makes no
progress. The mapping (`PhaseOf`, `Holder`, `Closing`) takes the live attempt as the
holder and counts the attempts of the next step.

`WorkflowMaintenance` keeps of a run only what the batch can tell apart and adds what
one run cannot show: the order by `updated_at` and the limit.

## WorkflowStart

A start is decided twice: `FirstCheck` is `_start` up to `repository.start`, which reads
without locks; `Commit`, `CommitFinds` and `GivesUp` are `repository.start`, which decides
again with the Agent, the definition and the source run locked. `Asks` is what
`start_hash` covers: the version of a start, only the source of a re-run. The hash also
covers the person who asks; all clients of an instance act for one person, and another
person's request under the same identity is answered like any other different ask, with a
conflict. A version
records the version its author had read, so a lost edit is visible in the state.
`answers` is history. The Agent's status and the inputs' validity are refusals that
change nothing, so they are `GivesUp` or no step.

## Communications

One conversation is one ordering key of one connection; every guard that looks at other
rows looks only at those.

* **ConversationStream** is the promise: a reply is queued once, and replies are shown in
  the order in which they were queued.
* **CommunicationOutbound.** `Reply` is `enqueue_runtime_reply`; `Claim` is
  `claim_next_outbound` whole (reclaim of expired leases, then the claim), `Send`,
  `Unsendable` and `SendFails` are the three ways through `process_one`'s try block, and
  `Complete`/`CompleteTooLate` is `complete_outbound`. `SendOverruns` lets a lease expire
  under a live sender, `Die`/`Replace` is a replica. The provider (external) shows a
  message when `send` reaches it, also when the answer is lost; `shown` records first
  appearances. Rows are appended in commit order, which is taken to be the order of
  `created_at`.
* **CommunicationInbound.** The gateway's transactions are operators on a row
  (`Completed` is `_apply_completion`); each step of the adapter is one HTTP call. The
  delivery worker claims; under Hermes it hands the message to a run thread, to a waiting
  approval, or answers with a notice; under OpenClaw it blocks for the turn. `pending`
  is `_PENDING_APPROVALS`, `asked` whether the runtime really waits: the two differ
  between `SubmitApproval` and `ResolveApproval`, and after a timeout. Outbound rows
  that are `PROCESSING` also hold inbound claims back; they only delay them.

## RestorePoint

A row is a number; a Job has the number of the row it was created with (a restore's Job
that of its safety copy). Requests under the lifecycle lock that commit more than once
are several steps (`Restore`, `MarkRestoring`, `Provision`), with `op` for the request
that holds the lock. `Judged` is what `_reconcile_row` reads of the Job, `Verdict` the
write it chooses, `From` the condition of that write, `Written` its effect. A reader is
uninterrupted (`Reconcile`) or overtaken between read and write (`Observe`,
`ResolveLate`), as the code's status-only conditions allow. `delete_restore_point` takes
no lock, so it is three steps. The CronJob's pass is `Observe`/`ResolveLate` for the
rows it claims, `FailMissing` for READY rows without a listed volume, and `ReclaimJob` for
Jobs whose label (`Label`: of a restore, the id of its target) has no row. A reclaimed Job
is `Gone`: a reader finds it missing, while its pod, if it had one, goes on until `PodEnds`.
Assumed: provisioning ends within the 60 s grace that `_resolve_untracked` gives it; a
Kubernetes call that failed had no effect; the ttl of a finished Job takes nothing from a
row that still needs it (the CronJob looks every ten minutes, the ttl is an hour). The
reclaim waits until a Job is 1800 s old; the model lets it come at any time. That loses
nothing that matters here: the time limit of a restore is 1800 s by default and up to
7200 s, and a row whose Job is still running is claimed only every 900 s.

## Runs

| run | instance | asks |
|---|---|---|
| `event_safety` | 1 delivery, 2 workers, 1 retry, 2 faults | `TypeOK`, `RowConsistent`, `SucceededMeansHandled`, `ClaimExclusive`, `SuccessNotReprocessed` |
| `event_settles` | 1 delivery, 1 worker, 1 retry, 3 faults, fair | `EveryDeliverySettles` under crashes and losses |
| `event_final` | 1 delivery, 2 workers, 3 faults | `TerminalIsFinal`, violated |
| `workflow_retries` | 1 step, 2 attempts, 1 controller, results and failures, 1 fault, fair | `TypeOK`, `OnlyCurrentAttemptLive`, `SettledMeansFinished`, `AttemptBudget`, `NoProgressOnceHeld`, `RunImplementsLedger` (refinement), `RunSettlesOrParks`, `CancellationCompletes` |
| `workflow_steps` | 2 steps, 2 controllers, results met and unmet | `CheckpointsMatchProgress`, `RevisionTracksProgress` |
| `workflow_sent` | 1 step, 2 controllers | `AttemptStartedOnce`, violated |
| `maintenance_starved` | 2 runs, batch of 1, fair | `MissedWakeupsRecovered`, violated |
| `workflow_start` | 2 clients, 2 request identities, 3 versions, 2 runs | `TypeOK`, `OneRunPerRequest`, `SavesSeeLatest`, `ArchivedIsClosed`, `RetentionHonoured` |
| `comm_outbound` | 3 replies, 2 processors, 2 attempts, 3 faults, fair | `TypeOK`, `SucceededWasShown`, `RepliesInOrder` (refinement), `DeliveredStaysDelivered`, `RepliesSettle` |
| `comm_inbound` | 2 messages, both runtimes, 2 attempts, 2 events, 1 fault, fair | `TypeOK`, `AnswerQueued`, `CancelWins`, `SettledStaysSettled`, `MessagesSettle` |
| `restore_points` | 3 rows, cap of 1, 1 overtaken reader, 2 faults, fair | `TypeOK`, `RestoreAlone`, `ReadyHasArchive`, `SafetyCopyKept`, `OperationsResolve` |
| `restore_reclaimed` | 2 rows, 1 overtaken reader, no fault | `CompleteCopyKept`, violated |

**Bounds.** `MaxFaults` limits crashes, losses, duplicates and overruns together; two
are enough for a fault during the recovery from another. `MaxCopies` and `AttemptCap`
saturate counters of which only "none, one, more" matters. The event runs have one
delivery: rows meet only in the sweep's batch, and two deliveries with a fault are more
than TLC finishes in five minutes. What that leaves unchecked is the limit of the batch.
A row that is swept is no candidate until its new timestamp is stale, so a full batch of
rows hides newer ones only as long as all of them keep losing their messages.
In `comm_outbound` one reply can be stuck, retried or dead-lettered while the next waits;
in `comm_inbound` one message can run while the next answers its approval. Three restore
points are what one capture, its restore (with the safety copy) and a further operation
need.
Workers, and controllers in `workflow_steps`, are interchangeable (symmetry); no
liveness run uses symmetry. The theorems remove the bounds for every safety property and both refinements.
`CHECK_DEADLOCK FALSE` everywhere: a settled system stops.

**Fairness.** `EventDelivery`: a request goes on enqueueing, a worker goes on with its
message, the cron job runs, time passes. Faults are never fair and end with the
budget, so the property is "once faults stop". `WorkflowRun`: `wake()` is called again
and again (the cron job runs every minute, `concurrencyPolicy: Forbid`), a controller
inside `wake()` goes on, deadlines pass. Nothing is assumed of the Agent, its
callbacks or event delivery. That every active run is woken holds while fewer than
100 runs are parked: `maintenance_starved` shows what happens otherwise.
`CommunicationOutbound`: a living replica's loop goes on, leases and backoffs end; nothing
is assumed of operators, and `RepliesSettle` exempts the case that no replica lives. `CommunicationInbound`: the worker polls
every five seconds, calls return (they have timeouts), the runtime ends runs and approval
waits; `MessagesSettle` speaks of an Agent that in the end runs. `RestorePoint`: a
request that holds the lock goes on, Jobs end by their deadline, reconciliation is
repeated (cron).

**Mutants.** Each property of a passing run has a mutant of a mapped definition, kept
beside it and marked "Mutant of": a dropped guard, a missing timestamp, an off-by-one,
a missing case of the sweep. TLC finds the property violated for each.

## Findings

1. **A terminal delivery is not final** (`event_final`). The three unlocked marks
   overwrite any status. A retry-exhausted callback dead-letters a delivery another
   copy of the message completed; a worker that overran can turn `SUCCEEDED` back into
   `ENQUEUED`. `docs/features/domain-events.md:28-29,136` say otherwise.
   `SuccessNotReprocessed` states what does hold.
2. **An attempt can be started twice** (`workflow_sent`). Two concurrent wakes both
   see `dispatched_at` null, and the trigger server forgets an attempt when its session
   ends. `docs/features/agent-workflows.md:316` and `run_models.py:85` say otherwise.
   The second session's results are fenced; its tool calls are not.
3. **Parked runs starve the maintenance pass** (`maintenance_starved`). `active_ids()`
   takes the 100 oldest active runs, and paused or blocked ones are never written
   again; `docs/features/agent-workflows.md:315` promises recovery every minute.
4. **A complete safety copy can be released** (`restore_reclaimed`). A restore's Job is
   labelled with its target's id. `delete_restore_point`, which takes no lock, can read the
   target READY and delete its row after the restore was provisioned; half an hour later
   `_reclaim_orphans` deletes the Job (`reconciliation.py:257`), the Pre-Restore row that
   still names it is judged missing, and `_fail_capture` deletes its volume. If the
   extraction had begun, the Agent's files are lost with it. `_resolve_untracked`
   (`service.py:318`) says such a volume was never finished, and
   `docs/architecture/runtime-and-deployment.md:291` that only what no row owns is
   reclaimed. `SafetyCopyKept` states what does hold: no copy is released while its Job
   has not been reclaimed. The pod of a reclaimed Job also has its termination grace, in
   which the Agent can be started beside it; `RestoreAlone` is about Jobs that were not
   reclaimed.

Noticed on the way, without a run:

* The second transaction of `fail()` names the run and not the attempt
  (`run_repository.py:481`): after a delay it can stop a newer attempt whose session
  runs, against the comment at `:480`. The ledger stays consistent, an attempt is wasted.
* Progress lines and the final answer take their idempotency suffix from one frame
  counter that starts again with every attempt (`communications-runtime-adapter.py:630,640`),
  and `enqueue_runtime_reply` returns the existing row for a known key. In verbose mode
  the answer of a retried run can carry the key of a progress line of the first try: it
  is dropped, and the message succeeds unanswered. With `Verbose = TRUE` TLC finds
  `AnswerQueued` violated (one message, two attempts, no fault); the run and the theorem
  take `Verbose = FALSE`. Approval prompts were taken off that counter for this reason
  (`docs/features/communications/CHANGELOG.md:367`).
* `resolve_pending_approval` drops whatever entry the session has after its HTTP call
  (`:446`), so it can drop that of a newer request; the run is then parked although
  nothing will take the next message for an answer, until the runtime gives up waiting.
* Restore points: the wait for the Agent's pod to go ends before the lock is taken; a
  capture Job is allowed a second pod, but `status.failed` of the first already fails the
  row and releases the volume the second one writes; a stale volume listing fails a
  healthy READY row; with the CronJob off, a restore Job reaped by its ttl before anyone
  reads it is judged missing and the complete safety copy is released
  (`restore_points/service.py:313`).
* Managed updates (not modelled): the rollback's wait for its restore gives up after the
  same time as the Job's own deadline. If it gives up first, `reopen_failed_restore` finds
  the row still RESTORING and does nothing, and the reconciler's later FAILED is never
  reopened, although `_mark_update_failed` leaves the Agent for a restore by hand.

Documentation: `docs/features/domain-events.md:138` says a
retryable failure leaves the delivery `PROCESSING`, while the code writes `ENQUEUED`
(with a comment saying why); `agent-workflows.md` says each transition stages an event,
while the commit that makes an attempt `STOPPING` stages none.

## Proofs

Every theorem holds for every value of the constants that satisfies the named
assumptions `DeliveryAssumption`, `WorkflowAssumption`, `StartAssumption`,
`OutboundAssumption`, `InboundAssumption` and `RestoreAssumption`, which only say that counts are natural
numbers, that limits the code has are positive and that needed sets are not empty.

**EventDeliveryProofs.** `TypeOK` is inductive with `Busy` (a worker that is not idle
holds a message). `OnlyStaged` adds that nothing refers to a row before `Stage`, so
`Stage` never overwrites a live row. Two lemmas then carry the rest: `RowEffects`
lists all ways in which any step of any process can write one row, and
`WorkerEffects` all ways in which a worker can move; each is proved action by action
once, and the theorems reason about the lists. `RowsStayConsistent` follows from
`MarkedRow`: an unlocked mark changes the status only to the one it assigns, together
with its timestamp, and the CHECK excludes the remaining mixtures.
`SuccessWasHandled` needs `HandledBeforeMarked`; `ClaimsExclude` needs
`HeldNotClaimable`: while an undisturbed claim is held, the row is `PROCESSING` with a
fresh claim, or was dead-lettered, so it cannot be claimed. `SuccessIsNotReprocessed`
follows from the same fact.

**WorkflowRunProofs.** `LedgerSteps` shows that any step of the system changes the
ledger in one of ten ways (`LedgerStep`); the invariants are proved over these. The
invariant `Inv` is `LedgerOK` (the ledger's types, `OnlyCurrentAttemptLive`,
`SettledMeansFinished`, and that only settled content expires: none is inductive
without the others), `ProcessType` and `ControllerType` (a controller past its
inspection has a real attempt as target). `FenceOutcome` is the case analysis of what
`advance()` may decide. `AttemptBudget` needs the stronger `BudgetOK`: a queued run
has room for one more attempt of its next step, and no attempt is for a later step.
`RevisionIsFaithful` needs that an unstarted run has revision 0.

**WorkflowRunRefinement.** `ImplementsLedger` maps each of the ten ways in which the
ledger changes to a step of `RunLedger`, one lemma each; `FailRetryable`, the first half
of a retryable failure, is a stutter. Beside `Inv` and `BudgetOK` it needs
`AbsentIsEmpty`: a run that was never started has no attempt, so that no controller or
recovery can reach it (`FromAbsent`). `RetryOutcome` is the fact the promise hinges on:
`advance()` retries or fails a run only with a live attempt of a running run, and fails
it only when the attempts of the step are used up.

**WorkflowStartProofs.** The invariant adds to the types that a request past its first
check asks for something real, and that an editor's revision is never ahead of the
definition's, nor its version behind when the revisions agree: that is why a save that
passes the revision check extends the latest version.

**CommunicationOutboundProofs.** `ImplementsStream` shows the refinement. The invariant is
a chain: `KeysDistinct` (one row per key), `ShownPrefix` (what was shown is a prefix of
what was queued), `SucceededShown`, `HeldBehindSucceeded` (whoever
holds a row, however stale its claim, has only SUCCEEDED rows ahead of it), `WorkingHolds`, `AnswerShown` (a message id
in a processor's hands means that its row was shown, however late it is reported) and
`CancelledMeansRetired`. A send then either repeats a shown key or shows exactly the next
one.

**CommunicationInboundProofs.** `RowsGood` (a row that can be claimed has attempts left; a
stop request leaves a row only PROCESSING or CANCELLED) carries `CancellationWins` and the
attempt limit; `ClosingAnswered` (whoever is about to report success has queued a
reply) and `RepliesGood` (without verbose mode every recorded reply is an answer) carry
`AnswersReachQueue`, which assumes `~Verbose`.

**RestorePointProofs.** Readers write on the strength of an old read, under a condition on
the row's status alone, so the invariant `Good` has to say why such a write does no harm.
`EarlyGood`: a row whose own Job is undecided names that Job, is not being deleted, and
its volume is as full as the Job's phase says. `AloneGood`: a Job on its first pod keeps
its own row undecided; that row blocks the Agent, so nothing starts and no operation takes
the lock, and no reader holds anything that could decide it, because all that can be seen
of such a Job is "active". `OpGood`: a request that holds the lock has a row, volume and
Job number that no reader has seen. `SnapshotGood`: a success that was seen still finds
the archive, or a row that takes no write; a failure that would release a volume
("missing", "backup_failed") finds no archive in it and no Job that could still make one;
"failed" is only ever seen of a manual capture. Of a Job that was reclaimed (`Gone`)
`EarlyGood` and `SnapshotGood` say nothing, which is why `SafetyCopiesSurvive` excepts it
and `ReadyArchivesExist` does not need to: such a row is only ever failed, or made READY by
a reader that saw the Job succeed. `RestoresRunAlone` follows from
`AloneGood`, `ReadyArchivesExist` from `HolderGood`, `SafetyCopiesSurvive` (an action
property) from the list of what a write can do to a volume (`ResolveJudges`,
`JudgementSpares`). `TypesAndCap` adds the cap: only a capture makes a row count, and it
checks the count under the lock that keeps other captures out.

**Only model-checked**: the liveness properties `EveryDeliverySettles`,
`RunSettlesOrParks`, `CancellationCompletes`, `RepliesSettle`, `MessagesSettle` and
`OperationsResolve` (fairness is out of the prover's reach). Every invariant, action
property and refinement that a passing run checks is a theorem. The violated properties
are shown by their counterexamples.

## Not modelled, and the plan

Not modelled: payloads, history text, authorization rules (an environment choice here),
artifact references of checkpoints, managed updates of Agents (their captures and
restores take another path through the restore points), provisioning details, the
operational journal and diagnostics of communications, the platform plugins, the shared
Telegram bot, and the components marked `not_modelled` in `PROJECT.json`. Most of the
repository by lines is of that kind: requests that read or write one row in one
transaction, schemas, builders of Kubernetes objects, provider clients and the UI. The
project covers the state machines that several processes share.

Next, in this order:

1. Managed updates in `RestorePoint`, with `Good` extended to their captures and
   restores.
2. `ArtifactStore` (reserve, upload, reference, release, purge), `FileSync`, budgets,
   playbook extraction, and the invocation journal of the trigger server.
3. An abstract at-least-once promise for `EventDelivery`, stated as a specification, with
   the disturbed cases as explicit steps of it.
