--------------------------- MODULE EventDelivery ---------------------------
(***************************************************************************)
(* The transactional outbox of api/domains/events: one event_delivery row   *)
(* per (event, handler), moved through                                      *)
(*     PENDING -> ENQUEUED -> PROCESSING -> SUCCEEDED | DEAD_LETTERED        *)
(* by four kinds of process that share only the row and the queue:          *)
(*   - the API request that stages the rows and enqueues them best-effort,  *)
(*   - the Dramatiq workers that claim a row, run its handler and mark it,  *)
(*   - Dramatiq's retry and retry-exhausted machinery (external),           *)
(*   - the reconciliation cron job that republishes what looks stuck.       *)
(*                                                                         *)
(* A database transaction that takes the row lock is one step.  The three   *)
(* mark_delivery_* writes that a worker makes after its handler take no      *)
(* lock: they are two steps, a SELECT (MarkLoad) and an UPDATE (MarkCommit)  *)
(* that writes only the columns that differ from what was selected.          *)
(*                                                                         *)
(* Time is abstract: a timestamp column is "null", "fresh" or "stale", and  *)
(* turns stale (past the threshold the code compares it with) at any moment. *)
(***************************************************************************)
EXTENDS Naturals, Sequences, FiniteSets

CONSTANTS
    Events,        \* the domain events that may be staged
    Handlers,      \* the handlers registered for them
    Workers,       \* Dramatiq worker threads
    Verdicts,      \* the reasons for which _validate_handler may refuse here
    MaxRetries,    \* EVENT_DELIVERY_MAX_RETRIES
    BatchSize,     \* EVENT_DELIVERY_RECONCILIATION_BATCH_SIZE
    MaxCopies,     \* bound: identical messages in the queue, saturating
    AttemptCap,    \* bound: where the modelled attempt_count saturates
    MaxFaults      \* bound: crashes, losses, errors and overruns per behaviour

ValidationReasons == {"INVALID_DELIVERY", "UNKNOWN_HANDLER", "UNSUPPORTED_EVENT"}

ASSUME DeliveryAssumption ==
    /\ Verdicts \subseteq ValidationReasons
    /\ MaxRetries \in Nat
    /\ BatchSize \in Nat \ {0}
    /\ MaxCopies \in Nat \ {0}
    /\ AttemptCap \in Nat \ {0}
    /\ MaxFaults \in Nat

\* Event Delivery identity is (event_id, handler_name).
Deliveries == Events \X Handlers

Terminal == {"SUCCEEDED", "DEAD_LETTERED"}
Statuses == {"ABSENT", "PENDING", "ENQUEUED", "PROCESSING"} \cup Terminal
Reasons == ValidationReasons \cup {"TERMINAL_HANDLER_ERROR", "RETRY_EXHAUSTED"}
Stamps == {"null", "fresh", "stale"}
Nullable == {"null", "set"}    \* a column of which only IS NULL is kept

\* The columns of event_delivery that the lifecycle reads or writes.
Rows == [status : Statuses,
         attempt_count : 0..AttemptCap,
         last_error : Nullable,
         dead_letter_reason : Reasons \cup {"none"},
         created_at : Stamps,
         enqueued_at : Stamps,
         claimed_at : Stamps,
         completed_at : Nullable]

NoRow == [status |-> "ABSENT", attempt_count |-> 0, last_error |-> "null",
          dead_letter_reason |-> "none", created_at |-> "null",
          enqueued_at |-> "null", claimed_at |-> "null", completed_at |-> "null"]

\* A queued call of event_delivery_actor, with Dramatiq's retry counter, or
\* of event_delivery_retry_exhausted.
ProcessMessage(d, n) == [id |-> d, actor |-> "process", retries |-> n]
ExhaustedMessage(d) == [id |-> d, actor |-> "exhausted", retries |-> MaxRetries]
Messages == [id : Deliveries, actor : {"process", "exhausted"}, retries : 0..MaxRetries]

\* What a worker is about to write: a success, a retryable failure, or a
\* dead-letter reason.
Marks == {"SUCCEEDED", "RETRYABLE"} \cup Reasons

VARIABLES
    row,        \* the event_delivery table
    outbox,     \* the events staged, in created_at order
    todo,       \* per event: deliveries enqueue_immediate has still to send
    sent,       \* per event: the delivery sent and not yet marked ENQUEUED
    queue,      \* how many copies of each message the broker holds
    pc,         \* where each worker is in process()
    msg,        \* the message each worker holds, unacknowledged until the end
    mark,       \* the mark each worker is writing
    snap,       \* the row as the worker's session loaded it
    claimed,    \* rows the running reconciler flipped and has not published
    faults,     \* faults so far
    handled,    \* history: deliveries whose handler returned normally
    disturbed   \* history: deliveries whose claim was pulled from a live worker

workerVars == <<pc, msg, mark, snap>>
dispatchVars == <<outbox, todo, sent>>
historyVars == <<handled, disturbed>>
vars == <<row, dispatchVars, queue, workerVars, claimed, faults, historyVars>>

NoMessage == [id |-> <<"none", "none">>, actor |-> "none", retries |-> 0]

Init ==
    /\ row = [d \in Deliveries |-> NoRow]
    /\ outbox = <<>>
    /\ todo = [e \in Events |-> {}]
    /\ sent = [e \in Events |-> {}]
    /\ queue = [m \in Messages |-> 0]
    /\ pc = [w \in Workers |-> "idle"]
    /\ msg = [w \in Workers |-> NoMessage]
    /\ mark = [w \in Workers |-> "SUCCEEDED"]
    /\ snap = [w \in Workers |-> NoRow]
    /\ claimed = {}
    /\ faults = 0
    /\ handled = {}
    /\ disturbed = {}

-----------------------------------------------------------------------------
\* Helpers.

\* Every fault is paid for out of one budget.
Fault == faults < MaxFaults /\ faults' = faults + 1

Put(q, m) == [q EXCEPT ![m] = IF @ < MaxCopies THEN @ + 1 ELSE @]
Take(q, m) == [q EXCEPT ![m] = @ - 1]

\* What Dramatiq does with message m when its actor raises: re-enqueue it with
\* one more retry, or send the retry-exhausted callback.  The callback itself
\* has max_retries=0 and is dropped.
AfterRaise(q, m) ==
    IF m.actor = "exhausted" THEN q
    ELSE IF m.retries < MaxRetries THEN Put(q, ProcessMessage(m.id, m.retries + 1))
    ELSE Put(q, ExhaustedMessage(m.id))

\* Worker w has claimed delivery d and has not yet written how it ended.
HandlerMarks == {"SUCCEEDED", "RETRYABLE", "TERMINAL_HANDLER_ERROR"}
Holds(w, d) ==
    /\ msg[w].id = d
    /\ \/ pc[w] = "handle"
       \/ pc[w] \in {"load", "commit"} /\ mark[w] \in HandlerMarks
Held(d) == \E w \in Workers : Holds(w, d)

\* Back to waiting for a message.  The registers a worker no longer reads are reset.
Idle(w) ==
    /\ pc' = [pc EXCEPT ![w] = "idle"]
    /\ msg' = [msg EXCEPT ![w] = NoMessage]
    /\ mark' = [mark EXCEPT ![w] = "SUCCEEDED"]
    /\ snap' = [snap EXCEPT ![w] = NoRow]

\* Mutant of Enqueued: the timestamp the sweep compares is not written.
EnqueuedUndated(r) == [r EXCEPT !.status = "ENQUEUED",
                                !.dead_letter_reason = "none", !.completed_at = "null"]

\* The ENQUEUED row that mark_delivery_enqueued and the reconciler write.
Enqueued(r) == [r EXCEPT !.status = "ENQUEUED", !.enqueued_at = "fresh",
                         !.dead_letter_reason = "none", !.completed_at = "null"]
-----------------------------------------------------------------------------
\* The API request.

\* Mutant of PendingRow: the status default is missing.
PendingRowNoDefault == [NoRow EXCEPT !.status = "null", !.created_at = "fresh"]

\* build_deliveries: a new row, with the column defaults.
PendingRow == [NoRow EXCEPT !.status = "PENDING", !.created_at = "fresh"]

\* create / stage: the outbox message and one PENDING delivery per handler, in
\* the transaction of the business change.  The request then enqueues them.
Stage(e) ==
    /\ e \notin {outbox[i] : i \in 1..Len(outbox)}
    /\ outbox' = Append(outbox, e)
    /\ row' = [d \in Deliveries |->
                 IF d[1] = e THEN PendingRow ELSE row[d]]
    /\ todo' = [todo EXCEPT ![e] = {d \in Deliveries : d[1] = e}]
    /\ UNCHANGED <<sent, queue, workerVars, claimed, faults, historyVars>>

\* enqueue_immediate, transport.enqueue: publish before marking.
DispatchSend(d) ==
    /\ d \in todo[d[1]] /\ sent[d[1]] = {}
    /\ queue' = Put(queue, ProcessMessage(d, 0))
    /\ todo' = [todo EXCEPT ![d[1]] = @ \ {d}]
    /\ sent' = [sent EXCEPT ![d[1]] = {d}]
    /\ UNCHANGED <<row, outbox, workerVars, claimed, faults, historyVars>>

\* Mutant of DispatchMark: the status filter of mark_delivery_enqueued is dropped.
DispatchMarkAny(d) ==
    /\ d \in sent[d[1]]
    /\ row' = [row EXCEPT ![d] = Enqueued(row[d])]
    /\ disturbed' = IF row[d].status \notin Terminal /\ Held(d)
                    THEN disturbed \cup {d} ELSE disturbed
    /\ sent' = [sent EXCEPT ![d[1]] = {}]
    /\ UNCHANGED <<outbox, todo, queue, workerVars, claimed, faults, handled>>

\* enqueue_immediate, mark_delivery_enqueued: any non-terminal row becomes
\* ENQUEUED, one that a worker is processing included.
DispatchMark(d) ==
    /\ d \in sent[d[1]]
    /\ row' = IF row[d].status \in Terminal THEN row
              ELSE [row EXCEPT ![d] = Enqueued(row[d])]
    /\ disturbed' = IF row[d].status \notin Terminal /\ Held(d)
                    THEN disturbed \cup {d} ELSE disturbed
    /\ sent' = [sent EXCEPT ![d[1]] = {}]
    /\ UNCHANGED <<outbox, todo, queue, workerVars, claimed, faults, handled>>

\* The except branch: this delivery is skipped, the loop goes on.
DispatchError(d) ==
    /\ Fault
    /\ \/ d \in todo[d[1]] /\ sent[d[1]] = {}
       \/ d \in sent[d[1]]
    /\ todo' = [todo EXCEPT ![d[1]] = @ \ {d}]
    /\ sent' = [sent EXCEPT ![d[1]] = {}]
    /\ UNCHANGED <<row, outbox, queue, workerVars, claimed, historyVars>>

\* The API process dies: nothing more of this event is enqueued.
ApiCrash(e) ==
    /\ Fault
    /\ todo[e] \cup sent[e] # {}
    /\ todo' = [todo EXCEPT ![e] = {}]
    /\ sent' = [sent EXCEPT ![e] = {}]
    /\ UNCHANGED <<row, outbox, queue, workerVars, claimed, historyVars>>
-----------------------------------------------------------------------------
\* The worker: event_delivery_actor and event_delivery_retry_exhausted.

\* process, get_delivery: a terminal delivery makes the message a no-op.
ReceiveSettled(w, d, n) ==
    /\ pc[w] = "idle" /\ queue[ProcessMessage(d, n)] > 0
    /\ row[d].status \in Terminal
    /\ queue' = Take(queue, ProcessMessage(d, n))
    /\ UNCHANGED <<row, dispatchVars, workerVars, claimed, faults, historyVars>>

\* process, get_delivery and _validate_handler passed: on to the claim.
ReceiveValid(w, d, n) ==
    /\ pc[w] = "idle" /\ queue[ProcessMessage(d, n)] > 0
    /\ row[d].status \notin Terminal
    /\ queue' = Take(queue, ProcessMessage(d, n))
    /\ pc' = [pc EXCEPT ![w] = "claim"]
    /\ msg' = [msg EXCEPT ![w] = ProcessMessage(d, n)]
    /\ UNCHANGED <<row, dispatchVars, mark, snap, claimed, faults, historyVars>>

\* process, the outbox message is missing or the handler does not support the
\* event in this worker's build: dead-letter without a claim.
ReceiveInvalid(w, d, n, reason) ==
    /\ pc[w] = "idle" /\ queue[ProcessMessage(d, n)] > 0
    /\ row[d].status \notin Terminal
    /\ queue' = Take(queue, ProcessMessage(d, n))
    /\ pc' = [pc EXCEPT ![w] = "load"]
    /\ msg' = [msg EXCEPT ![w] = ProcessMessage(d, n)]
    /\ mark' = [mark EXCEPT ![w] = reason]
    /\ UNCHANGED <<row, dispatchVars, snap, claimed, faults, historyVars>>

\* handle_retry_exhausted: dead-letter whatever the row says now.
ReceiveExhausted(w, d) ==
    /\ pc[w] = "idle" /\ queue[ExhaustedMessage(d)] > 0
    /\ queue' = Take(queue, ExhaustedMessage(d))
    /\ pc' = [pc EXCEPT ![w] = "load"]
    /\ msg' = [msg EXCEPT ![w] = ExhaustedMessage(d)]
    /\ mark' = [mark EXCEPT ![w] = "RETRY_EXHAUSTED"]
    /\ UNCHANGED <<row, dispatchVars, snap, claimed, faults, historyVars>>

\* Mutant of Claimable: the staleness of a PROCESSING claim is not compared.
ClaimableAnyTime(r) == r.status \in {"ENQUEUED", "PROCESSING"}

\* claim_delivery's WHERE clause.  A PENDING row cannot be claimed.
Claimable(r) ==
    \/ r.status = "ENQUEUED"
    \/ r.status = "PROCESSING" /\ r.claimed_at = "stale"

\* The row claim_delivery writes.
ClaimedRow(r) ==
    [r EXCEPT !.status = "PROCESSING",
              !.claimed_at = "fresh",
              !.attempt_count = IF @ < AttemptCap THEN @ + 1 ELSE @,
              !.dead_letter_reason = "none",
              !.completed_at = "null"]

Claim(w) ==
    LET d == msg[w].id IN
    /\ pc[w] = "claim"
    /\ Claimable(row[d])
    /\ row' = [row EXCEPT ![d] = ClaimedRow(row[d])]
    /\ pc' = [pc EXCEPT ![w] = "handle"]
    /\ UNCHANGED <<dispatchVars, queue, msg, mark, snap, claimed, faults, historyVars>>

\* Not claimable: the message is acknowledged and gone.
ClaimRefused(w) ==
    /\ pc[w] = "claim"
    /\ ~Claimable(row[msg[w].id])
    /\ Idle(w)
    /\ UNCHANGED <<row, dispatchVars, queue, claimed, faults, historyVars>>

\* handler.handle returns.
HandlerSucceeds(w) ==
    /\ pc[w] = "handle"
    /\ handled' = handled \cup {msg[w].id}
    /\ pc' = [pc EXCEPT ![w] = "load"]
    /\ mark' = [mark EXCEPT ![w] = "SUCCEEDED"]
    /\ UNCHANGED <<row, dispatchVars, queue, msg, snap, claimed, faults, disturbed>>

\* Mutant of HandlerFailsForGood: the except branch falls through to the success mark.
HandlerFailsFallsThrough(w) ==
    /\ pc[w] = "handle"
    /\ pc' = [pc EXCEPT ![w] = "load"]
    /\ mark' = [mark EXCEPT ![w] = "SUCCEEDED"]
    /\ UNCHANGED <<row, dispatchVars, queue, msg, snap, claimed, faults, historyVars>>

\* handler.handle raises TerminalEventHandlerError.
HandlerFailsForGood(w) ==
    /\ pc[w] = "handle"
    /\ pc' = [pc EXCEPT ![w] = "load"]
    /\ mark' = [mark EXCEPT ![w] = "TERMINAL_HANDLER_ERROR"]
    /\ UNCHANGED <<row, dispatchVars, queue, msg, snap, claimed, faults, historyVars>>

\* handler.handle raises RetryableEventHandlerError or any other Exception.
HandlerFails(w) ==
    /\ Fault
    /\ pc[w] = "handle"
    /\ pc' = [pc EXCEPT ![w] = "load"]
    /\ mark' = [mark EXCEPT ![w] = "RETRYABLE"]
    /\ UNCHANGED <<row, dispatchVars, queue, msg, snap, claimed, historyVars>>

\* mark_delivery_*: session.get, without a lock.
MarkLoad(w) ==
    /\ pc[w] = "load"
    /\ snap' = [snap EXCEPT ![w] = row[msg[w].id]]
    /\ pc' = [pc EXCEPT ![w] = "commit"]
    /\ UNCHANGED <<row, dispatchVars, queue, msg, mark, claimed, faults, historyVars>>

\* A column the session assigned reaches the UPDATE only if its value changed.
Flush(loaded, assigned, now) == IF assigned = loaded THEN now ELSE assigned

\* The same for an error text, of which the model keeps only that there is one:
\* the new text may or may not be the one that was loaded.
ErrorWrites(r, s) == IF s.last_error = "set" THEN {"set", r.last_error} ELSE {"set"}

\* mark_delivery_succeeded on the current row r, loaded earlier as s.
SucceededRow(r, s) ==
    [r EXCEPT !.status = Flush(s.status, "SUCCEEDED", @),
              !.last_error = Flush(s.last_error, "null", @),
              !.dead_letter_reason = Flush(s.dead_letter_reason, "none", @),
              !.completed_at = "set"]

\* mark_delivery_retryable_failure.  completed_at is left as it is.
RetryableRow(r, s, error) ==
    [r EXCEPT !.status = Flush(s.status, "ENQUEUED", @),
              !.enqueued_at = "fresh",
              !.last_error = error,
              !.dead_letter_reason = Flush(s.dead_letter_reason, "none", @)]

\* mark_delivery_dead_lettered.
DeadLetteredRow(r, s, reason, error) ==
    [r EXCEPT !.status = Flush(s.status, "DEAD_LETTERED", @),
              !.dead_letter_reason = Flush(s.dead_letter_reason, reason, @),
              !.last_error = error,
              !.completed_at = "set"]

Marked(r, s, m, error) ==
    IF m = "SUCCEEDED" THEN SucceededRow(r, s)
    ELSE IF m = "RETRYABLE" THEN RetryableRow(r, s, error)
    ELSE DeadLetteredRow(r, s, m, error)

\* CHECK ck_event_delivery_dead_letter_reason_matches_status.
ReasonMatchesStatus(r) ==
    (r.status = "DEAD_LETTERED") <=> (r.dead_letter_reason # "none")

\* mark_delivery_*: the UPDATE.  A retryable failure is then re-raised for
\* Dramatiq to retry; every other mark acknowledges the message.
MarkCommit(w) ==
    LET d == msg[w].id IN
    /\ pc[w] = "commit"
    /\ \E error \in ErrorWrites(row[d], snap[w]) :
         LET r == Marked(row[d], snap[w], mark[w], error) IN
         ReasonMatchesStatus(r) /\ row' = [row EXCEPT ![d] = r]
    /\ queue' = IF mark[w] = "RETRYABLE" THEN AfterRaise(queue, msg[w]) ELSE queue
    /\ Idle(w)
    /\ UNCHANGED <<dispatchVars, claimed, faults, historyVars>>

\* The UPDATE would break the CHECK constraint: IntegrityError, nothing is
\* written, and the exception reaches Dramatiq.
MarkRejected(w) ==
    /\ pc[w] = "commit"
    /\ ~ReasonMatchesStatus(Marked(row[msg[w].id], snap[w], mark[w], "set"))
    /\ queue' = AfterRaise(queue, msg[w])
    /\ Idle(w)
    /\ UNCHANGED <<row, dispatchVars, claimed, faults, historyVars>>

\* Anything else that leaves process() with an exception: the database is
\* away, the injector fails, Dramatiq's time limit interrupts the handler (a
\* BaseException, which process() does not catch).
WorkerRaises(w) ==
    /\ Fault
    /\ pc[w] # "idle"
    /\ queue' = AfterRaise(queue, msg[w])
    /\ Idle(w)
    /\ UNCHANGED <<row, dispatchVars, claimed, historyVars>>

\* The worker process dies; the broker redelivers what it had not acknowledged.
WorkerCrash(w) ==
    /\ Fault
    /\ pc[w] # "idle"
    /\ queue' = Put(queue, msg[w])
    /\ Idle(w)
    /\ UNCHANGED <<row, dispatchVars, claimed, historyVars>>
-----------------------------------------------------------------------------
\* The broker (external).

\* A message is redelivered although its worker is alive, or dies only after
\* its last commit.
Redeliver(w) ==
    /\ Fault
    /\ pc[w] # "idle"
    /\ queue' = Put(queue, msg[w])
    /\ UNCHANGED <<row, dispatchVars, workerVars, claimed, historyVars>>

Lose(m) ==
    /\ Fault
    /\ queue[m] > 0
    /\ queue' = Take(queue, m)
    /\ UNCHANGED <<row, dispatchVars, workerVars, claimed, historyVars>>
-----------------------------------------------------------------------------
\* The reconciliation cron job (concurrencyPolicy: Forbid, so one at a time).

\* Mutant of Stuck: claimed rows are forgotten.
StuckNotProcessing(r) ==
    \/ r.status = "PENDING" /\ r.created_at = "stale"
    \/ r.status = "ENQUEUED" /\ r.enqueued_at = "stale"

\* The three cases of claim_reconciliation_candidates' WHERE clause.
Stuck(r) ==
    \/ r.status = "PENDING" /\ r.created_at = "stale"
    \/ r.status = "ENQUEUED" /\ r.enqueued_at = "stale"
    \/ r.status = "PROCESSING" /\ r.claimed_at = "stale"

Age(d) == CHOOSE i \in 1..Len(outbox) : outbox[i] = d[1]

\* ORDER BY created_at LIMIT BatchSize: S is a full batch of the oldest.
Batch(S) ==
    LET stuck == {d \in Deliveries : Stuck(row[d])} IN
    /\ S \subseteq stuck
    /\ S # {}
    /\ \/ S = stuck /\ Cardinality(S) <= BatchSize
       \/ Cardinality(S) = BatchSize
    /\ \A d \in S, c \in stuck \ S : Age(d) <= Age(c)

\* run_once, _load_candidates: flip the batch to ENQUEUED under the row locks.
\* A PROCESSING row is only a candidate once its claim is stale, and a stale
\* claim with a live holder was recorded as disturbed when it went stale.
ReconcileClaim(S) ==
    /\ claimed = {}
    /\ Batch(S)
    /\ row' = [d \in Deliveries |-> IF d \in S THEN Enqueued(row[d]) ELSE row[d]]
    /\ claimed' = S
    /\ UNCHANGED <<dispatchVars, queue, workerVars, faults, historyVars>>

\* _publish_candidate; the thread pool publishes in any order.
ReconcilePublish(d) ==
    /\ d \in claimed
    /\ queue' = Put(queue, ProcessMessage(d, 0))
    /\ claimed' = claimed \ {d}
    /\ UNCHANGED <<row, dispatchVars, workerVars, faults, historyVars>>

\* The transport fails, the runtime limit is reached, or the job dies.
ReconcileFails(S) ==
    /\ Fault
    /\ S # {} /\ S \subseteq claimed
    /\ claimed' = claimed \ S
    /\ UNCHANGED <<row, dispatchVars, queue, workerVars, historyVars>>
-----------------------------------------------------------------------------
\* Time: the one timestamp the sweep and the claim compare in each status.

PendingStale(r) == [r EXCEPT !.created_at = "stale"]
EnqueuedStale(r) == [r EXCEPT !.enqueued_at = "stale"]
ClaimStale(r) == [r EXCEPT !.claimed_at = "stale"]

PendingAges(d) ==
    /\ row[d].status = "PENDING" /\ row[d].created_at = "fresh"
    /\ row' = [row EXCEPT ![d] = PendingStale(row[d])]
    /\ UNCHANGED <<dispatchVars, queue, workerVars, claimed, faults, historyVars>>

EnqueuedAges(d) ==
    /\ row[d].status = "ENQUEUED" /\ row[d].enqueued_at = "fresh"
    /\ row' = [row EXCEPT ![d] = EnqueuedStale(row[d])]
    /\ UNCHANGED <<dispatchVars, queue, workerVars, claimed, faults, historyVars>>

\* The claim of a worker that died.
ClaimAges(d) ==
    /\ row[d].status = "PROCESSING" /\ row[d].claimed_at = "fresh" /\ ~Held(d)
    /\ row' = [row EXCEPT ![d] = ClaimStale(row[d])]
    /\ UNCHANGED <<dispatchVars, queue, workerVars, claimed, faults, historyVars>>

\* A worker that is still alive holds its claim for longer than
\* EVENT_DELIVERY_PROCESSING_STALE_SECONDS.
ClaimOverruns(d) ==
    /\ Fault
    /\ row[d].status = "PROCESSING" /\ row[d].claimed_at = "fresh" /\ Held(d)
    /\ row' = [row EXCEPT ![d] = ClaimStale(row[d])]
    /\ disturbed' = disturbed \cup {d}
    /\ UNCHANGED <<dispatchVars, queue, workerVars, claimed, handled>>
-----------------------------------------------------------------------------
Dispatch(d) == DispatchSend(d) \/ DispatchMark(d)

Receive(w) ==
    \E d \in Deliveries :
       \/ \E n \in 0..MaxRetries :
             \/ ReceiveSettled(w, d, n)
             \/ ReceiveValid(w, d, n)
             \/ \E reason \in Verdicts : ReceiveInvalid(w, d, n, reason)
       \/ ReceiveExhausted(w, d)

\* What a worker does unless a fault stops it.
WorkerStep(w) ==
    \/ Receive(w) \/ Claim(w) \/ ClaimRefused(w)
    \/ HandlerSucceeds(w) \/ HandlerFailsForGood(w)
    \/ MarkLoad(w) \/ MarkCommit(w) \/ MarkRejected(w)

Reconcile == \/ \E S \in SUBSET Deliveries : ReconcileClaim(S)
             \/ \E d \in Deliveries : ReconcilePublish(d)

Ages(d) == PendingAges(d) \/ EnqueuedAges(d) \/ ClaimAges(d)

Faults ==
    \/ \E e \in Events : ApiCrash(e)
    \/ \E d \in Deliveries : DispatchError(d) \/ ClaimOverruns(d)
    \/ \E w \in Workers : HandlerFails(w) \/ WorkerRaises(w) \/ WorkerCrash(w) \/ Redeliver(w)
    \/ \E m \in Messages : Lose(m)
    \/ \E S \in SUBSET Deliveries : ReconcileFails(S)

Next ==
    \/ \E e \in Events : Stage(e)
    \/ \E d \in Deliveries : Dispatch(d) \/ Ages(d)
    \/ \E w \in Workers : WorkerStep(w)
    \/ Reconcile
    \/ Faults

Spec == Init /\ [][Next]_vars

\* Every process that is not stopped by a fault runs; time passes.
Fairness ==
    /\ \A d \in Deliveries : WF_vars(Dispatch(d)) /\ WF_vars(Ages(d))
    /\ \A w \in Workers : WF_vars(WorkerStep(w))
    /\ WF_vars(Reconcile)

FairSpec == Spec /\ Fairness
-----------------------------------------------------------------------------
\* Properties.

\* Every variable has its type: the table, the queue and every worker's registers.
TypeOK ==
    /\ row \in [Deliveries -> Rows]
    /\ outbox \in Seq(Events)
    /\ todo \in [Events -> SUBSET Deliveries]
    /\ sent \in [Events -> SUBSET Deliveries]
    /\ queue \in [Messages -> 0..MaxCopies]
    /\ pc \in [Workers -> {"idle", "claim", "handle", "load", "commit"}]
    /\ msg \in [Workers -> Messages \cup {NoMessage}]
    /\ mark \in [Workers -> Marks]
    /\ snap \in [Workers -> Rows]
    /\ claimed \in SUBSET Deliveries
    /\ faults \in 0..MaxFaults
    /\ handled \in SUBSET Deliveries
    /\ disturbed \in SUBSET Deliveries

\* However the unlocked column-wise updates of several workers interleave, a
\* committed row is one the reconciliation sweep can find (its WHERE clause
\* skips an ENQUEUED row without enqueued_at and a PROCESSING row without
\* claimed_at), and a terminal row says when, and if dead-lettered why, it ended.
RowConsistent ==
    \A d \in Deliveries :
       LET r == row[d] IN
       /\ r.status = "PENDING" => r.created_at # "null"
       /\ r.status = "ENQUEUED" => r.enqueued_at # "null"
       /\ r.status = "PROCESSING" => r.claimed_at # "null"
       /\ r.status \in Terminal => r.completed_at = "set"
       /\ ReasonMatchesStatus(r)

\* SUCCEEDED is only ever recorded for a delivery that was claimed and whose
\* handler returned normally (mark_delivery_succeeded has no guard of its own).
SucceededMeansHandled ==
    \A d \in Deliveries :
       row[d].status = "SUCCEEDED" => d \in handled /\ row[d].attempt_count > 0

\* Duplicate messages, retries, crashes and sweeps never make two workers run
\* the handler of one delivery at once, unless the claim was taken from a live
\* worker: it overran the staleness limit, or the publisher's late
\* mark_delivery_enqueued turned the row it was processing back to ENQUEUED.
ClaimExclusive ==
    \A d \in Deliveries \ disturbed :
       \A v, w \in Workers : Holds(v, d) /\ Holds(w, d) => v = w

\* A success is never undone into a state that is processed again, with the
\* same exception.  (It may be overwritten by DEAD_LETTERED: see TerminalIsFinal.)
SuccessNotReprocessed ==
    [][\A d \in Deliveries :
          row[d].status = "SUCCEEDED" /\ row'[d].status \notin Terminal
             => d \in disturbed]_vars

\* Once faults stop, every staged delivery reaches SUCCEEDED or DEAD_LETTERED
\* and stays there: no order of message, mark, claim and sweep strands a row.
EveryDeliverySettles ==
    <>[](\A d \in Deliveries : row[d].status \in Terminal \cup {"ABSENT"})

\* docs/features/domain-events.md calls SUCCEEDED the state in which "duplicate
\* messages no-op" and DEAD_LETTERED "terminal delivery failure with no
\* automatic retry remaining": a terminal status never changes.
TerminalIsFinal ==
    [][\A d \in Deliveries :
          row[d].status \in Terminal => row'[d].status = row[d].status]_vars
=============================================================================
