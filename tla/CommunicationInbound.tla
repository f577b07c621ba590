------------------------ MODULE CommunicationInbound -----------------------
(***************************************************************************)
(* The inbound half of api/domains/communications: the messages of one      *)
(* conversation, accepted by the gateway, claimed by the runtime adapter in  *)
(* the Agent's pod (agents/scripts/communications-runtime-adapter.py) and    *)
(* run, answered, cancelled, retried or dead-lettered.                       *)
(*                                                                         *)
(* The adapter has a delivery worker, which claims; under Hermes it starts    *)
(* one run thread per session, with a heartbeat that renews the claim, and    *)
(* goes on claiming; under OpenClaw it blocks for the whole turn, and         *)
(* nothing renews the claim.  A step of the adapter is one HTTP call: one      *)
(* transaction of the gateway, whose answer may be lost.                      *)
(*                                                                         *)
(* Time is abstract as in CommunicationOutbound.  An outbound row of the       *)
(* conversation that is PROCESSING also holds inbound claims back.  It only     *)
(* delays them, and a claim may come late anyway, so it is not represented;    *)
(* the fairness of claims rests on outbound rows coming to rest.              *)
(***************************************************************************)
EXTENDS Naturals, Sequences, FiniteSets

CONSTANTS
    MaxMessages,   \* bound: provider messages of the conversation
    Kinds,         \* RUNTIME_KINDs: a subset of {"hermes", "openclaw"}
    Verbose,       \* VERBOSE_MODE
    MaxAttempts,   \* max_attempts of the inbound completions
    MaxEvents,     \* bound: events of one run
    MaxFaults      \* bound: lost calls, overruns, restarts, stops, retirement

ASSUME InboundAssumption ==
    /\ MaxMessages \in Nat
    /\ Kinds \subseteq {"hermes", "openclaw"} /\ Kinds # {}
    /\ Verbose \in BOOLEAN
    /\ MaxAttempts \in Nat \ {0}
    /\ MaxEvents \in Nat \ {0}
    /\ MaxFaults \in Nat

\* Message m is the m-th that the gateway accepts: its number stands for
\* created_at.
Messages == 1..MaxMessages
NoMessage == 0

Open == {"PENDING", "PROCESSING"}
Settled == {"SUCCEEDED", "CANCELLED", "DEAD_LETTERED", "UNAVAILABLE"}
Rows == [status : {"ABSENT"} \cup Open \cup Settled,
         attempt_count : 0..MaxAttempts,
         due : BOOLEAN,                           \* available_at <= now
         lease : {"none", "live", "expired"},
         awaiting_input : BOOLEAN,
         cancel_requested : BOOLEAN]

\* A reply: its source, the suffix of its idempotency key (0 for the bare
\* delivery id, n for the n-th event of a run), and what it says.  The notices
\* of the Hermes worker and the approval prompts have keys that no answer
\* uses; they are not recorded.
Replies == [source : Messages, suffix : 0..MaxEvents, says : {"answer", "progress"}]

WorkerPlaces == {"idle", "claimed", "approving", "resolving", "publishing",
                 "notifying", "turn", "replying", "closing", "failing"}
RunPlaces == {"none", "starting", "draining", "replying", "closing", "failing"}

VARIABLES
    delivery,      \* the communication_delivery rows, by provider message
    replies,       \* the outbound rows created by enqueue_runtime_reply
    retired,       \* the Connection was retired
    running,       \* the Agent is RUNNING, and so is its pod
    kind,          \* the Agent's runtime
    worker,        \* DeliveryWorker: [at, of]
    run,           \* the session's run thread: [at, of, seq]
    pending,       \* _PENDING_APPROVALS has an entry for the session
    asked,         \* the runtime waits for an approval of the run
    told,          \* cancellations the adapter was signalled (InFlightDelivery)
    faults         \* faults so far

adapterVars == <<worker, run, pending, asked, told>>
gatewayVars == <<retired, running, kind>>
vars == <<delivery, replies, gatewayVars, adapterVars, faults>>

AbsentRow == [status |-> "ABSENT", attempt_count |-> 0, due |-> TRUE,
              lease |-> "none", awaiting_input |-> FALSE, cancel_requested |-> FALSE]

IdleWorker == [at |-> "idle", of |-> NoMessage]
NoRun == [at |-> "none", of |-> NoMessage, seq |-> 0]

Init ==
    /\ delivery = [m \in Messages |-> AbsentRow]
    /\ replies = {}
    /\ retired = FALSE
    /\ running = TRUE
    /\ kind \in Kinds
    /\ worker = IdleWorker
    /\ run = NoRun
    /\ pending = FALSE
    /\ asked = FALSE
    /\ told = {}
    /\ faults = 0

Fault == faults < MaxFaults /\ faults' = faults + 1

-----------------------------------------------------------------------------
\* The gateway's transactions, as what they make of a row.

\* Mutant of Completed: a late success beats the cancellation.
CompletedSuccessFirst(r, succeeded, fatal) ==
    [r EXCEPT !.lease = "none",
              !.status = CASE succeeded -> "SUCCEEDED"
                           [] r.cancel_requested -> "CANCELLED"
                           [] fatal \/ r.attempt_count >= MaxAttempts -> "DEAD_LETTERED"
                           [] OTHER -> "PENDING",
              !.due = succeeded \/ r.cancel_requested]

\* Mutant of Completed: failures are retried without end.
CompletedUnlimited(r, succeeded, fatal) ==
    [r EXCEPT !.lease = "none",
              !.status = CASE r.cancel_requested -> "CANCELLED"
                           [] ~ r.cancel_requested /\ succeeded -> "SUCCEEDED"
                           [] OTHER -> "PENDING"]

\* _apply_completion.
Completed(r, succeeded, fatal) ==
    LET retried == ~ (r.cancel_requested \/ succeeded \/ fatal \/ r.attempt_count >= MaxAttempts)
    IN  [r EXCEPT !.lease = "none",
                  !.status = CASE r.cancel_requested -> "CANCELLED"
                               [] ~ r.cancel_requested /\ succeeded -> "SUCCEEDED"
                               [] retried -> "PENDING"
                               [] OTHER -> "DEAD_LETTERED",
                  !.due = ~ retried]

\* Mutant of Completable: any delivery can be completed, and so re-completed.
CompletableAny(m) == delivery[m].status # "ABSENT"

\* complete_runtime_delivery answers 404 to anything but a PROCESSING row.
\* It does not ask which attempt is being completed.
Completable(m) == delivery[m].status = "PROCESSING"

CompleteDelivery(m, succeeded, fatal) ==
    delivery' = IF Completable(m)
                THEN [delivery EXCEPT ![m] = Completed(@, succeeded, fatal)]
                ELSE delivery

\* enqueue_runtime_reply refuses (409) once the source is cancelled.
Repliable(m) == ~ (delivery[m].cancel_requested \/ delivery[m].status = "CANCELLED")

\* A reply whose idempotency key is taken returns the row that has it.
WithReply(m, suffix, says) ==
    IF \E r \in replies : r.source = m /\ r.suffix = suffix
    THEN replies
    ELSE replies \cup {[source |-> m, suffix |-> suffix, says |-> says]}

Renewable(m) == delivery[m].status = "PROCESSING" /\ delivery[m].lease = "live"

\* renew_runtime_delivery_lease, reporting whether the run is parked.
Renewed(m) == [delivery EXCEPT ![m].awaiting_input = pending]

-----------------------------------------------------------------------------
\* The gateway's own operations.

\* accept_inbound.  A provider's redelivery of a known message changes only
\* display names; a disabled Connection refuses, which is no step.
Accept(m) ==
    /\ ~ retired
    /\ delivery[m].status = "ABSENT"
    /\ \A n \in 1..(m - 1) : delivery[n].status # "ABSENT"
    /\ delivery' = [delivery EXCEPT ![m].status = IF running THEN "PENDING" ELSE "UNAVAILABLE"]
    /\ UNCHANGED <<replies, retired, running, kind, adapterVars, faults>>

\* request_cancel, on the delivery that find_active_inbound_delivery named.
RequestCancel(m) ==
    /\ delivery[m].status \in Open
    /\ ~ delivery[m].cancel_requested
    /\ delivery' = [delivery EXCEPT
          ![m].cancel_requested = TRUE,
          ![m].status = IF @ = "PENDING" THEN "CANCELLED" ELSE @]
    /\ UNCHANGED <<replies, gatewayVars, adapterVars, faults>>

\* The DELIVERY_CANCELLED signal reaches the adapter, or never does.  Only
\* the OpenClaw path reads what InFlightDelivery then remembers.
CancelSignal(m) ==
    /\ running
    /\ kind = "openclaw"
    /\ delivery[m].cancel_requested
    /\ m \notin told
    /\ told' = told \cup {m}
    /\ UNCHANGED <<delivery, replies, gatewayVars, worker, run, pending, asked, faults>>

\* retire: every open row of the Connection is cancelled.
Retire ==
    /\ ~ retired
    /\ Fault
    /\ retired' = TRUE
    /\ delivery' = [m \in Messages |->
          IF delivery[m].status \in Open
          THEN [delivery[m] EXCEPT !.status = "CANCELLED", !.lease = "none"]
          ELSE delivery[m]]
    /\ UNCHANGED <<replies, running, kind, adapterVars>>

-----------------------------------------------------------------------------
\* The delivery worker.

\* Mutant of Expired: a parked claim is never taken back.
ExpiredUnlessParked(m) ==
    /\ delivery[m].status = "PROCESSING"
    /\ delivery[m].lease = "expired"
    /\ ~ delivery[m].awaiting_input

Expired(m) == delivery[m].status = "PROCESSING" /\ delivery[m].lease = "expired"

\* reclaim_expired_inbound, the first transaction of a claim.
Reclaim ==
    /\ running
    /\ worker.at = "idle"
    /\ \E m \in Messages : Expired(m)
    /\ delivery' = [m \in Messages |->
          IF Expired(m) THEN Completed(delivery[m], FALSE, FALSE) ELSE delivery[m]]
    /\ UNCHANGED <<replies, gatewayVars, adapterVars, faults>>

\* No PROCESSING row of the conversation that is not parked for an answer.
ThreadFree ==
    \A m \in Messages : delivery[m].status = "PROCESSING" => delivery[m].awaiting_input

\* A row that was never retried became available when it was created, so
\* such rows are claimed in that order.
Untried(m) == delivery[m].status = "PENDING" /\ delivery[m].attempt_count = 0

ClaimableNext(m) ==
    /\ delivery[m].status = "PENDING"
    /\ delivery[m].due
    /\ ThreadFree
    /\ Untried(m) => \A n \in 1..(m - 1) : ~ Untried(n)

Claimed(r) == [r EXCEPT !.status = "PROCESSING", !.lease = "live",
                        !.awaiting_input = FALSE, !.attempt_count = @ + 1]

\* claim_next_inbound.
ClaimNextInbound(m) ==
    /\ running
    /\ worker.at = "idle"
    /\ ClaimableNext(m)
    /\ delivery' = [delivery EXCEPT ![m] = Claimed(@)]
    /\ UNCHANGED <<replies, gatewayVars, run, pending, asked, told>>

Claim(m) ==
    /\ ClaimNextInbound(m)
    /\ worker' = [at |-> "claimed", of |-> m]
    /\ UNCHANGED faults

\* The claim's answer is lost on its way to the adapter.
ClaimLost(m) == ClaimNextInbound(m) /\ Fault /\ UNCHANGED worker

WorkerAt(place) == running /\ worker.at = place
WorkerTo(place) == worker' = [worker EXCEPT !.at = place]

\* run_delivery: OpenClaw blocks in the turn.  Hermes first takes the message
\* for an approval answer if the session waits for one; a click that answers
\* nothing gets a notice; a message of the live run itself is left to it;
\* another gets a notice; else a run starts.
TakeTurn ==
    /\ WorkerAt("claimed")
    /\ kind = "openclaw"
    /\ WorkerTo("turn")
    /\ UNCHANGED <<delivery, replies, gatewayVars, run, pending, asked, told, faults>>

TakeForAnswer ==
    /\ WorkerAt("claimed")
    /\ kind = "hermes"
    /\ pending
    /\ WorkerTo("approving") \/ WorkerTo("notifying")
    /\ UNCHANGED <<delivery, replies, gatewayVars, run, pending, asked, told, faults>>

TakeStaleClick ==
    /\ WorkerAt("claimed")
    /\ kind = "hermes"
    /\ ~ pending
    /\ WorkerTo("notifying")
    /\ UNCHANGED <<delivery, replies, gatewayVars, run, pending, asked, told, faults>>

RunIsLive == run.at # "none"

TakeAsMessage ==
    /\ WorkerAt("claimed")
    /\ kind = "hermes"
    /\ ~ pending
    /\ \/ /\ ~ RunIsLive
          /\ run' = [NoRun EXCEPT !.at = "starting", !.of = worker.of]
          /\ worker' = IdleWorker
       \/ /\ RunIsLive
          /\ run.of = worker.of
          /\ worker' = IdleWorker
          /\ UNCHANGED run
       \/ /\ RunIsLive
          /\ run.of # worker.of
          /\ WorkerTo("notifying")
          /\ UNCHANGED run
    /\ UNCHANGED <<delivery, replies, gatewayVars, pending, asked, told, faults>>

\* POST /v1/runs/{id}/approval: accepted; 400 for an unusable answer; 404 or
\* 409 when the run waits no more, and the message is then an ordinary one;
\* another HTTP error fails the message, a dead connection raises.
SubmitApproval ==
    /\ WorkerAt("approving")
    /\ \/ asked /\ asked' = FALSE /\ WorkerTo("resolving") /\ UNCHANGED <<pending, faults>>
       \/ asked /\ WorkerTo("notifying") /\ UNCHANGED <<asked, pending, faults>>
       \/ ~ asked /\ pending' = FALSE /\ WorkerTo("claimed") /\ UNCHANGED <<asked, faults>>
       \/ Fault /\ asked' \in {asked, FALSE} /\ WorkerTo("failing") /\ UNCHANGED pending
       \/ Fault /\ asked' \in {asked, FALSE} /\ worker' = IdleWorker /\ UNCHANGED pending
    /\ UNCHANGED <<delivery, replies, gatewayVars, run, told>>

\* The session's entry is dropped from _PENDING_APPROVALS.
ResolveApproval ==
    /\ WorkerAt("resolving")
    /\ pending' = FALSE
    /\ WorkerTo("publishing")
    /\ UNCHANGED <<delivery, replies, gatewayVars, run, asked, told, faults>>

\* _publish_awaiting_input for the run's claim; a failure is swallowed.
PublishAwaiting ==
    /\ WorkerAt("publishing")
    /\ delivery' = IF RunIsLive /\ Renewable(run.of) THEN Renewed(run.of) ELSE delivery
    /\ WorkerTo("closing")
    /\ UNCHANGED <<replies, gatewayVars, run, pending, asked, told, faults>>

\* post_reply of a notice.  A refusal raises out of the worker, whose _run
\* catches it: the claim is left to expire.
Notify ==
    /\ WorkerAt("notifying")
    /\ \/ /\ Repliable(worker.of)
          /\ \/ WorkerTo("closing") /\ UNCHANGED faults
             \/ worker' = IdleWorker /\ Fault
       \/ /\ ~ Repliable(worker.of)
          /\ worker' = IdleWorker
          /\ UNCHANGED faults
    /\ UNCHANGED <<delivery, replies, gatewayVars, run, pending, asked, told>>

\* A notice that answers a click is best effort: lost or refused, the worker goes
\* on.
NoticeLost ==
    /\ WorkerAt("notifying")
    /\ Fault \/ (~ Repliable(worker.of) /\ UNCHANGED faults)
    /\ WorkerTo("closing")
    /\ UNCHANGED <<delivery, replies, gatewayVars, run, pending, asked, told>>

\* The OpenClaw turn returns: suppressed when cancelled here, refused by the
\* model budget or an error, or an answer to post.
TurnEnds ==
    /\ WorkerAt("turn")
    /\ IF worker.of \in told THEN WorkerTo("failing")
       ELSE WorkerTo("failing") \/ WorkerTo("replying")
    /\ UNCHANGED <<delivery, replies, gatewayVars, run, pending, asked, told, faults>>

\* post_reply of the turn's answer; a refusal or an error fails the turn.
TurnReplies ==
    /\ WorkerAt("replying")
    /\ \/ /\ Repliable(worker.of)
          /\ replies' = WithReply(worker.of, 0, "answer")
          /\ WorkerTo("closing")
          /\ UNCHANGED faults
       \/ /\ Repliable(worker.of)
          /\ Fault
          /\ replies' \in {replies, WithReply(worker.of, 0, "answer")}
          /\ WorkerTo("failing")
       \/ /\ ~ Repliable(worker.of)
          /\ WorkerTo("failing")
          /\ UNCHANGED <<replies, faults>>
    /\ UNCHANGED <<delivery, gatewayVars, run, pending, asked, told>>

\* The worker reports its message done, and goes on to the next claim.
WorkerReports(succeeded, fatal) ==
    /\ CompleteDelivery(worker.of, succeeded, fatal)
    /\ worker' = IdleWorker
    /\ told' = told \ {worker.of}
    /\ UNCHANGED <<replies, gatewayVars, run, pending, asked, faults>>

Close == WorkerAt("closing") /\ WorkerReports(TRUE, FALSE)

\* A refusal by the model budget or by HTTP 402 is not retryable.
Fail == WorkerAt("failing") /\ \E fatal \in BOOLEAN : WorkerReports(FALSE, fatal)

\* The report does not arrive: the claim is left to expire.
ReportLost ==
    /\ WorkerAt("closing") \/ WorkerAt("failing")
    /\ Fault
    /\ worker' = IdleWorker
    /\ told' = told \ {worker.of}
    /\ UNCHANGED <<delivery, replies, gatewayVars, run, pending, asked>>

-----------------------------------------------------------------------------
\* The Hermes run thread (_run_and_drain, _drain_run) and its heartbeat.

RunAt(place) == running /\ run.at = place
RunTo(place) == run' = [run EXCEPT !.at = place]
NextEvent == run.seq + 1
MoreEvents == NextEvent < MaxEvents

\* POST /v1/runs.
StartRun ==
    /\ RunAt("starting")
    /\ RunTo("draining") \/ RunTo("failing")
    /\ UNCHANGED <<delivery, replies, gatewayVars, worker, pending, asked, told, faults>>

\* A tool or subagent event, relayed or not (VERBOSE_MODE, at most one in
\* three seconds, best effort).
ToolEvent ==
    /\ RunAt("draining")
    /\ ~ asked /\ MoreEvents
    /\ run' = [run EXCEPT !.seq = NextEvent]
    /\ replies' = IF Verbose /\ Repliable(run.of)
                  THEN WithReply(run.of, NextEvent, "progress") ELSE replies
    /\ UNCHANGED <<delivery, gatewayVars, worker, pending, asked, told, faults>>

\* An approval.request event: the entry, the parked claim, the prompt (best
\* effort).
ApprovalEvent ==
    /\ RunAt("draining")
    /\ ~ asked /\ MoreEvents
    /\ asked' = TRUE
    /\ pending' = TRUE
    /\ run' = [run EXCEPT !.seq = NextEvent]
    /\ delivery' = IF Renewable(run.of)
                   THEN [delivery EXCEPT ![run.of].awaiting_input = TRUE] ELSE delivery
    /\ UNCHANGED <<replies, gatewayVars, worker, told, faults>>

\* The runtime gives up waiting for the approval (external).
ApprovalTimesOut ==
    /\ RunAt("draining")
    /\ asked
    /\ asked' = FALSE
    /\ UNCHANGED <<delivery, replies, gatewayVars, worker, run, pending, told, faults>>

\* A run.completed event; a spent model budget makes it a failure.
RunCompletes ==
    /\ RunAt("draining")
    /\ ~ asked
    /\ pending' = FALSE
    /\ \/ run' = [run EXCEPT !.seq = NextEvent, !.at = "replying"]
       \/ RunTo("failing")
    /\ UNCHANGED <<delivery, replies, gatewayVars, worker, asked, told, faults>>

\* run.failed, run.cancelled, or the event stream ends early.
RunFails ==
    /\ RunAt("draining")
    /\ pending' = FALSE
    /\ asked' = FALSE
    /\ RunTo("failing")
    /\ UNCHANGED <<delivery, replies, gatewayVars, worker, told, faults>>

\* Mutant of RunReplies: a refused reply is ignored, as a progress line is.
RunRepliesBestEffort ==
    /\ RunAt("replying")
    /\ \/ Repliable(run.of) /\ replies' = WithReply(run.of, run.seq, "answer") /\ UNCHANGED faults
       \/ Repliable(run.of) /\ Fault /\ UNCHANGED replies
       \/ ~ Repliable(run.of) /\ UNCHANGED <<replies, faults>>
    /\ RunTo("closing")
    /\ UNCHANGED <<delivery, gatewayVars, worker, pending, asked, told>>

\* post_reply of the run's answer.
RunReplies ==
    /\ RunAt("replying")
    /\ \/ /\ Repliable(run.of)
          /\ replies' = WithReply(run.of, run.seq, "answer")
          /\ RunTo("closing")
          /\ UNCHANGED faults
       \/ /\ Repliable(run.of)
          /\ Fault
          /\ replies' \in {replies, WithReply(run.of, run.seq, "answer")}
          /\ RunTo("failing")
       \/ /\ ~ Repliable(run.of)
          /\ RunTo("failing")
          /\ UNCHANGED <<replies, faults>>
    /\ UNCHANGED <<delivery, gatewayVars, worker, pending, asked, told>>

RunEnds == run' = NoRun /\ UNCHANGED <<replies, gatewayVars, worker, told>>

\* complete_delivery of a run that ended well.  When the claim is no longer
\* PROCESSING the 404 raises and is reported as a failure, which finds the
\* same; so does one that was applied and whose answer was lost.
RunCloses ==
    /\ RunAt("closing")
    /\ CompleteDelivery(run.of, TRUE, FALSE)
    /\ RunEnds
    /\ UNCHANGED <<pending, asked, faults>>

\* The completion does not arrive: _run_and_drain reports a failure instead.
CloseLost ==
    /\ RunAt("closing")
    /\ Fault
    /\ RunTo("failing")
    /\ UNCHANGED <<delivery, replies, gatewayVars, worker, pending, asked, told>>

\* complete_delivery of a run that failed, applied or lost; some errors (a
\* spent budget, HTTP 402) are not retryable.
RunReportsFailure ==
    /\ RunAt("failing")
    /\ pending' = FALSE
    /\ asked' = FALSE
    /\ \/ \E fatal \in BOOLEAN : CompleteDelivery(run.of, FALSE, fatal) /\ UNCHANGED faults
       \/ UNCHANGED delivery /\ Fault
    /\ RunEnds

\* A heartbeat renews the claim and reports whether the run is parked.
Heartbeat ==
    /\ running /\ RunIsLive
    /\ Renewable(run.of)
    /\ Renewed(run.of) # delivery
    /\ delivery' = Renewed(run.of)
    /\ UNCHANGED <<replies, gatewayVars, adapterVars, faults>>

-----------------------------------------------------------------------------
\* Time, pods and the Agent.

\* A claim outlives its lease: at any time when nothing renews it, and as a
\* fault (heartbeats fail) when a run thread does.
Renewing(m) == RunIsLive /\ run.of = m

LeaseRunsOut(m) ==
    /\ delivery[m].status = "PROCESSING"
    /\ delivery[m].lease = "live"
    /\ delivery' = [delivery EXCEPT ![m].lease = "expired"]
    /\ UNCHANGED <<replies, gatewayVars, adapterVars>>

LeaseExpires(m) == ~ Renewing(m) /\ LeaseRunsOut(m) /\ UNCHANGED faults

HeartbeatsMissed(m) == Renewing(m) /\ LeaseRunsOut(m) /\ Fault

BackoffEnds(m) ==
    /\ delivery[m].status = "PENDING"
    /\ ~ delivery[m].due
    /\ delivery' = [delivery EXCEPT ![m].due = TRUE]
    /\ UNCHANGED <<replies, gatewayVars, adapterVars, faults>>

\* The pod's processes start afresh: the adapter keeps its state in memory.
AdapterLost ==
    /\ worker' = IdleWorker
    /\ run' = NoRun
    /\ pending' = FALSE
    /\ asked' = FALSE
    /\ told' = {}
    /\ UNCHANGED <<delivery, replies, retired, kind>>

PodRestarts == running /\ Fault /\ AdapterLost /\ UNCHANGED running

StopAgent == running /\ Fault /\ AdapterLost /\ running' = FALSE

StartAgent ==
    /\ ~ running
    /\ running' = TRUE
    /\ UNCHANGED <<delivery, replies, retired, kind,
                   adapterVars, faults>>

-----------------------------------------------------------------------------
MessageStep(m) ==
    \/ Accept(m)
    \/ RequestCancel(m)
    \/ CancelSignal(m)
    \/ Claim(m) \/ ClaimLost(m)
    \/ LeaseExpires(m)
    \/ HeartbeatsMissed(m)
    \/ BackoffEnds(m)

WorkerStep ==
    \/ TakeTurn \/ TakeForAnswer \/ TakeStaleClick \/ TakeAsMessage
    \/ SubmitApproval \/ ResolveApproval \/ PublishAwaiting
    \/ Notify \/ NoticeLost
    \/ TurnEnds \/ TurnReplies
    \/ Close \/ Fail \/ ReportLost

RunStep ==
    \/ StartRun \/ ToolEvent \/ ApprovalEvent \/ ApprovalTimesOut
    \/ RunCompletes \/ RunFails \/ RunReplies
    \/ RunCloses \/ CloseLost \/ RunReportsFailure

Next ==
    \/ \E m \in Messages : MessageStep(m)
    \/ Reclaim
    \/ WorkerStep
    \/ RunStep
    \/ Heartbeat
    \/ Retire \/ PodRestarts \/ StopAgent \/ StartAgent

Spec == Init /\ [][Next]_vars

\* The worker's loop polls every five seconds whether or not a signal came,
\* its calls and the run's return (30 s and 900 s timeouts), the runtime ends
\* every run and every wait for an approval, heartbeats, leases and backoffs
\* happen.  Messages, cancellations, signals, operators
\* and faults are not fair.
FairSpec ==
    /\ Spec
    /\ WF_vars(Reclaim)
    /\ \A m \in Messages : WF_vars(Claim(m))
    /\ WF_vars(WorkerStep)
    /\ WF_vars(RunStep)
    /\ WF_vars(Heartbeat)
    /\ \A m \in Messages : WF_vars(LeaseExpires(m))
    /\ \A m \in Messages : WF_vars(BackoffEnds(m))

-----------------------------------------------------------------------------
\* Properties.

TypeOK ==
    /\ delivery \in [Messages -> Rows]
    /\ replies \subseteq Replies
    /\ retired \in BOOLEAN /\ running \in BOOLEAN
    /\ kind \in Kinds
    /\ worker \in [at : WorkerPlaces, of : {NoMessage} \cup Messages]
    /\ worker.at # "idle" => worker.of \in Messages
    /\ run \in [at : RunPlaces, of : {NoMessage} \cup Messages, seq : 0..MaxEvents]
    /\ run.at # "none" => run.of \in Messages
    /\ pending \in BOOLEAN /\ asked \in BOOLEAN
    /\ told \subseteq Messages
    /\ faults \in 0..MaxFaults

\* Once a person stopped a message, no completion, expired lease, retry or
\* restart makes it succeed, run again or dead-letter, and no reply of it is
\* queued any more (docs/features/communications/CHANGELOG.md: cancellation
\* "takes precedence over late successful completion, and atomically prevents
\* reply creation").
CancelWins ==
    [][\A m \in Messages : delivery[m].cancel_requested =>
          /\ delivery'[m].status \in {"PROCESSING", "CANCELLED"}
          /\ {r \in replies' : r.source = m} = {r \in replies : r.source = m}]_vars

\* A settled message stays as it settled, and is not claimed again, whatever
\* reports of earlier attempts come in late.
SettledStaysSettled ==
    [][\A m \in Messages :
          delivery[m].status \in Settled => delivery'[m].status = delivery[m].status]_vars

\* A run or a turn that ended well and makes its message succeed has its
\* answer among the queued replies ("Keep draining so the final response can
\* still arrive", post_reply_best_effort).
AnsweredBy(place, m) == place.at = "closing" /\ place.of = m

AnswerQueued ==
    [][\A m \in Messages :
          /\ delivery[m].status # "SUCCEEDED" /\ delivery'[m].status = "SUCCEEDED"
          /\ \/ AnsweredBy(run, m) /\ run'.at = "none"
             \/ AnsweredBy(worker, m) /\ kind = "openclaw"
          => \E r \in replies : r.source = m /\ r.says = "answer"]_vars

\* Every accepted message settles, through lost calls, expired claims and pod
\* restarts, when in the end the Agent runs.
MessagesSettle ==
    <>[]running =>
        \A m \in Messages : (delivery[m].status \in Open) ~> (delivery[m].status \in Settled)
=============================================================================
